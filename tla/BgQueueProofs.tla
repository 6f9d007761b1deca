--------------------------- MODULE BgQueueProofs --------------------------
(***************************************************************************)
(* What holds of BgQueue for any players, any size of the teams, and any   *)
(* number of messages on their way.                                        *)
(***************************************************************************)
EXTENDS BgQueue, FiniteSetTheorems, WellFoundedInduction, TLAPS

Statuses == {"wait_queue", "wait_join", "in_progress", "wait_leave", "deleted"}
Counts == [Teams -> 0..MaxCount]
Groups == [number : Nat, player : Players, invitedTo : Nat]
Infos == [instanceId : Nat, status : Statuses, invited : Counts, playersInside : Nat]
Battles == [status : Statuses, invited : Counts, players : SUBSET Players, m_hasBgFreeSlotQueue : BOOLEAN]
Timers == [instanceId : Nat, removeInviteTime : Nat]

ForQueue == [type : {"AddGroup"}, player : Players, number : Nat]
     \union [type : {"Port"}, player : Players, enter : BOOLEAN]
     \union [type : {"LoggedOut"}, player : Players]
     \union [type : {"Expired"}, player : Players, instanceId : Nat, removeInviteTime : Nat, running : BOOLEAN]
     \union [type : {"SetStatus"}, instanceId : Nat, status : Statuses]
     \union [type : {"AddBgToFreeSlots"}, info : Infos]
     \union [type : {"RemoveBgFromFreeSlots"}, instanceId : Nat]
     \union [type : {"DecreaseInvitedCount"}, instanceId : Nat, team : Teams]
     \union [type : {"ScheduleQueueUpdate"}]

ForWorld == [type : {"Queued", "Left"}, player : Players]
     \union [type : {"Enter"}, player : Players, instanceId : Nat]
     \union [type : {"Invite", "Timeout"}, player : Players, instanceId : Nat, removeInviteTime : Nat]
     \union [type : {"SetInvitedCount"}, instanceId : Nat, team : Teams, count : 0..MaxCount]
     \union [type : {"Create"}, instanceId : Nat, invited : Counts]

QueueTypes == /\ m_queuedGroups \in Seq(Groups)
              /\ m_queuedPlayers \in [Players -> Nat \union {None}]
              /\ m_bgFreeSlotQueue \in Seq(Infos)
              /\ m_queueUpdateScheduler \in BOOLEAN
              /\ i_MaxInstanceId \in Nat
MessageTypes == toQueue \in Seq(ForQueue) /\ toWorld \in Seq(ForWorld)
WorldTypes == /\ Created \subseteq 1..i_MaxInstanceId
              /\ m_battleGrounds \in [Created -> Battles]
              /\ online \in [Players -> BOOLEAN]
              /\ away \in [Players -> {None} \union 0..i_MaxInstanceId]
              /\ bgInstanceID \in [Players -> 0..i_MaxInstanceId]
              /\ m_bgBattleGroundQueueID \in [Players -> [in : BOOLEAN, invitedToInstance : Nat]]
              /\ m_events \in [Players -> SUBSET Timers]
              /\ joins \in [Players -> Nat]
BgTypes == QueueTypes /\ MessageTypes /\ WorldTypes

\* The k-th message, of a kind and about a player or a battleground.
Receives(k, kind) == k \in 1..Len(toQueue) /\ toQueue[k].type = kind
Adds(k, i) == Receives(k, "AddBgToFreeSlots") /\ toQueue[k].info.instanceId = i
Removes(k, i) == Receives(k, "RemoveBgFromFreeSlots") /\ toQueue[k].instanceId = i
Tells(k, kind) == k \in 1..Len(toWorld) /\ toWorld[k].type = kind
Enters(k, p) == Tells(k, "Enter") /\ toWorld[k].player = p
Creates(k, i) == Tells(k, "Create") /\ toWorld[k].instanceId = i

\* The j-th group is the n-th of the player.
HasGroup(j, p, n) == j \in 1..Len(m_queuedGroups) /\ m_queuedGroups[j].player = p /\ m_queuedGroups[j].number = n

(* Entries.                                                                *)
Twice(i) == \E k, l \in Entries(m_bgFreeSlotQueue, i) : k # l
Ended(i) == i \in Created /\ m_battleGrounds[i].status \in {"wait_leave", "deleted"}
                          /\ ~m_battleGrounds[i].m_hasBgFreeSlotQueue

Instances == 1..i_MaxInstanceId
InQueue == /\ \A j \in 1..Len(m_queuedGroups) : m_queuedGroups[j].invitedTo \in 0..i_MaxInstanceId
           /\ \A k \in 1..Len(m_bgFreeSlotQueue) : m_bgFreeSlotQueue[k].instanceId \in Instances
           /\ \A i \in Instances : Entries(m_bgFreeSlotQueue, i) # {}
           /\ \A i \in Created : m_battleGrounds[i].m_hasBgFreeSlotQueue =>
                 Twice(i) \/ \E k \in Nat : Adds(k, i)
           /\ \A i \in Nat, k \in Nat : Removes(k, i) =>
                 /\ Ended(i)
                 /\ Twice(i) \/ \E l \in 1..(k - 1) : Adds(l, i)
                 /\ \A l \in Nat : Removes(l, i) => k = l
           /\ \A i \in Nat, k \in Nat : Adds(k, i) => i \in Instances
OnItsWay == /\ \A i \in Nat, k \in Nat : Creates(k, i) =>
                  /\ i \in Instances \ Created
                  /\ \A l \in Nat : Creates(l, i) => k = l
            /\ \A k \in Nat, p \in Players : Enters(k, p) => toWorld[k].instanceId \in Instances
Listed == InQueue /\ OnItsWay

\* A player of the queue has a group there.
Grouped == \A p \in Players : m_queuedPlayers[p] # None => \E j \in Nat : HasGroup(j, p, m_queuedPlayers[p])

\* Who has accepted or is inside.
Coming(i, t) == {p \in Players : /\ Team(p) = t
                                 /\ bgInstanceID[p] = i \/ \E k \in Nat : Enters(k, p) /\ toWorld[k].instanceId = i}
-----------------------------------------------------------------------------
(* Sequences.                                                              *)

\* A set of numbers has a least one: what stands for induction below.
LEMMA Least ==
  ASSUME NEW T \in SUBSET Nat, T # {}
  PROVE  \E n \in T : \A m \in T : n <= m
<1>1. PICK n \in T : \A m \in T : ~(<<m, n>> \in OpToRel(<, Nat))
  BY NatLessThanWellFounded, WFMin
<1>2. \A m \in T : ~(m < n)
  BY <1>1 DEF OpToRel
<1>. QED
  BY <1>2

\* What RemoveAt leaves of a sequence.
LEMMA RemoveAtFact ==
  ASSUME NEW S, NEW s \in Seq(S), NEW at \in 1..Len(s)
  PROVE  /\ RemoveAt(s, at) \in Seq(S)
         /\ Len(RemoveAt(s, at)) = Len(s) - 1
         /\ \A k \in 1..(Len(s) - 1) : RemoveAt(s, at)[k] = IF k < at THEN s[k] ELSE s[k + 1]
<1> DEFINE front == SubSeq(s, 1, at - 1)
           back == SubSeq(s, at + 1, Len(s))
<1>1. Len(s) \in Nat /\ at \in Nat /\ at >= 1 /\ at <= Len(s)
  OBVIOUS
<1>2. /\ front \in Seq(S) /\ Len(front) = at - 1
      /\ \A k \in 1..(at - 1) : front[k] = s[k]
  BY <1>1
<1>3. /\ back \in Seq(S) /\ Len(back) = Len(s) - at
      /\ \A k \in 1..(Len(s) - at) : back[k] = s[at + k]
  BY <1>1
<1>4. RemoveAt(s, at) = front \o back
  BY DEF RemoveAt
<1> HIDE DEF front, back
<1>5. /\ RemoveAt(s, at) \in Seq(S) /\ Len(RemoveAt(s, at)) = Len(s) - 1
      /\ \A k \in 1..(Len(s) - 1) : RemoveAt(s, at)[k] = IF k <= at - 1 THEN front[k] ELSE back[k - (at - 1)]
  BY <1>1, <1>2, <1>3, <1>4
<1>6. ASSUME NEW k \in 1..(Len(s) - 1)
      PROVE  RemoveAt(s, at)[k] = IF k < at THEN s[k] ELSE s[k + 1]
  <2>1. CASE k < at
    BY <1>1, <1>2, <1>5, <2>1
  <2>2. CASE ~(k < at)
    <3>1. k - (at - 1) \in 1..(Len(s) - at) /\ at + (k - (at - 1)) = k + 1
      BY <1>1, <2>2
    <3>. QED
      BY <1>1, <1>3, <1>5, <2>2, <3>1
  <2>. QED
    BY <2>1, <2>2
<1>. QED
  BY <1>5, <1>6

-----------------------------------------------------------------------------
(* The update of the queue.                                                *)

Filling == [groups : Seq(Groups), slots : Seq(Infos), sent : Seq(ForWorld)]

\* Numbers tell the groups of a player apart.
Apart(groups) == \A j, l \in 1..Len(groups) :
                    groups[j].player = groups[l].player /\ groups[j].number = groups[l].number => j = l

SameGroups(groups, old) ==
    /\ Len(groups) = Len(old)
    /\ \A j \in 1..Len(old) : /\ groups[j].player = old[j].player /\ groups[j].number = old[j].number
                              /\ old[j].invitedTo # 0 => groups[j].invitedTo = old[j].invitedTo
SameSlots(slots, old) ==
    /\ Len(slots) = Len(old)
    /\ \A k \in 1..Len(old) : slots[k].instanceId = old[k].instanceId /\ slots[k].playersInside = old[k].playersInside
Invites(sent, k) == k \in 1..Len(sent) /\ sent[k].type = "Invite"

\* The invitations sent are of groups that were not invited and now are.
Answered(sent, groups, old) ==
    /\ \A k \in 1..Len(sent) : sent[k].type \in {"Invite", "SetInvitedCount"}
    /\ \A k \in Nat : Invites(sent, k) => \E j \in 1..Len(old) :
          /\ old[j].invitedTo = 0 /\ groups[j].invitedTo # 0
          /\ old[j].player = sent[k].player /\ old[j].number = sent[k].removeInviteTime
    /\ Apart(old) => \A k, l \in Nat : (/\ Invites(sent, k) /\ Invites(sent, l)
                                        /\ sent[k].player = sent[l].player
                                        /\ sent[k].removeInviteTime = sent[l].removeInviteTime) => k = l
\* The entries of D count all who may come.
Bounded(slots, groups, D) ==
    \A k \in 1..Len(slots), t \in Teams : slots[k].instanceId \in D =>
       /\ Cardinality(Guests(groups, slots[k].instanceId, t)) + Cardinality(Coming(slots[k].instanceId, t))
             <= slots[k].invited[t]
       /\ slots[k].invited[t] <= MaxPlayersPerTeam
Ids(groups, slots, max) ==
    /\ \A j \in 1..Len(groups) : groups[j].invitedTo \in 0..max
    /\ \A k \in 1..Len(slots) : slots[k].instanceId \in 1..max

\* What has become of the groups and entries during an update.
Filled(s, groups, slots, max, D) ==
    /\ s \in Filling
    /\ SameGroups(s.groups, groups) /\ SameSlots(s.slots, slots)
    /\ Ids(s.groups, s.slots, max)
    /\ Answered(s.sent, s.groups, groups)
    /\ Bounded(s.slots, s.groups, D)

\* A set with one element more.
LEMMA OneMore ==
  ASSUME NEW A, NEW B, NEW x, IsFiniteSet(B), A \subseteq B \union {x}
  PROVE  /\ IsFiniteSet(A) /\ Cardinality(A) \in Nat /\ Cardinality(B) \in Nat
         /\ Cardinality(A) <= Cardinality(B) + 1
<1>1. IsFiniteSet(B \union {x}) /\ Cardinality(B \union {x}) <= Cardinality(B) + 1
      /\ Cardinality(B) \in Nat
  <2>1. /\ IsFiniteSet(B \union {x})
        /\ x \in B => Cardinality(B \union {x}) = Cardinality(B)
        /\ x \notin B => Cardinality(B \union {x}) = Cardinality(B) + 1
    BY FS_AddElement
  <2>2. Cardinality(B) \in Nat
    BY FS_CardinalityType
  <2> DEFINE b == Cardinality(B)
  <2> HIDE DEF b
  <2>. QED
    BY <2>1, <2>2
<1>2. IsFiniteSet(A) /\ Cardinality(A) <= Cardinality(B \union {x})
  BY <1>1, FS_Subset
<1>3. Cardinality(A) \in Nat /\ Cardinality(B \union {x}) \in Nat
  BY <1>1, <1>2, FS_CardinalityType
<1>. QED
  BY <1>1, <1>2, <1>3

\* The groups invited to a battleground are finitely many.
LEMMA GuestsFinite ==
  ASSUME NEW groups \in Seq(Groups)
  PROVE  \A i, t : IsFiniteSet(Guests(groups, i, t))
<1> DEFINE f == [j \in 1..Len(groups) |-> groups[j]]
<1>1. Len(groups) \in Nat /\ DOMAIN groups = 1..Len(groups)
  OBVIOUS
<1>2. f \in Surjection(1..Len(groups), ToSet(groups))
  BY <1>1 DEF ToSet, Surjection
<1>3. IsFiniteSet(1..Len(groups))
  BY <1>1, FS_Interval
<1>4. IsFiniteSet(ToSet(groups))
  BY <1>2, <1>3, FS_Surjection
<1>. QED
  <2> TAKE i, t
  <2>1. Guests(groups, i, t) \subseteq ToSet(groups)
    BY DEF Guests
  <2>. QED
    BY <1>4, <2>1, FS_Subset

Single(slots, D) == \A k, l \in 1..Len(slots) :
                       slots[k].instanceId = slots[l].instanceId /\ slots[k].instanceId \in D => k = l

\* What one group, invited or passed over, leaves of the update (BattleGroundQueue.cpp:498-558).
LEMMA InviteStep ==
  ASSUME NEW s, NEW groups \in Seq(Groups), NEW slots \in Seq(Infos), NEW max \in Nat, NEW D,
         Filled(s, groups, slots, max, D), Single(slots, D), \A i, t : IsFiniteSet(Coming(i, t)),
         NEW j \in 1..Len(groups), NEW k \in 1..Len(slots), NEW team \in Teams, NEW limit \in 0..MaxPlayersPerTeam
  PROVE  Filled(InviteGroupToBg(s, j, k, team, limit), groups, slots, max, D)
<1> DEFINE g == s.groups[j]
           info == s.slots[k]
           i == info.instanceId
           count == info.invited[team] + 1
           G == [s.groups EXCEPT ![j].invitedTo = i]
           S == [s.slots EXCEPT ![k].invited[team] = count]
           new == << [type |-> "Invite", player |-> g.player, instanceId |-> i,
                      removeInviteTime |-> g.number], Count(i, team, count) >>
           after == InviteGroupToBg(s, j, k, team, limit)
<1>1. CASE ~(Waits(g, team) /\ count <= limit)
  <2>1. after = s
    BY <1>1 DEF InviteGroupToBg
  <2>. QED
    BY <2>1
<1>2. CASE Waits(g, team) /\ count <= limit
  <2>1. after = [groups |-> G, slots |-> S, sent |-> s.sent \o new]
    BY <1>2 DEF InviteGroupToBg
  <2>2. s.groups \in Seq(Groups) /\ s.slots \in Seq(Infos) /\ s.sent \in Seq(ForWorld)
        /\ Len(s.groups) = Len(groups) /\ Len(s.slots) = Len(slots)
    BY DEF Filled, Filling, SameGroups, SameSlots
  <2>3. g \in Groups /\ info \in Infos /\ g.invitedTo = 0 /\ Team(g.player) = team
    BY <1>2, <2>2 DEF Waits
  <2>4. info.invited \in Counts /\ info.invited[team] \in 0..MaxCount /\ info.instanceId \in Nat
    BY <2>3 DEF Infos, Counts
  <2>5. i \in 1..max /\ i \in Nat /\ i # 0
    BY <2>2 DEF Filled, Ids
  <2>6. count \in 0..MaxCount /\ count <= MaxPlayersPerTeam /\ info.invited[team] < count
    <3> DEFINE c == info.invited[team]
    <3>1. c \in Nat /\ c + 1 <= limit
      BY <1>2, <2>4
    <3> HIDE DEF c
    <3>2. c + 1 \in 0..MaxCount /\ c + 1 <= MaxPlayersPerTeam /\ c < c + 1
      BY <3>1, BgBoundsAssumption
    <3>. QED
      BY <3>2 DEF c
  <2> DEFINE G2 == [g EXCEPT !.invitedTo = i]
             C2 == [info.invited EXCEPT ![team] = count]
             I2 == [info EXCEPT !.invited = C2]
  <2> HIDE DEF g, info, count, i
  <2>7. G2 \in Groups /\ G2.player = g.player /\ G2.number = g.number /\ G2.invitedTo = i
    BY <2>3, <2>5 DEF Groups
  <2>8. C2 \in Counts
    BY <2>4, <2>6 DEF Counts
  <2>9. I2 \in Infos /\ I2.instanceId = info.instanceId /\ I2.invited = C2
       /\ I2.playersInside = info.playersInside
    <3> HIDE DEF C2
    <3>. QED
      BY <2>3, <2>8 DEF Infos
  <2>10. /\ G \in Seq(Groups) /\ Len(G) = Len(groups)
         /\ \A l \in 1..Len(groups) : G[l] = IF l = j THEN G2 ELSE s.groups[l]
    BY <2>2, <2>7 DEF g
  <2>11. /\ S \in Seq(Infos) /\ Len(S) = Len(slots)
         /\ \A l \in 1..Len(slots) : S[l] = IF l = k THEN I2 ELSE s.slots[l]
    <3>1. S = [s.slots EXCEPT ![k] = I2]
      BY DEF info
    <3> HIDE DEF I2, S
    <3>. QED
      BY <2>2, <2>9, <3>1
  <2> HIDE DEF G, S, G2, I2, C2
  <2>12. SameGroups(G, groups) /\ SameSlots(S, slots) /\ Ids(G, S, max)
    <3>1. SameGroups(s.groups, groups) /\ SameSlots(s.slots, slots) /\ Ids(s.groups, s.slots, max)
      BY DEF Filled
    <3>2. SameGroups(G, groups)
      BY <2>3, <2>7, <2>10, <3>1 DEF SameGroups, g
    <3>3. SameSlots(S, slots)
      BY <2>9, <2>11, <3>1 DEF SameSlots, info
    <3>4. Ids(G, S, max)
      <4>1. i \in 0..max /\ info.instanceId \in 1..max
        BY <2>5 DEF i
      <4>2. \A l \in 1..Len(groups) : G[l].invitedTo \in 0..max
        BY <2>2, <2>7, <2>10, <3>1, <4>1 DEF Ids
      <4>3. \A l \in 1..Len(slots) : S[l].instanceId \in 1..max
        BY <2>2, <2>9, <2>11, <3>1, <4>1 DEF Ids
      <4>. QED
        BY <2>10, <2>11, <4>2, <4>3 DEF Ids
    <3>. QED
      BY <3>2, <3>3, <3>4
  <2>13. s.sent \o new \in Seq(ForWorld) /\ Answered(s.sent \o new, G, groups)
    <3> DEFINE n == Len(s.sent)
               all == s.sent \o new
    <3>1. new[1] \in ForWorld /\ new[2] \in ForWorld
      <4>1. [type |-> "Invite", player |-> g.player, instanceId |-> i, removeInviteTime |-> g.number] \in ForWorld
        BY <2>3, <2>5 DEF ForWorld, Groups
      <4>2. Count(i, team, count) \in ForWorld
        BY <2>5, <2>6 DEF ForWorld, Count
      <4>. QED
        BY <4>1, <4>2
    <3>2. /\ all \in Seq(ForWorld) /\ n \in Nat /\ Len(all) = n + 2
          /\ \A m \in 1..n : all[m] = s.sent[m]
          /\ all[n + 1] = new[1] /\ all[n + 2] = new[2]
      BY <2>2, <3>1
    <3>3. /\ new[1].type = "Invite" /\ new[1].player = g.player /\ new[1].removeInviteTime = g.number
          /\ new[2].type = "SetInvitedCount"
      BY DEF Count
    <3>4. Answered(s.sent, s.groups, groups)
      BY DEF Filled
    <3> HIDE DEF n, all, new
    <3>5. /\ \A m \in Nat : Invites(all, m) <=> (Invites(s.sent, m) \/ m = n + 1)
          /\ \A m \in 1..Len(all) : all[m].type \in {"Invite", "SetInvitedCount"}
      <4>1. \A m \in 1..Len(all) : m \in 1..n \/ m = n + 1 \/ m = n + 2
        BY <3>2
      <4>2. \A m \in 1..n : s.sent[m].type \in {"Invite", "SetInvitedCount"} /\ m # n + 1 /\ m \in 1..Len(all)
        BY <3>2, <3>4 DEF Answered, n
      <4>3. \A m \in 1..Len(all) : all[m].type \in {"Invite", "SetInvitedCount"}
        BY <3>2, <3>3, <4>1, <4>2
      <4>4. ASSUME NEW m \in Nat
            PROVE  Invites(all, m) <=> (Invites(s.sent, m) \/ m = n + 1)
        <5>1. CASE m \in 1..n
          BY <3>2, <4>2, <5>1 DEF Invites, n
        <5>2. CASE m = n + 1
          BY <3>2, <3>3, <5>2 DEF Invites, n
        <5>3. CASE m = n + 2
          BY <3>2, <3>3, <5>3 DEF Invites, n
        <5>4. CASE m \notin 1..Len(all)
          BY <3>2, <5>4 DEF Invites, n
        <5>. QED
          BY <4>1, <5>1, <5>2, <5>3, <5>4
      <4>. QED
        BY <4>3, <4>4
    <3>6. groups[j].invitedTo = 0 /\ groups[j].player = g.player /\ groups[j].number = g.number
          /\ G[j].invitedTo # 0
      BY <2>3, <2>5, <2>7, <2>10 DEF Filled, SameGroups, g
    <3>7. \A m \in Nat : Invites(all, m) => \E l \in 1..Len(groups) :
             /\ groups[l].invitedTo = 0 /\ G[l].invitedTo # 0
             /\ groups[l].player = all[m].player /\ groups[l].number = all[m].removeInviteTime
             /\ m # n + 1 => s.groups[l].invitedTo # 0
      <4> SUFFICES ASSUME NEW m \in Nat, Invites(all, m)
                   PROVE  \E l \in 1..Len(groups) :
                             /\ groups[l].invitedTo = 0 /\ G[l].invitedTo # 0
                             /\ groups[l].player = all[m].player /\ groups[l].number = all[m].removeInviteTime
                             /\ m # n + 1 => s.groups[l].invitedTo # 0
        OBVIOUS
      <4>1. CASE m = n + 1
        BY <3>2, <3>3, <3>6, <4>1
      <4>2. CASE m # n + 1
        <5>1. Invites(s.sent, m) /\ m \in 1..n
          BY <3>5, <4>2 DEF Invites, n
        <5>2. PICK l \in 1..Len(groups) :
                 /\ groups[l].invitedTo = 0 /\ s.groups[l].invitedTo # 0
                 /\ groups[l].player = s.sent[m].player /\ groups[l].number = s.sent[m].removeInviteTime
          BY <3>4, <5>1 DEF Answered
        <5>3. G[l].invitedTo # 0 /\ all[m] = s.sent[m]
          BY <2>3, <2>10, <3>2, <3>6, <5>1, <5>2
        <5>. QED
          BY <5>2, <5>3
      <4>. QED
        BY <4>1, <4>2
    <3>8. ASSUME Apart(groups)
          PROVE  \A m, l \in Nat : (/\ Invites(all, m) /\ Invites(all, l)
                             /\ all[m].player = all[l].player
                             /\ all[m].removeInviteTime = all[l].removeInviteTime) => m = l
      <4>1. \A m \in Nat : Invites(all, m) /\ m # n + 1 => Invites(s.sent, m) /\ all[m] = s.sent[m]
        BY <3>2, <3>5 DEF Invites, n
      <4>2. ASSUME NEW m \in Nat, Invites(all, m), m # n + 1,
                   all[m].player = all[n + 1].player, all[m].removeInviteTime = all[n + 1].removeInviteTime
            PROVE  FALSE
        <5>1. PICK l \in 1..Len(groups) : /\ groups[l].player = g.player /\ groups[l].number = g.number
                                          /\ s.groups[l].invitedTo # 0
          BY <3>2, <3>3, <3>7, <4>2
        <5>2. l = j
          BY <3>6, <3>8, <5>1 DEF Apart
        <5>. QED
          BY <2>3, <5>1, <5>2 DEF g
      <4>3. \A m, l \in Nat : (/\ Invites(s.sent, m) /\ Invites(s.sent, l)
                               /\ s.sent[m].player = s.sent[l].player
                               /\ s.sent[m].removeInviteTime = s.sent[l].removeInviteTime) => m = l
        BY <3>4, <3>8 DEF Answered
      <4>4. n + 1 \in Nat
        BY <3>2
      <4> TAKE m, l \in Nat
      <4> HAVE /\ Invites(all, m) /\ Invites(all, l)
               /\ all[m].player = all[l].player
               /\ all[m].removeInviteTime = all[l].removeInviteTime
      <4>5. m = n + 1 => l = n + 1
        BY <4>2
      <4>6. l = n + 1 => m = n + 1
        BY <4>2
      <4>. QED
        BY <4>1, <4>3, <4>5, <4>6
    <3>. QED
      BY <3>2, <3>5, <3>7, <3>8 DEF Answered, all
  <2>14. Bounded(S, G, D)
    <3> SUFFICES ASSUME NEW l \in 1..Len(slots), NEW t \in Teams, S[l].instanceId \in D
                 PROVE  /\ Cardinality(Guests(G, S[l].instanceId, t)) + Cardinality(Coming(S[l].instanceId, t))
                              <= S[l].invited[t]
                        /\ S[l].invited[t] <= MaxPlayersPerTeam
      BY <2>11 DEF Bounded
    <3> DEFINE d == S[l].instanceId
               before == Guests(s.groups, d, t)
               coming == Cardinality(Coming(d, t))
    <3>1. d = s.slots[l].instanceId /\ (d = i => l = k)
      BY <2>2, <2>9, <2>11 DEF Filled, SameSlots, Single, i, info
    <3>2. /\ Cardinality(before) + coming <= s.slots[l].invited[t]
          /\ s.slots[l].invited[t] <= MaxPlayersPerTeam
      BY <2>2, <3>1 DEF Filled, Bounded
    <3>3. IsFiniteSet(before) /\ Cardinality(before) \in Nat /\ coming \in Nat
      BY <2>2, GuestsFinite, FS_CardinalityType
    <3>4. s.slots[l].invited[t] \in Nat
      <4>1. s.slots[l] \in Infos
        BY <2>2
      <4>2. s.slots[l].invited[t] \in 0..MaxCount
        BY <4>1 DEF Infos, Counts
      <4>. QED
        BY <4>2, BgBoundsAssumption
    <3>5. ASSUME NEW x \in Guests(G, d, t)
          PROVE  x \in before \/ (x = G2 /\ d = i /\ t = team)
      <4>1. PICK m \in 1..Len(groups) : x = G[m]
        BY <2>10 DEF Guests, ToSet
      <4>2. x.invitedTo = d /\ Team(x.player) = t
        BY DEF Guests
      <4>3. CASE m = j
        BY <2>3, <2>7, <2>10, <4>1, <4>2, <4>3
      <4>4. CASE m # j
        <5>1. x = s.groups[m] /\ m \in DOMAIN s.groups
          BY <2>2, <2>10, <4>1, <4>4
        <5>. QED
          BY <4>2, <5>1 DEF Guests, ToSet
      <4>. QED
        BY <4>3, <4>4
    <3> HIDE DEF d, before, coming
    <3>6. CASE d = i /\ t = team
      <4>1. S[l].invited[t] = s.slots[l].invited[t] + 1 /\ l = k
        BY <2>9, <2>11, <2>4, <3>1, <3>6 DEF C2, count, info, Counts
      <4>2. Cardinality(Guests(G, d, t)) \in Nat /\ Cardinality(Guests(G, d, t)) <= Cardinality(before) + 1
        <5>1. Guests(G, d, t) \subseteq before \union {G2}
          BY <3>5
        <5>. QED
          BY <3>3, <5>1, OneMore
      <4>3. S[l].invited[t] <= MaxPlayersPerTeam
        BY <2>6, <3>6, <4>1 DEF count, info
      <4>4. Cardinality(Guests(G, d, t)) + coming <= S[l].invited[t]
        <5> DEFINE a == Cardinality(Guests(G, d, t))
                   b == Cardinality(before)
                   v == s.slots[l].invited[t]
        <5>1. b + coming <= v /\ a \in Nat /\ b \in Nat /\ coming \in Nat /\ v \in Nat /\ a <= b + 1
          BY <3>2, <3>3, <3>4, <4>2
        <5> HIDE DEF a, b, v
        <5>2. a + coming <= v + 1
          BY <5>1
        <5>. QED
          BY <4>1, <5>2 DEF a, v
      <4>. QED
        BY <4>3, <4>4 DEF d, coming
    <3>7. CASE ~(d = i /\ t = team)
      <4>1. S[l].invited[t] = s.slots[l].invited[t]
        BY <2>9, <2>11, <2>4, <3>1, <3>7 DEF C2, info, Counts, i
      <4>2. Guests(G, d, t) \subseteq before
        BY <3>5, <3>7
      <4>3. Cardinality(Guests(G, d, t)) \in Nat /\ Cardinality(Guests(G, d, t)) <= Cardinality(before)
        BY <3>3, <4>2, FS_Subset, FS_CardinalityType
      <4>. QED
        BY <3>2, <3>3, <3>4, <4>1, <4>3 DEF d, coming
    <3>. QED
      BY <3>6, <3>7
  <2>16. after \in Filling /\ after.groups = G /\ after.slots = S /\ after.sent = s.sent \o new
    BY <2>1, <2>10, <2>11, <2>13 DEF Filling
  <2>17. Filled(after, groups, slots, max, D)
    <3> HIDE DEF after, new
    <3>. QED
      BY <2>12, <2>13, <2>14, <2>16 DEF Filled
  <2>. QED
    BY <2>17
<1>. QED
  BY <1>1, <1>2

\* What the groups of one team leave of it: an invitation less is the least counterexample.
LEMMA InviteGroupsFact ==
  ASSUME NEW s, NEW groups \in Seq(Groups), NEW slots \in Seq(Infos), NEW max \in Nat, NEW D,
         Filled(s, groups, slots, max, D), Single(slots, D), \A i, t : IsFiniteSet(Coming(i, t)),
         NEW k \in 1..Len(slots), NEW team \in Teams, NEW limit \in 0..MaxPlayersPerTeam
  PROVE  Filled(InviteGroups(s, k, team, limit), groups, slots, max, D)
<1> DEFINE n == Len(groups)
           Invited(f, m) == f = [j \in 0..m |-> IF j = 0 THEN s ELSE InviteGroupToBg(f[j - 1], j, k, team, limit)]
           Fine(a) == Filled(a, groups, slots, max, D)
<1>1. n \in Nat /\ Len(s.groups) = n
  BY DEF Filled, SameGroups
<1>2. \E f : Invited(f, n)
  <2> DEFINE bad == {m \in 0..n : ~\E f : Invited(f, m)}
  <2> SUFFICES ASSUME bad # {} PROVE FALSE
    BY <1>1
  <2>1. bad \in SUBSET Nat
    BY <1>1
  <2>2. PICK m \in bad : \A j \in bad : m <= j
    <3> HIDE DEF bad
    <3>. QED
      BY <2>1, Least
  <2>3. m \in 0..n /\ m \in Nat /\ ~\E f : Invited(f, m)
    BY <1>1, <2>2
  <2>4. CASE m = 0
    <3>1. Invited([j \in 0..m |-> s], m)
      BY <2>4
    <3>. QED
      BY <2>3, <3>1
  <2>5. CASE m # 0
    <3>1. m - 1 \in 0..n /\ ~(m <= m - 1)
      BY <1>1, <2>3, <2>5
    <3>2. PICK f : Invited(f, m - 1)
      BY <2>2, <3>1
    <3> DEFINE e(j) == IF j = 0 THEN s ELSE InviteGroupToBg(f[j - 1], j, k, team, limit)
               h == [j \in 0..m |-> e(j)]
    <3>3. \A j \in 0..(m - 1) : f[j] = e(j)
      BY <3>2
    <3>4. \A j \in 0..m : j # 0 => j - 1 \in 0..(m - 1) /\ j - 1 \in 0..m
      BY <2>3
    <3>5. \A j \in 0..m : j # 0 => h[j - 1] = f[j - 1]
      <4> HIDE DEF e
      <4>. QED
        BY <3>3, <3>4
    <3>6. h = [j \in 0..m |-> IF j = 0 THEN s ELSE InviteGroupToBg(h[j - 1], j, k, team, limit)]
      BY <3>5
    <3>. QED
      BY <2>3, <3>6
  <2>. QED
    BY <2>4, <2>5
<1> DEFINE f == CHOOSE f : Invited(f, n)
<1>3. Invited(f, n)
  BY <1>2
<1>4. InviteGroups(s, k, team, limit) = f[n]
  BY <1>1 DEF InviteGroups
<1> HIDE DEF f
<1>5. \A j \in 0..n : f[j] = IF j = 0 THEN s ELSE InviteGroupToBg(f[j - 1], j, k, team, limit)
  BY <1>3
<1>6. ASSUME NEW a, NEW j \in 1..n, Filled(a, groups, slots, max, D)
      PROVE  Filled(InviteGroupToBg(a, j, k, team, limit), groups, slots, max, D)
  <2> HIDE DEF n, f, Invited, Fine
  <2>1. j \in 1..Len(groups)
    BY DEF n
  <2>. QED
    BY <1>6, <2>1, InviteStep
<1>7. \A j \in 0..n : Fine(f[j])
  <2> DEFINE bad == {m \in 0..n : ~Fine(f[m])}
  <2> SUFFICES ASSUME bad # {} PROVE FALSE
    OBVIOUS
  <2>1. bad \in SUBSET Nat
    BY <1>1
  <2>2. PICK m \in bad : \A j \in bad : m <= j
    <3> HIDE DEF bad
    <3>. QED
      BY <2>1, Least
  <2>3. m \in 0..n /\ ~Fine(f[m])
    BY <2>2
  <2>4. m # 0
    BY <1>1, <1>5, <2>3
  <2>5. m \in 1..n /\ m - 1 \in 0..n /\ ~(m <= m - 1)
    BY <1>1, <2>3, <2>4
  <2>6. Fine(f[m - 1])
    BY <2>2, <2>5
  <2>7. Filled(f[m], groups, slots, max, D)
    <3>1. f[m] = InviteGroupToBg(f[m - 1], m, k, team, limit)
      BY <1>5, <2>3, <2>4
    <3>. QED
      BY <2>5, <2>6, <3>1, <1>6
  <2>. QED
    BY <2>3, <2>6, <2>7
<1>. QED
  BY <1>1, <1>4, <1>7

\* What the groups of both teams leave of it.
LEMMA FillFact ==
  ASSUME NEW s, NEW groups \in Seq(Groups), NEW slots \in Seq(Infos), NEW max \in Nat, NEW D,
         Filled(s, groups, slots, max, D), Single(slots, D), \A i, t : IsFiniteSet(Coming(i, t)),
         NEW k \in 1..Len(slots)
  PROVE  Filled(FillPlayersToBg(s, k), groups, slots, max, D)
<1> DEFINE limit == IF s.slots[k].status \in {"wait_join", "in_progress"} THEN MaxPlayersPerTeam ELSE 0
           a == InviteGroups(s, k, "ALLIANCE", limit)
<1>1. limit \in 0..MaxPlayersPerTeam /\ "ALLIANCE" \in Teams /\ "HORDE" \in Teams
  BY BgBoundsAssumption DEF Teams
<1>2. FillPlayersToBg(s, k) = InviteGroups(a, k, "HORDE", limit)
  BY DEF FillPlayersToBg
<1> HIDE DEF limit
<1>3. Filled(a, groups, slots, max, D)
  BY <1>1, InviteGroupsFact
<1> HIDE DEF a
<1>. QED
  BY <1>1, <1>2, <1>3, InviteGroupsFact

\* What the open battlegrounds leave of it.
LEMMA FillAllFact ==
  ASSUME NEW s, NEW groups \in Seq(Groups), NEW slots \in Seq(Infos), NEW max \in Nat, NEW D,
         Filled(s, groups, slots, max, D), Single(slots, D), \A i, t : IsFiniteSet(Coming(i, t))
  PROVE  Filled(FillAll(s), groups, slots, max, D)
<1> DEFINE n == Len(slots)
           Fills(f, m) == f = [k \in 0..m |-> IF k = 0 THEN s ELSE FillPlayersToBg(f[k - 1], k)]
           Fine(a) == Filled(a, groups, slots, max, D)
<1>1. n \in Nat /\ Len(s.slots) = n
  BY DEF Filled, SameSlots
<1>2. \E f : Fills(f, n)
  <2> DEFINE bad == {m \in 0..n : ~\E f : Fills(f, m)}
  <2> SUFFICES ASSUME bad # {} PROVE FALSE
    BY <1>1
  <2>1. bad \in SUBSET Nat
    BY <1>1
  <2>2. PICK m \in bad : \A j \in bad : m <= j
    <3> HIDE DEF bad
    <3>. QED
      BY <2>1, Least
  <2>3. m \in 0..n /\ m \in Nat /\ ~\E f : Fills(f, m)
    BY <1>1, <2>2
  <2>4. CASE m = 0
    <3>1. Fills([j \in 0..m |-> s], m)
      BY <2>4
    <3>. QED
      BY <2>3, <3>1
  <2>5. CASE m # 0
    <3>1. m - 1 \in 0..n /\ ~(m <= m - 1)
      BY <1>1, <2>3, <2>5
    <3>2. PICK f : Fills(f, m - 1)
      BY <2>2, <3>1
    <3> DEFINE e(k) == IF k = 0 THEN s ELSE FillPlayersToBg(f[k - 1], k)
               h == [k \in 0..m |-> e(k)]
    <3>3. \A k \in 0..(m - 1) : f[k] = e(k)
      BY <3>2
    <3>4. \A k \in 0..m : k # 0 => k - 1 \in 0..(m - 1) /\ k - 1 \in 0..m
      BY <2>3
    <3>5. \A k \in 0..m : k # 0 => h[k - 1] = f[k - 1]
      <4> HIDE DEF e
      <4>. QED
        BY <3>3, <3>4
    <3>6. h = [k \in 0..m |-> IF k = 0 THEN s ELSE FillPlayersToBg(h[k - 1], k)]
      BY <3>5
    <3>. QED
      BY <2>3, <3>6
  <2>. QED
    BY <2>4, <2>5
<1> DEFINE f == CHOOSE f : Fills(f, n)
<1>3. Fills(f, n)
  BY <1>2
<1>4. FillAll(s) = f[n]
  BY <1>1 DEF FillAll
<1> HIDE DEF f
<1>5. \A k \in 0..n : f[k] = IF k = 0 THEN s ELSE FillPlayersToBg(f[k - 1], k)
  BY <1>3
<1>6. \A k \in 0..n : Fine(f[k])
  <2> DEFINE bad == {m \in 0..n : ~Fine(f[m])}
  <2> SUFFICES ASSUME bad # {} PROVE FALSE
    OBVIOUS
  <2>1. bad \in SUBSET Nat
    BY <1>1
  <2>2. PICK m \in bad : \A j \in bad : m <= j
    <3> HIDE DEF bad
    <3>. QED
      BY <2>1, Least
  <2>3. m \in 0..n /\ ~Fine(f[m])
    BY <2>2
  <2>4. m # 0
    BY <1>1, <1>5, <2>3
  <2>5. m \in 1..n /\ m - 1 \in 0..n /\ ~(m <= m - 1)
    BY <1>1, <2>3, <2>4
  <2>6. Fine(f[m - 1])
    BY <2>2, <2>5
  <2>7. Fine(f[m])
    <3>1. f[m] = FillPlayersToBg(f[m - 1], m)
      BY <1>5, <2>3, <2>4
    <3>. QED
      BY <2>5, <2>6, <3>1, FillFact
  <2>. QED
    BY <2>3, <2>7
<1>. QED
  BY <1>1, <1>4, <1>6

\* The entry of a new battleground, in front of the others.
LEMMA NewEntry ==
  ASSUME NEW s, NEW groups \in Seq(Groups), NEW slots \in Seq(Infos), NEW max \in Nat, NEW D,
         Filled(s, groups, slots, max, D), Single(slots, D), Ids(groups, slots, max),
         NEW new \in Infos, new.instanceId = max + 1, new.invited = NoneInvited,
         \A t \in Teams : Coming(max + 1, t) = {}
  PROVE  /\ Filled([s EXCEPT !.slots = <<new>> \o s.slots], groups, <<new>> \o slots, max + 1, D \union {max + 1})
         /\ Single(<<new>> \o slots, D \union {max + 1})
<1> DEFINE a == [s EXCEPT !.slots = <<new>> \o s.slots]
           old == <<new>> \o slots
           D2 == D \union {max + 1}
<1>1. s.groups \in Seq(Groups) /\ s.slots \in Seq(Infos) /\ s.sent \in Seq(ForWorld) /\ s \in Filling
      /\ Len(s.slots) = Len(slots) /\ Len(s.groups) = Len(groups)
  BY DEF Filled, Filling, SameSlots, SameGroups
<1>2. /\ a \in Filling /\ a.groups = s.groups /\ a.sent = s.sent /\ a.slots = <<new>> \o s.slots
  <2>1. <<new>> \o s.slots \in Seq(Infos)
    BY <1>1
  <2>. QED
    BY <1>1, <2>1 DEF Filling
<1>3. /\ a.slots \in Seq(Infos) /\ Len(a.slots) = Len(slots) + 1 /\ a.slots[1] = new
      /\ \A k \in 2..(Len(slots) + 1) : a.slots[k] = s.slots[k - 1] /\ k - 1 \in 1..Len(slots)
  <2>1. <<new>> \in Seq(Infos) /\ Len(<<new>>) = 1 /\ <<new>>[1] = new
    OBVIOUS
  <2>2. a.slots = <<new>> \o s.slots
    BY <1>2
  <2> HIDE DEF a
  <2>. QED
    BY <1>1, <2>1, <2>2
<1>4. /\ old \in Seq(Infos) /\ Len(old) = Len(slots) + 1 /\ old[1] = new
      /\ \A k \in 2..(Len(slots) + 1) : old[k] = slots[k - 1] /\ k - 1 \in 1..Len(slots)
  OBVIOUS
<1>5. \A k \in 1..(Len(slots) + 1) : k = 1 \/ k \in 2..(Len(slots) + 1)
  OBVIOUS
<1> HIDE DEF a, old
<1>6. SameGroups(a.groups, groups) /\ Answered(a.sent, a.groups, groups)
  BY <1>2 DEF Filled
<1>7. SameSlots(a.slots, old)
  <2>1. SameSlots(s.slots, slots)
    BY DEF Filled
  <2>. QED
    BY <1>3, <1>4, <1>5, <2>1 DEF SameSlots
<1>8. Ids(a.groups, a.slots, max + 1)
  <2>1. Ids(s.groups, s.slots, max)
    BY DEF Filled
  <2>2. \A x \in 0..max : x \in 0..(max + 1)
    OBVIOUS
  <2>3. \A x \in 1..max : x \in 1..(max + 1)
    OBVIOUS
  <2>4. \A j \in 1..Len(a.groups) : a.groups[j].invitedTo \in 0..(max + 1)
    BY <1>2, <2>1, <2>2 DEF Ids
  <2>5. \A k \in 1..Len(a.slots) : a.slots[k].instanceId \in 1..(max + 1)
    <3>1. max + 1 \in 1..(max + 1)
      OBVIOUS
    <3>. QED
      BY <1>1, <1>3, <1>5, <2>1, <2>3, <3>1 DEF Ids
  <2>. QED
    BY <2>4, <2>5 DEF Ids
<1>9. Bounded(a.slots, a.groups, D2)
  <2> SUFFICES ASSUME NEW k \in 1..Len(a.slots), NEW t \in Teams, a.slots[k].instanceId \in D2
               PROVE  /\ Cardinality(Guests(a.groups, a.slots[k].instanceId, t))
                            + Cardinality(Coming(a.slots[k].instanceId, t)) <= a.slots[k].invited[t]
                      /\ a.slots[k].invited[t] <= MaxPlayersPerTeam
    BY DEF Bounded
  <2>1. CASE k = 1
    <3>1. a.slots[k] = new
      BY <1>3, <2>1
    <3>2. new.invited[t] = 0
      BY DEF NoneInvited
    <3>3. Ids(s.groups, s.slots, max)
      BY DEF Filled
    <3>4. Guests(s.groups, max + 1, t) = {}
      <4> SUFFICES ASSUME NEW g \in ToSet(s.groups) PROVE g.invitedTo # max + 1
        BY DEF Guests
      <4>1. PICK j \in 1..Len(s.groups) : g = s.groups[j]
        BY <1>1 DEF ToSet
      <4>2. g.invitedTo \in 0..max
        BY <3>3, <4>1 DEF Ids
      <4>. QED
        BY <4>2
    <3>5. Coming(max + 1, t) = {}
      OBVIOUS
    <3>6. Cardinality({}) = 0
      BY FS_EmptySet
    <3>7. MaxPlayersPerTeam \in Nat
      BY BgBoundsAssumption
    <3>. QED
      <4>1. a.slots[k].instanceId = max + 1 /\ a.slots[k].invited[t] = 0
        BY <3>1, <3>2
      <4>2. Guests(a.groups, a.slots[k].instanceId, t) = {} /\ Coming(a.slots[k].instanceId, t) = {}
        BY <1>2, <3>4, <3>5, <4>1
      <4>3. Cardinality(Guests(a.groups, a.slots[k].instanceId, t)) = 0
        BY <3>6, <4>2
      <4>4. Cardinality(Coming(a.slots[k].instanceId, t)) = 0
        BY <3>6, <4>2
      <4>. QED
        BY <3>7, <4>1, <4>3, <4>4
  <2>2. CASE k # 1
    <3>1. k \in 2..(Len(slots) + 1)
      BY <1>3, <1>5, <2>2
    <3>2. a.slots[k] = s.slots[k - 1] /\ k - 1 \in 1..Len(s.slots)
      BY <1>1, <1>3, <3>1
    <3>3. s.slots[k - 1].instanceId \in 1..max
      BY <3>2 DEF Filled, Ids
    <3>4. s.slots[k - 1].instanceId \in D
      BY <3>2, <3>3
    <3>. QED
      BY <1>2, <3>2, <3>4 DEF Filled, Bounded
  <2>. QED
    BY <2>1, <2>2
<1>10. Single(old, D2)
  <2>1. \A k \in 1..Len(slots) : slots[k].instanceId \in 1..max
    BY DEF Ids
  <2>2. \A k \in 2..(Len(slots) + 1) : old[k].instanceId \in 1..max /\ old[k].instanceId # max + 1
    BY <1>4, <2>1
  <2> SUFFICES ASSUME NEW k \in 1..Len(old), NEW l \in 1..Len(old),
                      old[k].instanceId = old[l].instanceId, old[k].instanceId \in D2
               PROVE  k = l
    BY DEF Single
  <2>3. CASE k = 1
    BY <1>4, <1>5, <2>2, <2>3
  <2>4. CASE l = 1
    BY <1>4, <1>5, <2>2, <2>4
  <2>5. CASE k # 1 /\ l # 1
    <3>1. /\ old[k] = slots[k - 1] /\ k - 1 \in 1..Len(slots) /\ old[k].instanceId # max + 1
          /\ old[l] = slots[l - 1] /\ l - 1 \in 1..Len(slots)
      BY <1>4, <1>5, <2>2, <2>5
    <3>2. k - 1 = l - 1
      BY <3>1 DEF Single
    <3>. QED
      BY <3>2
  <2>. QED
    BY <2>3, <2>4, <2>5
<1>. QED
  BY <1>2, <1>6, <1>7, <1>8, <1>9, <1>10 DEF Filled, a, old

\* What has become of them when a battleground is added.
Matched(s, groups, slots, max, D) == \E new \in Infos, c \in Counts : \E b :
    /\ new.instanceId = max + 1 /\ new.playersInside = 0
    /\ Filled(b, groups, <<new>> \o slots, max + 1, D \union {max + 1})
    /\ NewMatch(s, max + 1).groups = b.groups /\ NewMatch(s, max + 1).slots = b.slots
    /\ NewMatch(s, max + 1).sent = Append(b.sent, [type |-> "Create", instanceId |-> max + 1, invited |-> c])

\* What a new battleground leaves of it.
LEMMA NewMatchFact ==
  ASSUME NEW s, NEW groups \in Seq(Groups), NEW slots \in Seq(Infos), NEW max \in Nat, NEW D,
         Filled(s, groups, slots, max, D), Single(slots, D), Ids(groups, slots, max),
         \A i, t : IsFiniteSet(Coming(i, t)), \A t \in Teams : Coming(max + 1, t) = {}
  PROVE  Matched(s, groups, slots, max, D)
<1> DEFINE new == [instanceId |-> max + 1, status |-> "wait_queue", invited |-> NoneInvited, playersInside |-> 0]
           start == [s EXCEPT !.slots = <<new>> \o s.slots]
           a == InviteGroups(start, 1, "ALLIANCE", MinPlayersPerTeam)
           b == InviteGroups(a, 1, "HORDE", MinPlayersPerTeam)
           c == b.slots[1].invited
           D2 == D \union {max + 1}
           old == <<new>> \o slots
<1>1. new \in Infos /\ new.instanceId = max + 1 /\ new.invited = NoneInvited /\ new.playersInside = 0
  <2>1. NoneInvited \in Counts
    BY BgBoundsAssumption DEF NoneInvited, Counts
  <2>2. max + 1 \in Nat /\ 0 \in Nat
    OBVIOUS
  <2>3. \A k \in Nat, x \in Counts, n \in Nat :
           [instanceId |-> k, status |-> "wait_queue", invited |-> x, playersInside |-> n] \in Infos
    BY DEF Infos, Statuses
  <2>. QED
    BY <2>1, <2>2, <2>3
<1>2. NewMatch(s, max + 1) = [b EXCEPT !.sent = Append(b.sent, [type |-> "Create", instanceId |-> max + 1, invited |-> c])]
  BY DEF NewMatch
<1> HIDE DEF new
<1>3. Filled(start, groups, old, max + 1, D2) /\ Single(old, D2)
  BY <1>1, NewEntry
<1>4. old \in Seq(Infos) /\ 1 \in 1..Len(old) /\ max + 1 \in Nat
      /\ MinPlayersPerTeam \in 0..MaxPlayersPerTeam /\ "ALLIANCE" \in Teams /\ "HORDE" \in Teams
  BY <1>1, BgBoundsAssumption DEF Teams
<1> HIDE DEF start, D2, old
<1>5. Filled(a, groups, old, max + 1, D2)
  BY <1>3, <1>4, InviteGroupsFact
<1> HIDE DEF a
<1>6. Filled(b, groups, old, max + 1, D2)
  BY <1>3, <1>4, <1>5, InviteGroupsFact
<1> HIDE DEF b
<1>7. c \in Counts
  <2>1. b.slots \in Seq(Infos) /\ Len(b.slots) = Len(old)
    BY <1>6 DEF Filled, Filling, SameSlots
  <2>2. b.slots[1] \in Infos
    BY <1>4, <2>1
  <2>. QED
    BY <2>2 DEF Infos
<1>8. /\ NewMatch(s, max + 1).groups = b.groups /\ NewMatch(s, max + 1).slots = b.slots
      /\ NewMatch(s, max + 1).sent = Append(b.sent, [type |-> "Create", instanceId |-> max + 1, invited |-> c])
  <2>1. b \in Filling
    BY <1>6 DEF Filled
  <2>. QED
    BY <1>2, <2>1 DEF Filling
<1>. QED
  BY <1>1, <1>6, <1>7, <1>8 DEF D2, old, Matched

\* What an update starts from: nobody is on his way to a battleground that is not made yet.
LEMMA BeforeUpdate ==
  ASSUME BgTypes, Listed
  PROVE  /\ Ids(m_queuedGroups, m_bgFreeSlotQueue, i_MaxInstanceId)
         /\ \A i, t : IsFiniteSet(Coming(i, t))
         /\ \A t \in Teams : Coming(i_MaxInstanceId + 1, t) = {}
<1>1. /\ m_queuedGroups \in Seq(Groups) /\ m_bgFreeSlotQueue \in Seq(Infos) /\ i_MaxInstanceId \in Nat
      /\ bgInstanceID \in [Players -> 0..i_MaxInstanceId]
  BY DEF BgTypes, QueueTypes, WorldTypes
<1>2. Ids(m_queuedGroups, m_bgFreeSlotQueue, i_MaxInstanceId)
  BY DEF Ids, Listed, InQueue, Instances
<1>3. \A i, t : IsFiniteSet(Coming(i, t))
  <2> TAKE i, t
  <2>1. Coming(i, t) \subseteq Players
    BY DEF Coming
  <2>. QED
    BY <2>1, FS_Subset, BgPlayersAssumption
<1>4. \A t \in Teams : Coming(i_MaxInstanceId + 1, t) = {}
  <2>1. \A x \in 0..i_MaxInstanceId : x # i_MaxInstanceId + 1
    BY <1>1
  <2>2. \A p \in Players : bgInstanceID[p] # i_MaxInstanceId + 1
    BY <1>1, <2>1
  <2>3. \A k \in Nat, p \in Players : Enters(k, p) => toWorld[k].instanceId # i_MaxInstanceId + 1
    BY <1>1, <2>1 DEF Listed, OnItsWay, Instances
  <2>. QED
    BY <2>2, <2>3 DEF Coming
<1>. QED
  BY <1>2, <1>3, <1>4

\* What an update of the queue has done.
Updated(D) == \E old \in Seq(Infos), sent \in Seq(ForWorld) :
    /\ m_queuedGroups' \in Seq(Groups) /\ m_bgFreeSlotQueue' \in Seq(Infos)
    /\ SameGroups(m_queuedGroups', m_queuedGroups)
    /\ SameSlots(m_bgFreeSlotQueue', old)
    /\ Ids(m_queuedGroups', m_bgFreeSlotQueue', i_MaxInstanceId')
    /\ Answered(sent, m_queuedGroups', m_queuedGroups)
    /\ \/ /\ old = m_bgFreeSlotQueue /\ i_MaxInstanceId' = i_MaxInstanceId
          /\ toWorld' = toWorld \o sent
          /\ Bounded(m_bgFreeSlotQueue', m_queuedGroups', D)
       \/ /\ i_MaxInstanceId' = i_MaxInstanceId + 1
          /\ \E new \in Infos : /\ new.instanceId = i_MaxInstanceId + 1 /\ new.playersInside = 0
                                /\ old = <<new>> \o m_bgFreeSlotQueue
          /\ \E c \in Counts : toWorld' = toWorld \o
                Append(sent, [type |-> "Create", instanceId |-> i_MaxInstanceId + 1, invited |-> c])
          /\ Bounded(m_bgFreeSlotQueue', m_queuedGroups', D \union {i_MaxInstanceId + 1})

\* An update does what Updated says.
LEMMA UpdateFact ==
  ASSUME BgTypes, Listed, NEW D, Single(m_bgFreeSlotQueue, D), Bounded(m_bgFreeSlotQueue, m_queuedGroups, D), Update
  PROVE  Updated(D)
<1> DEFINE s == [groups |-> m_queuedGroups, slots |-> m_bgFreeSlotQueue, sent |-> <<>>]
           filled == FillAll(s)
           max == i_MaxInstanceId
<1>1. /\ m_queuedGroups \in Seq(Groups) /\ m_bgFreeSlotQueue \in Seq(Infos) /\ max \in Nat
  BY DEF BgTypes, QueueTypes
<1>2. /\ Ids(m_queuedGroups, m_bgFreeSlotQueue, max)
      /\ \A i, t : IsFiniteSet(Coming(i, t))
      /\ \A t \in Teams : Coming(max + 1, t) = {}
  BY BeforeUpdate
<1>3. Filled(s, m_queuedGroups, m_bgFreeSlotQueue, max, D)
  <2>1. s \in Filling /\ s.groups = m_queuedGroups /\ s.slots = m_bgFreeSlotQueue /\ s.sent = <<>>
    BY <1>1 DEF Filling
  <2>2. Answered(<<>>, m_queuedGroups, m_queuedGroups)
    BY DEF Answered, Invites
  <2>3. SameGroups(m_queuedGroups, m_queuedGroups) /\ SameSlots(m_bgFreeSlotQueue, m_bgFreeSlotQueue)
    BY DEF SameGroups, SameSlots
  <2>. QED
    BY <1>2, <2>1, <2>2, <2>3 DEF Filled
<1>4. Filled(filled, m_queuedGroups, m_bgFreeSlotQueue, max, D)
  <2> HIDE DEF s, max
  <2>. QED
    BY <1>1, <1>2, <1>3, FillAllFact
<1>5. Matched(filled, m_queuedGroups, m_bgFreeSlotQueue, max, D)
  <2> HIDE DEF filled, max
  <2>. QED
    BY <1>1, <1>4, <1>2, NewMatchFact
<1>6. CASE ~CheckNormalMatch(filled)
  <2>1. /\ m_queuedGroups' = filled.groups /\ m_bgFreeSlotQueue' = filled.slots
        /\ toWorld' = toWorld \o filled.sent /\ i_MaxInstanceId' = max
    BY <1>6 DEF Update
  <2> HIDE DEF filled
  <2>2. filled.groups \in Seq(Groups) /\ filled.slots \in Seq(Infos) /\ filled.sent \in Seq(ForWorld)
    BY <1>4 DEF Filled, Filling
  <2>. QED
    BY <1>1, <1>4, <2>1, <2>2 DEF Filled, Updated
<1>7. CASE CheckNormalMatch(filled)
  <2> DEFINE done == NewMatch(filled, max + 1)
  <2>1. /\ m_queuedGroups' = done.groups /\ m_bgFreeSlotQueue' = done.slots
        /\ toWorld' = toWorld \o done.sent /\ i_MaxInstanceId' = max + 1
    BY <1>7 DEF Update, GenerateInstanceId
  <2> HIDE DEF filled
  <2>2. PICK new \in Infos, c \in Counts : \E b :
            /\ new.instanceId = max + 1 /\ new.playersInside = 0
            /\ Filled(b, m_queuedGroups, <<new>> \o m_bgFreeSlotQueue, max + 1, D \union {max + 1})
            /\ done.groups = b.groups /\ done.slots = b.slots
            /\ done.sent = Append(b.sent, [type |-> "Create", instanceId |-> max + 1, invited |-> c])
    BY <1>5 DEF Matched
  <2> HIDE DEF done
  <2>3. PICK b :
            /\ new.instanceId = max + 1 /\ new.playersInside = 0
            /\ Filled(b, m_queuedGroups, <<new>> \o m_bgFreeSlotQueue, max + 1, D \union {max + 1})
            /\ done.groups = b.groups /\ done.slots = b.slots
            /\ done.sent = Append(b.sent, [type |-> "Create", instanceId |-> max + 1, invited |-> c])
    BY <2>2
  <2>4. b \in Filling /\ b.groups \in Seq(Groups) /\ b.slots \in Seq(Infos) /\ b.sent \in Seq(ForWorld)
    BY <2>3 DEF Filled, Filling
  <2> DEFINE old == <<new>> \o m_bgFreeSlotQueue
  <2>6. old \in Seq(Infos)
    BY <1>1
  <2>7. /\ SameGroups(b.groups, m_queuedGroups) /\ SameSlots(b.slots, old) /\ Ids(b.groups, b.slots, max + 1)
        /\ Answered(b.sent, b.groups, m_queuedGroups) /\ Bounded(b.slots, b.groups, D \union {max + 1})
    BY <2>3 DEF Filled
  <2>8. /\ \E n \in Infos : n.instanceId = max + 1 /\ n.playersInside = 0 /\ old = <<n>> \o m_bgFreeSlotQueue
        /\ \E x \in Counts : toWorld' = toWorld \o Append(b.sent, [type |-> "Create", instanceId |-> max + 1, invited |-> x])
    BY <2>1, <2>3
  <2> HIDE DEF old
  <2>. QED
    BY <2>1, <2>3, <2>4, <2>6, <2>7, <2>8 DEF Updated
<1>. QED
  BY <1>6, <1>7

\* The head and the tail of a sequence.
LEMMA Popped ==
  ASSUME NEW S, NEW s \in Seq(S), s # <<>>
  PROVE  /\ Head(s) \in S /\ Head(s) = s[1] /\ 1 \in 1..Len(s)
         /\ Tail(s) \in Seq(S) /\ Len(Tail(s)) = Len(s) - 1
         /\ \A k \in 1..(Len(s) - 1) : Tail(s)[k] = s[k + 1]
OBVIOUS

\* A sequence behind another.
LEMMA Joined ==
  ASSUME NEW S, NEW s \in Seq(S), NEW t \in Seq(S), NEW u, u = s \o t
  PROVE  /\ u \in Seq(S) /\ Len(u) = Len(s) + Len(t)
         /\ \A k \in 1..Len(s) : u[k] = s[k]
         /\ \A k \in 1..Len(t) : u[Len(s) + k] = t[k]
         /\ \A k \in 1..Len(u) : \/ k \in 1..Len(s) /\ u[k] = s[k]
                                 \/ k - Len(s) \in 1..Len(t) /\ u[k] = t[k - Len(s)]
<1>1. u \in Seq(S) /\ Len(u) = Len(s) + Len(t) /\ Len(s) \in Nat /\ Len(t) \in Nat
  OBVIOUS
<1>2. \A k \in 1..Len(s) : u[k] = s[k]
  OBVIOUS
<1>3. \A k \in 1..Len(t) : u[Len(s) + k] = t[k]
  OBVIOUS
<1>4. \A k \in 1..Len(u) : k <= Len(s) => k \in 1..Len(s) /\ u[k] = s[k]
  BY <1>1
<1>5. \A k \in 1..Len(u) : ~(k <= Len(s)) => k - Len(s) \in 1..Len(t) /\ u[k] = t[k - Len(s)]
  BY <1>1
<1>. QED
  BY <1>1, <1>2, <1>3, <1>4, <1>5, Zenon

\* What the messages to the queue hold.
LEMMA QueueKinds ==
  ASSUME NEW m \in ForQueue
  PROVE  /\ m.type \in {"AddGroup", "Port", "LoggedOut", "Expired"} => m.player \in Players
         /\ m.type = "AddGroup" => m.number \in Nat
         /\ m.type = "Port" => m.enter \in BOOLEAN
         /\ m.type = "Expired" => m.instanceId \in Nat /\ m.removeInviteTime \in Nat /\ m.running \in BOOLEAN
         /\ m.type \in {"SetStatus", "RemoveBgFromFreeSlots", "DecreaseInvitedCount"} => m.instanceId \in Nat
         /\ m.type = "SetStatus" => m.status \in Statuses
         /\ m.type = "AddBgToFreeSlots" => m.info \in Infos
         /\ m.type = "DecreaseInvitedCount" => m.team \in Teams
BY DEF ForQueue

\* What the messages to the world hold.
LEMMA WorldKinds ==
  ASSUME NEW m \in ForWorld
  PROVE  /\ m.type \in {"Queued", "Left", "Enter", "Invite", "Timeout"} => m.player \in Players
         /\ m.type \in {"Enter", "Invite", "Timeout", "SetInvitedCount", "Create"} => m.instanceId \in Nat
         /\ m.type \in {"Invite", "Timeout"} => m.removeInviteTime \in Nat
         /\ m.type = "SetInvitedCount" => m.team \in Teams /\ m.count \in 0..MaxCount
         /\ m.type = "Create" => m.invited \in Counts
BY DEF ForWorld

\* Which records are messages to the queue.
LEMMA QueueMembers ==
  /\ \A p \in Players : [type |-> "LoggedOut", player |-> p] \in ForQueue
  /\ \A p \in Players, n \in Nat : [type |-> "AddGroup", player |-> p, number |-> n] \in ForQueue
  /\ \A p \in Players, b \in BOOLEAN : [type |-> "Port", player |-> p, enter |-> b] \in ForQueue
  /\ \A p \in Players, i, n \in Nat, b \in BOOLEAN :
        [type |-> "Expired", player |-> p, instanceId |-> i, removeInviteTime |-> n, running |-> b] \in ForQueue
  /\ \A i \in Nat, s \in Statuses : StatusMessage(i, s) \in ForQueue
  /\ \A info \in Infos : [type |-> "AddBgToFreeSlots", info |-> info] \in ForQueue
  /\ \A i \in Nat : [type |-> "RemoveBgFromFreeSlots", instanceId |-> i] \in ForQueue
  /\ \A i \in Nat, t \in Teams : [type |-> "DecreaseInvitedCount", instanceId |-> i, team |-> t] \in ForQueue
  /\ [type |-> "ScheduleQueueUpdate"] \in ForQueue
BY DEF ForQueue, StatusMessage

\* Which records are messages to the world.
LEMMA WorldMembers ==
  /\ \A p \in Players : /\ [type |-> "Queued", player |-> p] \in ForWorld
                        /\ [type |-> "Left", player |-> p] \in ForWorld
  /\ \A p \in Players, i \in Nat : [type |-> "Enter", player |-> p, instanceId |-> i] \in ForWorld
  /\ \A p \in Players, i, n \in Nat :
        [type |-> "Timeout", player |-> p, instanceId |-> i, removeInviteTime |-> n] \in ForWorld
  /\ \A i \in Nat, t \in Teams, c \in 0..MaxCount : Count(i, t, c) \in ForWorld
  /\ \A i \in Nat, c \in Counts : [type |-> "Create", instanceId |-> i, invited |-> c] \in ForWorld
BY DEF ForWorld, Count

\* A count that is lowered is a count: below zero it wraps.
LEMMA MinusFact ==
  ASSUME NEW c \in 0..MaxCount
  PROVE  /\ Minus(c) \in 0..MaxCount
         /\ c # 0 => Minus(c) = c - 1
BY BgBoundsAssumption DEF Minus

\* Every player has a team.
LEMMA TeamFact == \A p : Team(p) \in Teams
BY DEF Team, Teams

\* The first entry of an instance is found when there is one.
LEMMA FirstEntry ==
  ASSUME NEW slots \in Seq(Infos), NEW i, Entries(slots, i) # {}
  PROVE  /\ GetFreeSlotInstance(slots, i) \in 1..Len(slots)
         /\ slots[GetFreeSlotInstance(slots, i)].instanceId = i
<1>1. DOMAIN slots = 1..Len(slots) /\ Len(slots) \in Nat
  OBVIOUS
<1>2. Entries(slots, i) \in SUBSET Nat
  BY <1>1 DEF Entries
<1>3. \E k \in Entries(slots, i) : \A l \in Entries(slots, i) : k <= l
  BY <1>2, Least
<1>4. GetFreeSlotInstance(slots, i) \in Entries(slots, i)
  BY <1>3 DEF GetFreeSlotInstance
<1>. QED
  BY <1>1, <1>4 DEF Entries

\* The entries of a battleground are numbers of the list.
LEMMA EntriesFact ==
  ASSUME NEW slots \in Seq(Infos)
  PROVE  \A i : Entries(slots, i) = {k \in 1..Len(slots) : slots[k].instanceId = i}
BY DEF Entries

\* S is the list with one count set to c: that of team t in the k-th entry.
Counted(slots, k, t, c, S) == \A l \in 1..Len(slots), u \in Teams :
                                 S[l].invited[u] = IF l = k /\ u = t THEN c ELSE slots[l].invited[u]

\* Setting a count leaves a list of entries, and all else in it as it was.
LEMMA CountChanged ==
  ASSUME NEW slots \in Seq(Infos), NEW k \in 1..Len(slots), NEW t \in Teams, NEW c \in 0..MaxCount
  PROVE  \A S : S = [slots EXCEPT ![k].invited[t] = c] =>
            S \in Seq(Infos) /\ SameSlots(S, slots) /\ Counted(slots, k, t, c, S)
<1> DEFINE info == slots[k]
           C2 == [info.invited EXCEPT ![t] = c]
           I2 == [info EXCEPT !.invited = C2]
           T == [slots EXCEPT ![k].invited[t] = c]
<1>1. info \in Infos
  OBVIOUS
<1>2. info \in Infos /\ info.invited \in Counts
  BY <1>1 DEF Infos
<1> HIDE DEF info
<1>3. C2 \in Counts
  BY <1>2 DEF Counts
<1>4. I2 \in Infos /\ I2.instanceId = info.instanceId /\ I2.playersInside = info.playersInside /\ I2.invited = C2
  <2> HIDE DEF C2
  <2>. QED
    BY <1>2, <1>3 DEF Infos
<1>5. \A u \in Teams : C2[u] = IF u = t THEN c ELSE info.invited[u]
  BY <1>2 DEF Counts
<1>6. T = [slots EXCEPT ![k] = I2]
  BY DEF info
<1> HIDE DEF C2, I2, T
<1>7. T \in Seq(Infos) /\ Len(T) = Len(slots) /\ \A l \in 1..Len(slots) : T[l] = IF l = k THEN I2 ELSE slots[l]
  BY <1>4, <1>6
<1>8. SameSlots(T, slots)
  BY <1>4, <1>7 DEF SameSlots, info
<1>9. Counted(slots, k, t, c, T)
  BY <1>4, <1>7, <1>5 DEF Counted, info
<1>. QED
  BY <1>7, <1>8, <1>9 DEF T

\* The entries of the same battlegrounds are found under the same numbers.
LEMMA SameEntries ==
  ASSUME NEW slots \in Seq(Infos), NEW old \in Seq(Infos), SameSlots(slots, old)
  PROVE  \A i : Entries(slots, i) = Entries(old, i)
<1>1. \A i : /\ Entries(slots, i) = {k \in 1..Len(slots) : slots[k].instanceId = i}
             /\ Entries(old, i) = {k \in 1..Len(old) : old[k].instanceId = i}
  BY EntriesFact
<1>2. Len(slots) = Len(old) /\ \A k \in 1..Len(old) : slots[k].instanceId = old[k].instanceId
  BY DEF SameSlots
<1> TAKE i
<1>3. \A k \in 1..Len(old) : (slots[k].instanceId = i) <=> (old[k].instanceId = i)
  BY <1>2
<1>. QED
  BY <1>1, <1>2, <1>3

\* An entry in front of the others.
LEMMA EntryAdded ==
  ASSUME NEW slots \in Seq(Infos), NEW new \in Infos
  PROVE  /\ <<new>> \o slots \in Seq(Infos) /\ Len(<<new>> \o slots) = Len(slots) + 1
         /\ (<<new>> \o slots)[1] = new
         /\ \A k \in 2..(Len(slots) + 1) : (<<new>> \o slots)[k] = slots[k - 1]
         /\ Entries(<<new>> \o slots, new.instanceId) # {}
         /\ \A i : /\ Entries(slots, i) # {} => Entries(<<new>> \o slots, i) # {}
                   /\ Entries(slots, i) # {} /\ i = new.instanceId =>
                         \E k, l \in Entries(<<new>> \o slots, i) : k # l
                   /\ (\E k, l \in Entries(slots, i) : k # l) =>
                         \E k, l \in Entries(<<new>> \o slots, i) : k # l
<1> DEFINE S == <<new>> \o slots
<1>1. /\ S \in Seq(Infos) /\ Len(S) = Len(slots) + 1 /\ S[1] = new /\ Len(slots) \in Nat
      /\ \A k \in 2..(Len(slots) + 1) : S[k] = slots[k - 1]
  OBVIOUS
<1> HIDE DEF S
<1>2. \A i : /\ Entries(S, i) = {k \in 1..Len(S) : S[k].instanceId = i}
             /\ Entries(slots, i) = {k \in 1..Len(slots) : slots[k].instanceId = i}
  BY <1>1, EntriesFact
<1>3. \A k \in 1..Len(slots) : k + 1 \in 2..(Len(slots) + 1) /\ k + 1 \in 1..Len(S) /\ S[k + 1] = slots[k] /\ k + 1 # 1
  <2> TAKE k \in 1..Len(slots)
  <2>1. k + 1 \in 2..(Len(slots) + 1) /\ k + 1 \in 1..Len(S) /\ k + 1 # 1 /\ (k + 1) - 1 = k
    BY <1>1
  <2>2. S[k + 1] = slots[(k + 1) - 1]
    BY <1>1, <2>1
  <2>. QED
    BY <2>1, <2>2
<1>4. \A i : \A k \in Entries(slots, i) : k + 1 \in Entries(S, i) /\ k + 1 # 1 /\ k \in Nat
  BY <1>2, <1>3
<1>5. 1 \in Entries(S, new.instanceId)
  BY <1>1, <1>2
<1>6. ASSUME NEW i
      PROVE  /\ Entries(slots, i) # {} => Entries(S, i) # {}
             /\ Entries(slots, i) # {} /\ i = new.instanceId => \E k, l \in Entries(S, i) : k # l
             /\ (\E k, l \in Entries(slots, i) : k # l) => \E k, l \in Entries(S, i) : k # l
  <2>1. Entries(slots, i) # {} => Entries(S, i) # {}
    BY <1>4
  <2>2. Entries(slots, i) # {} /\ i = new.instanceId => \E k, l \in Entries(S, i) : k # l
    BY <1>4, <1>5
  <2>3. ASSUME NEW k \in Entries(slots, i), NEW l \in Entries(slots, i), k # l
        PROVE  \E x, y \in Entries(S, i) : x # y
    <3>1. k + 1 \in Entries(S, i) /\ l + 1 \in Entries(S, i) /\ k + 1 # l + 1
      BY <1>4, <2>3
    <3>. QED
      BY <3>1
  <2>. QED
    BY <2>1, <2>2, <2>3
<1>. QED
  BY <1>1, <1>5, <1>6 DEF S

\* Without the first entry of an instance: the other instances keep theirs, and one that had two keeps one.
LEMMA EntryRemoved ==
  ASSUME NEW slots \in Seq(Infos), NEW i, Entries(slots, i) # {},
         NEW S, S = RemoveAt(slots, GetFreeSlotInstance(slots, i))
  PROVE  /\ S \in Seq(Infos)
         /\ \A k \in 1..Len(S) : \E l \in 1..Len(slots) : S[k] = slots[l]
         /\ \A d : d # i /\ Entries(slots, d) # {} => Entries(S, d) # {}
         /\ \A d : d # i /\ (\E k, l \in Entries(slots, d) : k # l) => \E k, l \in Entries(S, d) : k # l
         /\ (\E k, l \in Entries(slots, i) : k # l) => Entries(S, i) # {}
<1> DEFINE at == GetFreeSlotInstance(slots, i)
           n == Len(slots)
           move(k) == IF k < at THEN k ELSE k - 1
<1>1. at \in 1..n /\ slots[at].instanceId = i /\ n \in Nat
  BY FirstEntry
<1> HIDE DEF at
<1>2. /\ S \in Seq(Infos) /\ Len(S) = n - 1
      /\ \A k \in 1..(n - 1) : S[k] = IF k < at THEN slots[k] ELSE slots[k + 1]
  BY <1>1, RemoveAtFact DEF at
<1>3. ASSUME NEW k \in 1..n, k # at
      PROVE  move(k) \in 1..Len(S) /\ S[move(k)] = slots[k]
  <2>1. CASE k < at
    BY <1>1, <1>2, <2>1
  <2>2. CASE ~(k < at)
    <3>1. k - 1 \in 1..(n - 1) /\ ~(k - 1 < at) /\ (k - 1) + 1 = k
      BY <1>1, <1>3, <2>2
    <3>. QED
      BY <1>2, <2>2, <3>1
  <2>. QED
    BY <2>1, <2>2
<1>4. ASSUME NEW k \in 1..n, NEW l \in 1..n, k # at, l # at, k # l
      PROVE  move(k) # move(l)
  BY <1>1, <1>4
<1>5. \A d : /\ Entries(S, d) = {k \in 1..Len(S) : S[k].instanceId = d}
             /\ Entries(slots, d) = {k \in 1..n : slots[k].instanceId = d}
  BY <1>2, EntriesFact
<1> HIDE DEF n, move
<1>6. ASSUME NEW d, NEW k \in Entries(slots, d), k # at
      PROVE  move(k) \in Entries(S, d) /\ k \in 1..n
  BY <1>3, <1>5, <1>6
<1>7. \A d : d # i => at \notin Entries(slots, d)
  BY <1>1, <1>5
<1>8. \A k \in 1..Len(S) : \E l \in 1..n : S[k] = slots[l]
  <2> SUFFICES ASSUME NEW k \in 1..Len(S) PROVE \E l \in 1..n : S[k] = slots[l]
    OBVIOUS
  <2>1. k \in 1..n /\ k + 1 \in 1..n /\ k \in 1..(n - 1)
    BY <1>1, <1>2
  <2>. QED
    BY <1>2, <2>1
<1>9. ASSUME NEW d, d # i, NEW k \in Entries(slots, d), NEW l \in Entries(slots, d), k # l
      PROVE  \E x, y \in Entries(S, d) : x # y
  <2>1. k # at /\ l # at
    BY <1>7, <1>9
  <2>2. move(k) \in Entries(S, d) /\ move(l) \in Entries(S, d) /\ k \in 1..n /\ l \in 1..n
    BY <1>6, <2>1
  <2>3. move(k) # move(l)
    BY <1>4, <1>9, <2>1, <2>2
  <2>. QED
    BY <2>2, <2>3
<1>10. ASSUME NEW k \in Entries(slots, i), NEW l \in Entries(slots, i), k # l
       PROVE  Entries(S, i) # {}
  <2>1. k # at \/ l # at
    BY <1>10
  <2>. QED
    BY <1>6, <2>1
<1>. QED
  BY <1>2, <1>6, <1>7, <1>8, <1>9, <1>10 DEF n

\* What is left after a message was executed.
LEMMA WorldPopped ==
  ASSUME BgTypes, toWorld # <<>>, toWorld' = Tail(toWorld)
  PROVE  /\ toWorld' \in Seq(ForWorld) /\ Head(toWorld) \in ForWorld /\ Head(toWorld) = toWorld[1]
         /\ 1 \in 1..Len(toWorld)
         /\ \A k \in 1..Len(toWorld') : toWorld'[k] = toWorld[k + 1] /\ k + 1 \in 1..Len(toWorld) /\ k + 1 # 1
<1>1. toWorld \in Seq(ForWorld)
  BY DEF BgTypes, MessageTypes
<1>. QED
  BY <1>1, Popped

\* The same of the messages to the queue.
LEMMA QueuePopped ==
  ASSUME BgTypes, toQueue # <<>>, toQueue' = Tail(toQueue)
  PROVE  /\ toQueue' \in Seq(ForQueue) /\ Head(toQueue) \in ForQueue /\ Head(toQueue) = toQueue[1]
         /\ 1 \in 1..Len(toQueue) /\ Len(toQueue') = Len(toQueue) - 1 /\ Len(toQueue) \in Nat
         /\ \A k \in 1..Len(toQueue') : toQueue'[k] = toQueue[k + 1] /\ k + 1 \in 1..Len(toQueue) /\ k + 1 # 1
<1>1. toQueue \in Seq(ForQueue)
  BY DEF BgTypes, MessageTypes
<1>. QED
  BY <1>1, Popped

\* What is on its way when the world has executed a message.
LEMMA OnItsWayPopped ==
  ASSUME BgTypes, OnItsWay, toWorld # <<>>, toWorld' = Tail(toWorld), i_MaxInstanceId' = i_MaxInstanceId,
         \A i \in Created' : i \in Created \/ (Sent.type = "Create" /\ i = Sent.instanceId)
  PROVE  OnItsWay'
<1>1. /\ Head(toWorld) = toWorld[1] /\ 1 \in 1..Len(toWorld)
      /\ \A k \in 1..Len(toWorld') : toWorld'[k] = toWorld[k + 1] /\ k + 1 \in 1..Len(toWorld) /\ k + 1 # 1
  BY WorldPopped
<1>2. Instances' = Instances
  BY DEF Instances
<1>3. ASSUME NEW k \in Nat, NEW i \in Nat, Creates(k, i)'
      PROVE  Creates(k + 1, i) /\ k + 1 \in Nat /\ k + 1 # 1
  BY <1>1, <1>3 DEF Creates, Tells
<1>4. ASSUME NEW k \in Nat, NEW p \in Players, Enters(k, p)'
      PROVE  Enters(k + 1, p) /\ k + 1 \in Nat /\ toWorld'[k] = toWorld[k + 1]
  BY <1>1, <1>4 DEF Enters, Tells
<1>5. ASSUME NEW k \in Nat, NEW i \in Nat, Creates(k, i)'
      PROVE  i \in Instances \ Created' /\ \A l \in Nat : Creates(l, i)' => k = l
  <2>1. Creates(k + 1, i) /\ k + 1 \in Nat /\ k + 1 # 1
    BY <1>3, <1>5
  <2>2. i \in Instances \ Created /\ \A l \in Nat : Creates(l, i) => k + 1 = l
    BY <2>1 DEF OnItsWay
  <2>3. ~(Sent.type = "Create" /\ i = Sent.instanceId)
    <3>1. ~Creates(1, i)
      BY <2>1, <2>2
    <3>. QED
      BY <1>1, <3>1 DEF Creates, Tells, Sent
  <2>4. \A l \in Nat : Creates(l, i)' => k = l
    <3> TAKE l \in Nat
    <3> HAVE Creates(l, i)'
    <3>1. Creates(l + 1, i) /\ l + 1 \in Nat
      BY <1>3
    <3>2. k + 1 = l + 1
      BY <2>2, <3>1
    <3>. QED
      BY <3>2
  <2>. QED
    BY <2>2, <2>3, <2>4
<1>6. ASSUME NEW k \in Nat, NEW p \in Players, Enters(k, p)'
      PROVE  toWorld'[k].instanceId \in Instances
  BY <1>4, <1>6 DEF OnItsWay
<1>. QED
  BY <1>2, <1>5, <1>6 DEF OnItsWay

\* What is on its way when the queue has sent messages.
LEMMA OnItsWaySent ==
  ASSUME BgTypes, OnItsWay, NEW messages \in Seq(ForWorld), toWorld' = toWorld \o messages,
         Created' = Created, i_MaxInstanceId' \in {i_MaxInstanceId, i_MaxInstanceId + 1},
         \A m \in 1..Len(messages) :
            /\ messages[m].type = "Enter" => messages[m].instanceId \in Instances
            /\ messages[m].type = "Create" => /\ m = Len(messages) /\ messages[m].instanceId = i_MaxInstanceId + 1
                                              /\ i_MaxInstanceId' = i_MaxInstanceId + 1
  PROVE  OnItsWay'
<1> DEFINE n == Len(toWorld)
           max == i_MaxInstanceId
<1>1. /\ n \in Nat /\ Len(messages) \in Nat /\ max \in Nat /\ Created \subseteq 1..max
      /\ \A k \in 1..n : toWorld'[k] = toWorld[k]
      /\ \A k \in 1..Len(toWorld') : \/ k \in 1..n /\ toWorld'[k] = toWorld[k]
                                     \/ k - n \in 1..Len(messages) /\ toWorld'[k] = messages[k - n]
  <2>1. toWorld \in Seq(ForWorld) /\ max \in Nat /\ Created \subseteq 1..max
    BY DEF BgTypes, MessageTypes, QueueTypes, WorldTypes
  <2>2. Len(toWorld) \in Nat /\ Len(messages) \in Nat
    BY <2>1
  <2>. QED
    BY <2>1, <2>2, Joined
<1>2. \A i \in Instances : i \in Instances' /\ i # max + 1
  BY <1>1 DEF Instances
<1> HIDE DEF n
<1>3. ASSUME NEW k \in Nat, NEW i \in Nat, Creates(k, i)'
      PROVE  \/ Creates(k, i)
             \/ k = n + Len(messages) /\ i = max + 1 /\ i_MaxInstanceId' = max + 1
  <2>1. k \in 1..Len(toWorld') /\ toWorld'[k].type = "Create" /\ toWorld'[k].instanceId = i
    BY <1>3 DEF Creates, Tells
  <2>2. CASE k \in 1..n
    BY <1>1, <2>1, <2>2 DEF Creates, Tells, n
  <2>3. CASE k - n \in 1..Len(messages) /\ toWorld'[k] = messages[k - n]
    <3>2. k - n = Len(messages) /\ i = max + 1 /\ i_MaxInstanceId' = max + 1
      BY <2>1, <2>3
    <3>. QED
      BY <1>1, <3>2
  <2>. QED
    BY <1>1, <2>1, <2>2, <2>3
<1>4. ASSUME NEW k \in Nat, NEW i \in Nat, Creates(k, i)'
      PROVE  i \in Instances' \ Created' /\ \A l \in Nat : Creates(l, i)' => k = l
  <2>1. \A l \in Nat : Creates(l, i) => i \in Instances \ Created /\ \A m \in Nat : Creates(m, i) => l = m
    BY DEF OnItsWay
  <2>2. CASE Creates(k, i)
    <3>1. i \in Instances \ Created /\ i # max + 1
      BY <1>2, <2>1, <2>2
    <3>2. \A l \in Nat : Creates(l, i)' => Creates(l, i)
      BY <1>3, <3>1
    <3>. QED
      BY <1>2, <2>1, <2>2, <3>1, <3>2
  <2>3. CASE ~Creates(k, i)
    <3>1. k = n + Len(messages) /\ i = max + 1 /\ i_MaxInstanceId' = max + 1
      BY <1>3, <1>4, <2>3
    <3>2. i \in Instances' /\ i \notin Created'
      BY <1>1, <3>1 DEF Instances
    <3>3. \A l \in Nat : ~Creates(l, i)
      BY <1>2, <2>1, <3>1
    <3>4. \A l \in Nat : Creates(l, i)' => l = n + Len(messages)
      BY <1>3, <3>3
    <3>. QED
      BY <3>1, <3>2, <3>4
  <2>. QED
    BY <2>2, <2>3
<1>5. ASSUME NEW k \in Nat, NEW p \in Players, Enters(k, p)'
      PROVE  toWorld'[k].instanceId \in Instances'
  <2>1. k \in 1..Len(toWorld') /\ toWorld'[k].type = "Enter" /\ toWorld'[k].player = p
    BY <1>5 DEF Enters, Tells
  <2>2. CASE k \in 1..n
    <3>1. Enters(k, p)
      BY <1>1, <2>1, <2>2 DEF Enters, Tells, n
    <3>. QED
      BY <1>1, <1>2, <2>2, <3>1 DEF OnItsWay
  <2>3. CASE k - n \in 1..Len(messages) /\ toWorld'[k] = messages[k - n]
    BY <1>2, <2>1, <2>3
  <2>. QED
    BY <1>1, <2>1, <2>2, <2>3
<1>. QED
  BY <1>4, <1>5 DEF OnItsWay

\* The queue executes a message that changes no list of entries.
LEMMA InQueuePopped ==
  ASSUME BgTypes, InQueue, toQueue # <<>>, toQueue' = Tail(toQueue),
         Received.type \notin {"AddBgToFreeSlots", "RemoveBgFromFreeSlots"},
         m_bgFreeSlotQueue' \in Seq(Infos), SameSlots(m_bgFreeSlotQueue', m_bgFreeSlotQueue),
         \A j \in 1..Len(m_queuedGroups') : m_queuedGroups'[j].invitedTo \in 0..i_MaxInstanceId,
         UNCHANGED <<i_MaxInstanceId, m_battleGrounds>>
  PROVE  InQueue'
<1> DEFINE slots == m_bgFreeSlotQueue
<1>1. /\ Head(toQueue) = toQueue[1] /\ 1 \in 1..Len(toQueue) /\ Len(toQueue') = Len(toQueue) - 1 /\ Len(toQueue) \in Nat
      /\ \A k \in 1..Len(toQueue') : toQueue'[k] = toQueue[k + 1] /\ k + 1 \in 1..Len(toQueue) /\ k + 1 # 1
  BY QueuePopped
<1>2. m_battleGrounds' = m_battleGrounds /\ Created' = Created /\ i_MaxInstanceId' = i_MaxInstanceId
  BY DEF Created
<1>3. Instances' = Instances /\ \A i : (Ended(i)' <=> Ended(i))
  BY <1>2 DEF Instances, Ended
<1>4. \A i : Entries(slots', i) = Entries(slots, i)
  BY SameEntries DEF BgTypes, QueueTypes
<1>5. \A i : Twice(i)' <=> Twice(i)
  BY <1>4 DEF Twice
<1>6. \A k \in 1..Len(slots') : slots'[k].instanceId \in Instances
  BY DEF SameSlots, InQueue
<1>7. \A k, i \in Nat : /\ Adds(k, i)' => Adds(k + 1, i)
                        /\ Removes(k, i)' => Removes(k + 1, i)
  BY <1>1 DEF Adds, Removes, Receives
<1>8. \A k, i \in Nat : Adds(k, i) => k # 1 /\ k - 1 \in Nat /\ Adds(k - 1, i)'
  <2> SUFFICES ASSUME NEW k \in Nat, NEW i \in Nat, Adds(k, i)
               PROVE  k # 1 /\ k - 1 \in Nat /\ Adds(k - 1, i)'
    OBVIOUS
  <2>1. k # 1
    BY <1>1 DEF Adds, Receives, Received
  <2>2. k - 1 \in 1..Len(toQueue') /\ (k - 1) + 1 = k
    BY <1>1, <2>1 DEF Adds, Receives
  <2>3. toQueue'[k - 1] = toQueue[k]
    BY <1>1, <2>2
  <2>. QED
    BY <2>1, <2>2, <2>3 DEF Adds, Receives
<1>9. \A i \in Created' : m_battleGrounds'[i].m_hasBgFreeSlotQueue => Twice(i)' \/ \E k \in Nat : Adds(k, i)'
  <2> SUFFICES ASSUME NEW i \in Created, m_battleGrounds[i].m_hasBgFreeSlotQueue, ~Twice(i)
               PROVE  \E k \in Nat : Adds(k, i)'
    BY <1>2, <1>5
  <2>1. PICK k \in Nat : Adds(k, i)
    BY DEF InQueue
  <2>2. i \in Nat
    BY DEF BgTypes, WorldTypes, QueueTypes
  <2>. QED
    BY <1>8, <2>1, <2>2
<1>10. ASSUME NEW i \in Nat, NEW k \in Nat, Removes(k, i)'
       PROVE  /\ Ended(i)'
              /\ Twice(i)' \/ \E l \in 1..(k - 1) : Adds(l, i)'
              /\ \A l \in Nat : Removes(l, i)' => k = l
  <2>1. Removes(k + 1, i) /\ k + 1 \in Nat
    BY <1>7, <1>10
  <2>2. /\ Ended(i)
        /\ Twice(i) \/ \E l \in 1..((k + 1) - 1) : Adds(l, i)
        /\ \A l \in Nat : Removes(l, i) => k + 1 = l
    BY <2>1 DEF InQueue
  <2>3. ASSUME NEW l \in 1..((k + 1) - 1), Adds(l, i)
        PROVE  l - 1 \in 1..(k - 1) /\ Adds(l - 1, i)'
    <3>1. l \in Nat /\ l # 1 /\ Adds(l - 1, i)'
      BY <1>8, <2>3
    <3>. QED
      BY <3>1
  <2>4. \A l \in Nat : Removes(l, i)' => k = l
    <3> TAKE l \in Nat
    <3> HAVE Removes(l, i)'
    <3>1. Removes(l + 1, i) /\ l + 1 \in Nat
      BY <1>7
    <3>2. k + 1 = l + 1
      BY <2>2, <3>1
    <3>. QED
      BY <3>2
  <2>. QED
    BY <1>3, <1>5, <2>2, <2>3, <2>4
<1>11. \A i \in Nat, k \in Nat : Adds(k, i)' => i \in Instances
  BY <1>7 DEF InQueue
<1>12. \A i \in Instances : Entries(slots', i) # {}
  BY <1>4 DEF InQueue
<1>. QED
  BY <1>3, <1>6, <1>9, <1>10, <1>11, <1>12 DEF InQueue

\* The world sends something to the queue.
LEMMA InQueueSent ==
  ASSUME BgTypes, InQueue, NEW messages \in Seq(ForQueue), toQueue' = toQueue \o messages,
         UNCHANGED <<m_queuedGroups, m_bgFreeSlotQueue, i_MaxInstanceId>>,
         \A i \in Created' : m_battleGrounds'[i].m_hasBgFreeSlotQueue =>
            \/ i \in Created /\ m_battleGrounds[i].m_hasBgFreeSlotQueue
            \/ \E m \in 1..Len(messages) : messages[m].type = "AddBgToFreeSlots" /\ messages[m].info.instanceId = i,
         \A i : Ended(i) => Ended(i)',
         \A m \in 1..Len(messages) : messages[m].type = "AddBgToFreeSlots" => messages[m].info.instanceId \in Instances,
         \A m \in 1..Len(messages) : messages[m].type = "RemoveBgFromFreeSlots" =>
            /\ messages[m].instanceId \in Created /\ m_battleGrounds[messages[m].instanceId].m_hasBgFreeSlotQueue
            /\ Ended(messages[m].instanceId)'
            /\ \A l \in 1..Len(messages) : messages[l].type = "RemoveBgFromFreeSlots" => l = m
  PROVE  InQueue'
<1> DEFINE n == Len(toQueue)
<1>1. /\ n \in Nat /\ Len(messages) \in Nat /\ Len(toQueue') = n + Len(messages)
      /\ \A k \in 1..n : toQueue'[k] = toQueue[k]
      /\ \A k \in 1..Len(messages) : toQueue'[n + k] = messages[k]
      /\ \A k \in 1..Len(toQueue') : \/ k \in 1..n /\ toQueue'[k] = toQueue[k]
                                     \/ k - n \in 1..Len(messages) /\ toQueue'[k] = messages[k - n]
  <2>1. toQueue \in Seq(ForQueue)
    BY DEF BgTypes, MessageTypes
  <2>2. Len(toQueue) \in Nat /\ Len(messages) \in Nat
    BY <2>1
  <2>. QED
    BY <2>1, <2>2, Joined
<1>2. Instances' = Instances /\ \A i : (Twice(i)' <=> Twice(i))
  BY DEF Instances, Twice
<1> HIDE DEF n
<1>3. \A k, i \in Nat : Adds(k, i) => Adds(k, i)' /\ k <= n
  BY <1>1 DEF Adds, Receives, n
<1>4. ASSUME NEW k \in Nat, NEW i \in Nat, Removes(k, i)'
      PROVE  \/ Removes(k, i)
             \/ k - n \in 1..Len(messages) /\ messages[k - n].type = "RemoveBgFromFreeSlots" /\ messages[k - n].instanceId = i
  BY <1>1, <1>4 DEF Removes, Receives, n
<1>5. ASSUME NEW k \in Nat, NEW i \in Nat, Adds(k, i)'
      PROVE  i \in Instances
  <2>1. Adds(k, i) \/ (k - n \in 1..Len(messages) /\ messages[k - n].type = "AddBgToFreeSlots"
                                                  /\ messages[k - n].info.instanceId = i)
    BY <1>1, <1>5 DEF Adds, Receives, n
  <2>. QED
    BY <2>1 DEF InQueue
<1>6. \A i \in Created' : m_battleGrounds'[i].m_hasBgFreeSlotQueue => Twice(i)' \/ \E k \in Nat : Adds(k, i)'
  <2> SUFFICES ASSUME NEW i \in Created', m_battleGrounds'[i].m_hasBgFreeSlotQueue, ~Twice(i)
               PROVE  \E k \in Nat : Adds(k, i)'
    BY <1>2
  <2>1. CASE i \in Created /\ m_battleGrounds[i].m_hasBgFreeSlotQueue
    <3>1. PICK k \in Nat : Adds(k, i)
      BY <2>1 DEF InQueue
    <3>2. i \in Nat
      BY <2>1 DEF BgTypes, WorldTypes, QueueTypes
    <3>. QED
      BY <1>3, <3>1, <3>2
  <2>2. CASE \E m \in 1..Len(messages) : messages[m].type = "AddBgToFreeSlots" /\ messages[m].info.instanceId = i
    <3>1. PICK m \in 1..Len(messages) : messages[m].type = "AddBgToFreeSlots" /\ messages[m].info.instanceId = i
      BY <2>2
    <3>2. toQueue'[n + m] = messages[m] /\ n + m \in 1..Len(toQueue') /\ n + m \in Nat
      BY <1>1
    <3>. QED
      BY <3>1, <3>2 DEF Adds, Receives
  <2>. QED
    BY <2>1, <2>2
<1>7. ASSUME NEW i \in Nat, NEW k \in Nat, Removes(k, i)'
      PROVE  /\ Ended(i)'
             /\ Twice(i)' \/ \E l \in 1..(k - 1) : Adds(l, i)'
             /\ \A l \in Nat : Removes(l, i)' => k = l
  <2>1. \A l \in Nat : Removes(l, i) =>
           /\ Ended(i) /\ (Twice(i) \/ \E m \in 1..(l - 1) : Adds(m, i))
           /\ \A m \in Nat : Removes(m, i) => l = m
    BY DEF InQueue
  <2>2. CASE Removes(k, i)
    <3>1. Ended(i) /\ ~(i \in Created /\ m_battleGrounds[i].m_hasBgFreeSlotQueue)
      BY <2>1, <2>2 DEF Ended
    <3>2. \A l \in Nat : Removes(l, i)' => Removes(l, i)
      BY <1>4, <3>1
    <3>3. Twice(i)' \/ \E l \in 1..(k - 1) : Adds(l, i)'
      <4>1. \A l \in 1..(k - 1) : l \in Nat
        OBVIOUS
      <4>. QED
        BY <1>2, <1>3, <2>1, <2>2, <4>1
    <3>. QED
      BY <2>1, <2>2, <3>1, <3>2, <3>3
  <2>3. CASE ~Removes(k, i)
    <3>1. k - n \in 1..Len(messages) /\ messages[k - n].type = "RemoveBgFromFreeSlots" /\ messages[k - n].instanceId = i
      BY <1>4, <1>7, <2>3
    <3>2. /\ i \in Created /\ m_battleGrounds[i].m_hasBgFreeSlotQueue /\ Ended(i)'
          /\ \A l \in 1..Len(messages) : messages[l].type = "RemoveBgFromFreeSlots" => l = k - n
      BY <3>1
    <3>3. Twice(i)' \/ \E l \in 1..(k - 1) : Adds(l, i)'
      <4> SUFFICES ASSUME ~Twice(i) PROVE \E l \in 1..(k - 1) : Adds(l, i)'
        BY <1>2
      <4>1. PICK l \in Nat : Adds(l, i)
        BY <3>2 DEF InQueue
      <4>2. Adds(l, i)' /\ l <= n /\ l \in 1..n
        BY <1>3, <4>1 DEF Adds, Receives, n
      <4>3. l \in 1..(k - 1)
        BY <1>1, <3>1, <4>2
      <4>. QED
        BY <4>2, <4>3
    <3>4. ASSUME NEW l \in Nat, Removes(l, i)'
          PROVE  k = l
      <4>1. ~Removes(l, i)
        BY <2>1, <3>2 DEF Ended
      <4>2. l - n = k - n
        BY <1>4, <3>2, <3>4, <4>1
      <4>. QED
        BY <1>1, <4>2
    <3>. QED
      BY <3>2, <3>3, <3>4
  <2>. QED
    BY <2>2, <2>3
<1>. QED
  BY <1>2, <1>5, <1>6, <1>7 DEF InQueue, Twice

\* The message of an entry is executed: what was under way is in the list.
LEMMA InQueueAdded ==
  ASSUME BgTypes, InQueue, AddBgToFreeSlots, UNCHANGED i_MaxInstanceId
  PROVE  InQueue'
<1> DEFINE slots == m_bgFreeSlotQueue
           new == Received.info
           d == new.instanceId
<1>1. /\ Head(toQueue) = toQueue[1] /\ 1 \in 1..Len(toQueue) /\ Len(toQueue') = Len(toQueue) - 1 /\ Len(toQueue) \in Nat
      /\ \A k \in 1..Len(toQueue') : toQueue'[k] = toQueue[k + 1] /\ k + 1 \in 1..Len(toQueue) /\ k + 1 # 1
      /\ Head(toQueue) \in ForQueue
  BY QueuePopped DEF AddBgToFreeSlots, ToQueue
<1>2. /\ m_battleGrounds' = m_battleGrounds /\ Created' = Created /\ i_MaxInstanceId' = i_MaxInstanceId
      /\ m_queuedGroups' = m_queuedGroups /\ slots' = <<new>> \o slots
      /\ Head(toQueue).type = "AddBgToFreeSlots" /\ slots \in Seq(Infos)
  BY DEF Created, AddBgToFreeSlots, ToQueue, world, BgTypes, QueueTypes
<1>3. Instances' = Instances /\ \A i : (Ended(i)' <=> Ended(i))
  BY <1>2 DEF Instances, Ended
<1>4. new \in Infos /\ d \in Nat /\ Adds(1, d)
  BY <1>2, <1>1, QueueKinds DEF Adds, Receives, Received, Infos
<1>5. d \in Instances
  BY <1>4 DEF InQueue
<1>6. /\ Len(slots') = Len(slots) + 1 /\ slots'[1] = new
      /\ \A k \in 2..(Len(slots) + 1) : slots'[k] = slots[k - 1]
      /\ Entries(slots', d) # {}
      /\ \A i : /\ Entries(slots, i) # {} => Entries(slots', i) # {}
                /\ Entries(slots, i) # {} /\ i = d => \E k, l \in Entries(slots', i) : k # l
                /\ (\E k, l \in Entries(slots, i) : k # l) => \E k, l \in Entries(slots', i) : k # l
  BY <1>2, <1>4, EntryAdded
<1> HIDE DEF slots, new, d
<1>7. \A k, i \in Nat : /\ Adds(k, i)' => Adds(k + 1, i)
                        /\ Removes(k, i)' => Removes(k + 1, i)
  BY <1>1 DEF Adds, Removes, Receives
<1>8. \A k, i \in Nat : Adds(k, i) => i = d \/ (k # 1 /\ k - 1 \in Nat /\ Adds(k - 1, i)')
  <2> SUFFICES ASSUME NEW k \in Nat, NEW i \in Nat, Adds(k, i), i # d
               PROVE  k # 1 /\ k - 1 \in Nat /\ Adds(k - 1, i)'
    OBVIOUS
  <2>1. k # 1
    BY <1>1 DEF Adds, Receives, Received, d, new
  <2>2. k - 1 \in 1..Len(toQueue') /\ (k - 1) + 1 = k
    BY <1>1, <2>1 DEF Adds, Receives
  <2>3. toQueue'[k - 1] = toQueue[k]
    BY <1>1, <2>2
  <2>. QED
    BY <2>1, <2>2, <2>3 DEF Adds, Receives
<1>9. Entries(slots, d) # {}
  BY <1>5 DEF InQueue, slots
<1>10. \A i : Twice(i) \/ i = d => Twice(i)'
  <2>1. /\ \A i : Twice(i)' <=> \E k, l \in Entries(slots', i) : k # l
        /\ \A i : Twice(i) <=> \E k, l \in Entries(slots, i) : k # l
    BY DEF Twice, slots
  <2>2. \A i : i = d => Twice(i)'
    BY <1>6, <1>9, <2>1
  <2>. QED
    BY <1>6, <2>1, <2>2
<1>11. \A i \in Created' : m_battleGrounds'[i].m_hasBgFreeSlotQueue => Twice(i)' \/ \E k \in Nat : Adds(k, i)'
  <2> SUFFICES ASSUME NEW i \in Created, m_battleGrounds[i].m_hasBgFreeSlotQueue, ~Twice(i)'
               PROVE  \E k \in Nat : Adds(k, i)'
    BY <1>2
  <2>1. PICK k \in Nat : Adds(k, i)
    BY <1>10 DEF InQueue
  <2>2. i \in Nat
    BY DEF BgTypes, WorldTypes, QueueTypes
  <2>3. i # d
    BY <1>10
  <2>. QED
    BY <1>8, <2>1, <2>2, <2>3
<1>12. ASSUME NEW i \in Nat, NEW k \in Nat, Removes(k, i)'
      PROVE  /\ Ended(i)'
             /\ Twice(i)' \/ \E l \in 1..(k - 1) : Adds(l, i)'
             /\ \A l \in Nat : Removes(l, i)' => k = l
  <2>1. Removes(k + 1, i) /\ k + 1 \in Nat
    BY <1>7, <1>12
  <2>2. /\ Ended(i)
        /\ Twice(i) \/ \E l \in 1..((k + 1) - 1) : Adds(l, i)
        /\ \A l \in Nat : Removes(l, i) => k + 1 = l
    BY <2>1 DEF InQueue
  <2>3. ASSUME NEW l \in 1..((k + 1) - 1), Adds(l, i), i # d
        PROVE  l - 1 \in 1..(k - 1) /\ Adds(l - 1, i)'
    <3>1. l \in Nat /\ l # 1 /\ Adds(l - 1, i)'
      BY <1>8, <2>3
    <3>. QED
      BY <3>1
  <2>4. \A l \in Nat : Removes(l, i)' => k = l
    <3> TAKE l \in Nat
    <3> HAVE Removes(l, i)'
    <3>1. Removes(l + 1, i) /\ l + 1 \in Nat
      BY <1>7
    <3>2. k + 1 = l + 1
      BY <2>2, <3>1
    <3>. QED
      BY <3>2
  <2>5. Twice(i)' \/ \E l \in 1..(k - 1) : Adds(l, i)'
    <3>1. CASE Twice(i) \/ i = d
      BY <1>10, <3>1
    <3>2. CASE i # d /\ \E l \in 1..((k + 1) - 1) : Adds(l, i)
      BY <2>3, <3>2
    <3>. QED
      BY <2>2, <3>1, <3>2
  <2>. QED
    BY <1>3, <2>2, <2>4, <2>5
<1>13. \A i \in Nat, k \in Nat : Adds(k, i)' => i \in Instances
  BY <1>7 DEF InQueue
<1>14. \A k \in 1..Len(slots') : slots'[k].instanceId \in Instances
  <2> TAKE k \in 1..Len(slots')
  <2>1. CASE k = 1
    BY <1>5, <1>6, <2>1 DEF d
  <2>2. CASE k # 1
    <3>1. k - 1 \in 1..Len(slots) /\ slots'[k] = slots[k - 1]
      BY <1>2, <1>6, <2>2
    <3>. QED
      BY <3>1 DEF InQueue, slots
  <2>. QED
    BY <2>1, <2>2
<1>15. \A i \in Instances : Entries(slots', i) # {}
  BY <1>6 DEF InQueue, slots
<1>16. \A j \in 1..Len(m_queuedGroups') : m_queuedGroups'[j].invitedTo \in 0..i_MaxInstanceId'
  BY <1>2 DEF InQueue
<1>. QED
  BY <1>3, <1>11, <1>12, <1>13, <1>14, <1>15, <1>16 DEF InQueue, slots

\* The message of the end of a battleground is executed: one of its entries is left.
LEMMA InQueueRemoved ==
  ASSUME BgTypes, InQueue, RemoveBgFromFreeSlots, UNCHANGED i_MaxInstanceId
  PROVE  InQueue' /\ m_bgFreeSlotQueue' \in Seq(Infos)
<1> DEFINE slots == m_bgFreeSlotQueue
           d == Received.instanceId
<1>1. /\ Head(toQueue) = toQueue[1] /\ 1 \in 1..Len(toQueue) /\ Len(toQueue') = Len(toQueue) - 1 /\ Len(toQueue) \in Nat
      /\ \A k \in 1..Len(toQueue') : toQueue'[k] = toQueue[k + 1] /\ k + 1 \in 1..Len(toQueue) /\ k + 1 # 1
      /\ Head(toQueue) \in ForQueue
  BY QueuePopped DEF RemoveBgFromFreeSlots, ToQueue
<1>2. /\ m_battleGrounds' = m_battleGrounds /\ Created' = Created /\ i_MaxInstanceId' = i_MaxInstanceId
      /\ m_queuedGroups' = m_queuedGroups
      /\ Head(toQueue).type = "RemoveBgFromFreeSlots" /\ slots \in Seq(Infos)
  BY DEF Created, RemoveBgFromFreeSlots, ToQueue, world, BgTypes, QueueTypes
<1>3. Instances' = Instances /\ \A i : (Ended(i)' <=> Ended(i))
  BY <1>2 DEF Instances, Ended
<1>4. d \in Nat /\ Removes(1, d)
  BY <1>2, <1>1, QueueKinds DEF Removes, Receives, Received
<1>5. Ended(d) /\ Twice(d) /\ \A l \in Nat : Removes(l, d) => l = 1
  BY <1>4 DEF InQueue
<1>6. Entries(slots, d) # {}
  BY <1>5 DEF Twice
<1>7. slots' = RemoveAt(slots, GetFreeSlotInstance(slots, d))
  BY <1>6 DEF RemoveBgFromFreeSlots
<1> HIDE DEF slots, d
<1>8. /\ slots' \in Seq(Infos)
      /\ \A k \in 1..Len(slots') : \E l \in 1..Len(slots) : slots'[k] = slots[l]
      /\ \A i : i # d /\ Entries(slots, i) # {} => Entries(slots', i) # {}
      /\ \A i : i # d /\ (\E k, l \in Entries(slots, i) : k # l) => \E k, l \in Entries(slots', i) : k # l
      /\ (\E k, l \in Entries(slots, d) : k # l) => Entries(slots', d) # {}
  BY <1>2, <1>6, <1>7, EntryRemoved
<1>9. \A k, i \in Nat : /\ Adds(k, i)' => Adds(k + 1, i)
                        /\ Removes(k, i)' => Removes(k + 1, i)
  BY <1>1 DEF Adds, Removes, Receives
<1>10. \A k, i \in Nat : Adds(k, i) => k # 1 /\ k - 1 \in Nat /\ Adds(k - 1, i)'
  <2> SUFFICES ASSUME NEW k \in Nat, NEW i \in Nat, Adds(k, i)
               PROVE  k # 1 /\ k - 1 \in Nat /\ Adds(k - 1, i)'
    OBVIOUS
  <2>1. k # 1
    BY <1>2, <1>1 DEF Adds, Receives
  <2>2. k - 1 \in 1..Len(toQueue') /\ (k - 1) + 1 = k
    BY <1>1, <2>1 DEF Adds, Receives
  <2>3. toQueue'[k - 1] = toQueue[k]
    BY <1>1, <2>2
  <2>. QED
    BY <2>1, <2>2, <2>3 DEF Adds, Receives
<1>11. \A i : i # d /\ Twice(i) => Twice(i)'
  BY <1>8 DEF Twice, slots
<1>12. \A i \in Created' : m_battleGrounds'[i].m_hasBgFreeSlotQueue => Twice(i)' \/ \E k \in Nat : Adds(k, i)'
  <2> SUFFICES ASSUME NEW i \in Created, m_battleGrounds[i].m_hasBgFreeSlotQueue, ~Twice(i)'
               PROVE  \E k \in Nat : Adds(k, i)'
    BY <1>2
  <2>1. i # d
    BY <1>5 DEF Ended
  <2>2. PICK k \in Nat : Adds(k, i)
    BY <1>11, <2>1 DEF InQueue
  <2>3. i \in Nat
    BY DEF BgTypes, WorldTypes, QueueTypes
  <2>. QED
    BY <1>10, <2>2, <2>3
<1>13. ASSUME NEW i \in Nat, NEW k \in Nat, Removes(k, i)'
      PROVE  /\ Ended(i)'
             /\ Twice(i)' \/ \E l \in 1..(k - 1) : Adds(l, i)'
             /\ \A l \in Nat : Removes(l, i)' => k = l
  <2>1. Removes(k + 1, i) /\ k + 1 \in Nat
    BY <1>9, <1>13
  <2>2. /\ Ended(i)
        /\ Twice(i) \/ \E l \in 1..((k + 1) - 1) : Adds(l, i)
        /\ \A l \in Nat : Removes(l, i) => k + 1 = l
    BY <2>1 DEF InQueue
  <2>5. i # d
    <3>1. k + 1 # 1
      BY <1>13 DEF Removes, Receives
    <3>. QED
      BY <1>5, <2>1, <3>1
  <2>3. ASSUME NEW l \in 1..((k + 1) - 1), Adds(l, i)
        PROVE  l - 1 \in 1..(k - 1) /\ Adds(l - 1, i)'
    <3>1. l \in Nat /\ l # 1 /\ Adds(l - 1, i)'
      BY <1>10, <2>3
    <3>. QED
      BY <3>1
  <2>4. \A l \in Nat : Removes(l, i)' => k = l
    <3> TAKE l \in Nat
    <3> HAVE Removes(l, i)'
    <3>1. Removes(l + 1, i) /\ l + 1 \in Nat
      BY <1>9
    <3>2. k + 1 = l + 1
      BY <2>2, <3>1
    <3>. QED
      BY <3>2
  <2>. QED
    BY <1>3, <1>11, <2>2, <2>3, <2>4, <2>5
<1>14. \A i \in Nat, k \in Nat : Adds(k, i)' => i \in Instances
  BY <1>9 DEF InQueue
<1>15. \A k \in 1..Len(slots') : slots'[k].instanceId \in Instances
  <2> TAKE k \in 1..Len(slots')
  <2>1. PICK l \in 1..Len(slots) : slots'[k] = slots[l]
    BY <1>8
  <2>. QED
    BY <2>1 DEF InQueue, slots
<1>16. \A i \in Instances : Entries(slots', i) # {}
  BY <1>5, <1>8 DEF InQueue, slots, Twice
<1>17. \A j \in 1..Len(m_queuedGroups') : m_queuedGroups'[j].invitedTo \in 0..i_MaxInstanceId'
  BY <1>2 DEF InQueue
<1>18. InQueue'
  BY <1>3, <1>12, <1>13, <1>14, <1>15, <1>16, <1>17 DEF InQueue, slots
<1>. QED
  BY <1>8, <1>18 DEF slots

\* An update of the queue: the instance of the new entry is the latest.
LEMMA ListedUpdated ==
  ASSUME BgTypes, Listed, Updated({}), UNCHANGED <<toQueue, world>>
  PROVE  Listed' /\ m_queuedGroups' \in Seq(Groups) /\ m_bgFreeSlotQueue' \in Seq(Infos)
         /\ i_MaxInstanceId' \in {i_MaxInstanceId, i_MaxInstanceId + 1} /\ toWorld' \in Seq(ForWorld)
         /\ SameGroups(m_queuedGroups', m_queuedGroups)
<1> DEFINE slots == m_bgFreeSlotQueue
           max == i_MaxInstanceId
<1>1. PICK old \in Seq(Infos), sent \in Seq(ForWorld) :
    /\ m_queuedGroups' \in Seq(Groups) /\ slots' \in Seq(Infos)
    /\ SameGroups(m_queuedGroups', m_queuedGroups)
    /\ SameSlots(slots', old)
    /\ Ids(m_queuedGroups', slots', max')
    /\ Answered(sent, m_queuedGroups', m_queuedGroups)
    /\ \/ /\ old = slots /\ max' = max
          /\ toWorld' = toWorld \o sent
       \/ /\ max' = max + 1
          /\ \E new \in Infos : new.instanceId = max + 1 /\ new.playersInside = 0 /\ old = <<new>> \o slots
          /\ \E c \in Counts : toWorld' = toWorld \o
                Append(sent, [type |-> "Create", instanceId |-> max + 1, invited |-> c])
  BY DEF Updated
<1>2. /\ max \in Nat /\ slots \in Seq(Infos) /\ toWorld \in Seq(ForWorld) /\ Created \subseteq 1..max
      /\ m_battleGrounds' = m_battleGrounds /\ Created' = Created /\ toQueue' = toQueue /\ InQueue /\ OnItsWay
  BY DEF BgTypes, QueueTypes, MessageTypes, WorldTypes, Created, world, Listed
<1>3. \A m \in 1..Len(sent) : sent[m].type \in {"Invite", "SetInvitedCount"}
  BY <1>1 DEF Answered
<1>4. PICK messages \in Seq(ForWorld) : /\ toWorld' = toWorld \o messages
            /\ \A m \in 1..Len(messages) :
                  /\ messages[m].type # "Enter"
                  /\ messages[m].type = "Create" => /\ m = Len(messages) /\ messages[m].instanceId = max + 1
                                                    /\ max' = max + 1
  <2>1. CASE toWorld' = toWorld \o sent
    BY <1>3, <2>1
  <2>2. CASE \E c \in Counts : toWorld' = toWorld \o
                Append(sent, [type |-> "Create", instanceId |-> max + 1, invited |-> c]) /\ max' = max + 1
    <3>1. PICK c \in Counts : toWorld' = toWorld \o
                Append(sent, [type |-> "Create", instanceId |-> max + 1, invited |-> c]) /\ max' = max + 1
      BY <2>2
    <3> DEFINE last == [type |-> "Create", instanceId |-> max + 1, invited |-> c]
    <3>2. last \in ForWorld /\ last.type = "Create" /\ last.instanceId = max + 1
      <4>1. max + 1 \in Nat
        BY <1>2
      <4>. QED
        BY <4>1, WorldMembers
    <3> HIDE DEF last
    <3>3. /\ Append(sent, last) \in Seq(ForWorld) /\ Len(Append(sent, last)) = Len(sent) + 1
          /\ \A m \in 1..Len(Append(sent, last)) : \/ m \in 1..Len(sent) /\ Append(sent, last)[m] = sent[m]
                                                   \/ m = Len(sent) + 1 /\ Append(sent, last)[m] = last
      BY <3>2
    <3>. QED
      BY <1>3, <3>1, <3>2, <3>3 DEF last
  <2>. QED
    BY <1>1, <2>1, <2>2
<1>5. toWorld' \in Seq(ForWorld)
  BY <1>2, <1>4
<1>6. OnItsWay'
  BY <1>1, <1>2, <1>4, OnItsWaySent
<1>7. /\ \A i : (Entries(slots, i) # {} => Entries(slots', i) # {}) /\ (Twice(i) => Twice(i)')
      /\ max' = max \/ (max' = max + 1 /\ Entries(slots', max + 1) # {})
  <2>1. \A i : Entries(slots', i) = Entries(old, i)
    BY <1>1, SameEntries
  <2>2. CASE old = slots /\ max' = max
    BY <2>1, <2>2 DEF Twice
  <2>3. CASE max' = max + 1 /\ \E new \in Infos : new.instanceId = max + 1 /\ new.playersInside = 0 /\ old = <<new>> \o slots
    <3>1. PICK new \in Infos : new.instanceId = max + 1 /\ new.playersInside = 0 /\ old = <<new>> \o slots
      BY <2>3
    <3> HIDE DEF slots, max
    <3>4. slots \in Seq(Infos)
      BY <1>2
    <3>2. /\ Entries(<<new>> \o slots, new.instanceId) # {}
          /\ \A i : /\ Entries(slots, i) # {} => Entries(<<new>> \o slots, i) # {}
                    /\ (\E k, l \in Entries(slots, i) : k # l) =>
                          \E k, l \in Entries(<<new>> \o slots, i) : k # l
      BY <3>4, EntryAdded
    <3>3. /\ \A i : Twice(i)' <=> \E k, l \in Entries(slots', i) : k # l
          /\ \A i : Twice(i) <=> \E k, l \in Entries(slots, i) : k # l
      BY DEF Twice, slots
    <3>. QED
      BY <2>1, <2>3, <3>1, <3>2, <3>3
  <2>. QED
    BY <1>1, <2>2, <2>3
<1>8. Instances \subseteq Instances' /\ \A i \in Instances' : i \in Instances \/ (i = max + 1 /\ max' = max + 1)
  BY <1>1, <1>2 DEF Instances
<1>9. \A i : /\ Ended(i)' <=> Ended(i)
             /\ \A k : (Adds(k, i)' <=> Adds(k, i)) /\ (Removes(k, i)' <=> Removes(k, i))
  BY <1>2 DEF Ended, Adds, Removes, Receives
<1>10. \A i \in Instances' : Entries(slots', i) # {}
  <2> TAKE i \in Instances'
  <2>1. CASE i \in Instances
    <3>1. Entries(slots, i) # {}
      BY <1>2, <2>1 DEF InQueue
    <3>. QED
      BY <1>7, <3>1
  <2>2. CASE i = max + 1 /\ max' = max + 1
    <3>1. max' # max
      BY <1>2, <2>2
    <3>. QED
      BY <1>7, <2>2, <3>1
  <2>. QED
    BY <1>8, <2>1, <2>2
<1>11. /\ \A j \in 1..Len(m_queuedGroups') : m_queuedGroups'[j].invitedTo \in 0..max'
       /\ \A k \in 1..Len(slots') : slots'[k].instanceId \in Instances'
  BY <1>1 DEF Ids, Instances
<1>12. \A i \in Created' : m_battleGrounds'[i].m_hasBgFreeSlotQueue => Twice(i)' \/ \E k \in Nat : Adds(k, i)'
  BY <1>2, <1>7, <1>9 DEF InQueue
<1>13. \A i \in Nat, k \in Nat : Removes(k, i)' =>
          /\ Ended(i)'
          /\ Twice(i)' \/ \E l \in 1..(k - 1) : Adds(l, i)'
          /\ \A l \in Nat : Removes(l, i)' => k = l
  BY <1>2, <1>7, <1>9 DEF InQueue
<1>14. \A i \in Nat, k \in Nat : Adds(k, i)' => i \in Instances'
  BY <1>2, <1>8, <1>9 DEF InQueue
<1>15. InQueue'
  BY <1>10, <1>11, <1>12, <1>13, <1>14 DEF InQueue
<1>. QED
  BY <1>1, <1>5, <1>6, <1>15 DEF Listed

ListInv == BgTypes /\ Listed /\ Grouped

\* A player of the queue has a group there (BattleGroundQueue.cpp:371).
LEMMA PlaceFact ==
  ASSUME BgTypes, Grouped, NEW p \in Players, m_queuedPlayers[p] # None
  PROVE  /\ Place(p) \in 1..Len(m_queuedGroups) /\ Group(p) \in Groups
         /\ Group(p).player = p /\ Group(p).number = m_queuedPlayers[p]
<1>1. m_queuedGroups \in Seq(Groups) /\ DOMAIN m_queuedGroups = 1..Len(m_queuedGroups)
  BY DEF BgTypes, QueueTypes
<1>2. \E k \in DOMAIN m_queuedGroups :
               m_queuedGroups[k].player = p /\ m_queuedGroups[k].number = m_queuedPlayers[p]
  BY <1>1 DEF Grouped, HasGroup
<1>3. Place(p) \in DOMAIN m_queuedGroups
      /\ m_queuedGroups[Place(p)].player = p /\ m_queuedGroups[Place(p)].number = m_queuedPlayers[p]
  BY <1>2 DEF Place
<1>4. Group(p) \in Groups
  BY <1>1, <1>3 DEF Group
<1>. QED
  BY <1>1, <1>3, <1>4 DEF Group

\* The messages are sent, with those of counts.
Sends(messages) == \E all \in Seq(ForWorld) :
    /\ toWorld' = toWorld \o all
    /\ \A m \in 1..Len(all) : all[m].type = "SetInvitedCount" \/ \E l \in 1..Len(messages) : all[m] = messages[l]
    /\ Len(messages) <= 1 => \A m, l \in 1..Len(all) :
          all[m].type # "SetInvitedCount" /\ all[l].type # "SetInvitedCount" => m = l

\* A player is taken out of the queue.
LEMMA RemovePlayerFact ==
  ASSUME BgTypes, InQueue, Grouped, NEW p \in Players, m_queuedPlayers[p] # None,
         NEW decrease \in BOOLEAN, NEW messages \in Seq(ForWorld), RemovePlayer(p, decrease, messages)
  PROVE  /\ m_queuedGroups' = RemoveAt(m_queuedGroups, Place(p)) /\ m_queuedGroups' \in Seq(Groups)
         /\ \A j \in 1..Len(m_queuedGroups') : m_queuedGroups'[j].invitedTo \in 0..i_MaxInstanceId
         /\ m_queuedPlayers' = [m_queuedPlayers EXCEPT ![p] = None]
         /\ m_queuedPlayers' \in [Players -> Nat \union {None}]
         /\ Grouped'
         /\ m_bgFreeSlotQueue' \in Seq(Infos) /\ SameSlots(m_bgFreeSlotQueue', m_bgFreeSlotQueue)
         /\ Sends(messages)
<1> DEFINE at == Place(p)
           n == Len(m_queuedGroups)
           i == Group(p).invitedTo
           slots == m_bgFreeSlotQueue
           k == GetFreeSlotInstance(slots, i)
           count == Minus(slots[k].invited[Team(p)])
           dec == decrease /\ i # 0 /\ Entries(slots, i) # {}
           first == IF dec THEN <<Count(i, Team(p), count)>> ELSE <<>>
<1>1. /\ at \in 1..n /\ Group(p) \in Groups /\ m_queuedGroups[at].player = p
      /\ m_queuedGroups \in Seq(Groups) /\ n \in Nat
      /\ slots \in Seq(Infos) /\ toWorld \in Seq(ForWorld) /\ m_queuedPlayers \in [Players -> Nat \union {None}]
  BY PlaceFact DEF BgTypes, QueueTypes, MessageTypes, Group
<1>2. /\ m_queuedGroups' = RemoveAt(m_queuedGroups, at)
      /\ m_queuedPlayers' = [m_queuedPlayers EXCEPT ![p] = None]
      /\ slots' = IF dec THEN [slots EXCEPT ![k].invited[Team(p)] = count] ELSE slots
      /\ toWorld' = toWorld \o (first \o messages)
  BY DEF RemovePlayer, Forget
<1> HIDE DEF at
<1>3. /\ m_queuedGroups' \in Seq(Groups) /\ Len(m_queuedGroups') = n - 1
      /\ \A j \in 1..(n - 1) : m_queuedGroups'[j] = IF j < at THEN m_queuedGroups[j] ELSE m_queuedGroups[j + 1]
  BY <1>1, <1>2, RemoveAtFact
<1>4. \A j \in 1..Len(m_queuedGroups') : m_queuedGroups'[j].invitedTo \in 0..i_MaxInstanceId
  <2> TAKE j \in 1..Len(m_queuedGroups')
  <2>1. j \in 1..(n - 1) /\ j \in 1..n /\ j + 1 \in 1..n
    BY <1>1, <1>3
  <2>. QED
    BY <1>3, <2>1 DEF InQueue
<1>5. m_queuedPlayers' \in [Players -> Nat \union {None}]
  BY <1>1, <1>2
<1>6. Grouped'
  <2> SUFFICES ASSUME NEW q \in Players, m_queuedPlayers'[q] # None
               PROVE  \E j \in Nat : /\ j \in 1..Len(m_queuedGroups') /\ m_queuedGroups'[j].player = q
                                     /\ m_queuedGroups'[j].number = m_queuedPlayers'[q]
    BY DEF Grouped, HasGroup
  <2>1. q # p /\ m_queuedPlayers'[q] = m_queuedPlayers[q]
    BY <1>1, <1>2
  <2>2. PICK j \in Nat : HasGroup(j, q, m_queuedPlayers[q])
    BY <2>1 DEF Grouped
  <2>3. j \in 1..n /\ j # at /\ m_queuedGroups[j].player = q /\ m_queuedGroups[j].number = m_queuedPlayers[q]
    BY <1>1, <2>1, <2>2 DEF HasGroup
  <2>4. CASE j < at
    <3>1. j \in 1..(n - 1) /\ m_queuedGroups'[j] = m_queuedGroups[j]
      BY <1>1, <1>3, <2>3, <2>4
    <3>. QED
      BY <1>3, <2>1, <2>3, <3>1
  <2>5. CASE ~(j < at)
    <3>1. j - 1 \in 1..(n - 1) /\ ~(j - 1 < at) /\ (j - 1) + 1 = j
      BY <1>1, <2>3, <2>5
    <3>2. m_queuedGroups'[j - 1] = m_queuedGroups[j]
      BY <1>3, <3>1
    <3>. QED
      BY <1>3, <2>1, <2>3, <3>1, <3>2
  <2>. QED
    BY <2>4, <2>5
<1>7. /\ slots' \in Seq(Infos) /\ SameSlots(slots', slots)
      /\ first \in Seq(ForWorld) /\ \A m \in 1..Len(first) : first[m].type = "SetInvitedCount"
  <2>1. CASE ~dec
    BY <1>1, <1>2, <2>1 DEF SameSlots
  <2>2. CASE dec
    <3>1. k \in 1..Len(slots) /\ i \in Nat /\ Team(p) \in Teams
      BY <1>1, <2>2, FirstEntry, TeamFact DEF Groups
    <3> HIDE DEF k, i
    <3>2. slots[k] \in Infos
      BY <1>1, <3>1
    <3>3. count \in 0..MaxCount
      BY <3>1, <3>2, MinusFact DEF Infos, Counts
    <3> HIDE DEF count
    <3>4. slots' \in Seq(Infos) /\ SameSlots(slots', slots)
      <4>1. slots' = [slots EXCEPT ![k].invited[Team(p)] = count]
        BY <1>2, <2>2
      <4>. QED
        BY <1>1, <3>1, <3>3, <4>1, CountChanged
    <3>5. Count(i, Team(p), count) \in ForWorld /\ Count(i, Team(p), count).type = "SetInvitedCount"
      BY <3>1, <3>3, WorldMembers DEF Count
    <3>. QED
      BY <2>2, <3>4, <3>5
  <2>. QED
    BY <2>1, <2>2
<1> HIDE DEF slots, first
<1>8. Sends(messages)
  <2> DEFINE all == first \o messages
  <2>1. /\ all \in Seq(ForWorld)
        /\ \A m \in 1..Len(all) : \/ m \in 1..Len(first) /\ all[m] = first[m]
                                  \/ m - Len(first) \in 1..Len(messages) /\ all[m] = messages[m - Len(first)]
    BY <1>7, Joined
  <2>2. toWorld' = toWorld \o all
    BY <1>1, <1>2, <1>7
  <2>3. ASSUME Len(messages) <= 1, NEW m \in 1..Len(all), NEW l \in 1..Len(all),
               all[m].type # "SetInvitedCount", all[l].type # "SetInvitedCount"
        PROVE  m = l
    <3>1. m - Len(first) \in 1..Len(messages) /\ l - Len(first) \in 1..Len(messages)
      BY <1>7, <2>1, <2>3
    <3>2. Len(first) \in Nat /\ Len(messages) \in Nat
      BY <1>7
    <3>. QED
      BY <2>3, <3>1, <3>2
  <2> HIDE DEF all
  <2>. QED
    BY <1>7, <2>1, <2>2, <2>3 DEF Sends
<1>. QED
  BY <1>2, <1>3, <1>4, <1>5, <1>6, <1>7, <1>8 DEF at, slots

\* What a step of the queue's thread must show for the state of the world's.
LEMMA WorldTypesKept ==
  ASSUME BgTypes, UNCHANGED world, QueueTypes', MessageTypes', i_MaxInstanceId <= i_MaxInstanceId'
  PROVE  BgTypes'
<1>1. /\ i_MaxInstanceId \in Nat /\ i_MaxInstanceId' \in Nat /\ WorldTypes
  BY DEF BgTypes, QueueTypes
<1>2. 1..i_MaxInstanceId \subseteq 1..i_MaxInstanceId' /\ 0..i_MaxInstanceId \subseteq 0..i_MaxInstanceId'
  BY <1>1
<1>3. /\ Created' = Created /\ m_battleGrounds' = m_battleGrounds /\ online' = online /\ away' = away
      /\ bgInstanceID' = bgInstanceID /\ m_bgBattleGroundQueueID' = m_bgBattleGroundQueueID
      /\ m_events' = m_events /\ joins' = joins
  BY DEF world, player, Created
<1>4. /\ away \in [Players -> {None} \union 0..i_MaxInstanceId']
      /\ bgInstanceID \in [Players -> 0..i_MaxInstanceId']
  BY <1>1, <1>2 DEF WorldTypes
<1>5. WorldTypes'
  BY <1>1, <1>2, <1>3, <1>4 DEF WorldTypes
<1>. QED
  BY <1>5 DEF BgTypes

\* A message that neither makes a battleground nor sends a player to one that is not known.
Plain(m) == m.type # "Create" /\ (m.type = "Enter" => m.instanceId \in Instances)

\* What a message of the queue's thread must keep, when it is not about the list of entries.
LEMMA MessageKeeps ==
  ASSUME BgTypes, Listed, UNCHANGED <<world, i_MaxInstanceId>>, toQueue # <<>>, toQueue' = Tail(toQueue),
         Received.type \notin {"AddBgToFreeSlots", "RemoveBgFromFreeSlots"},
         m_queuedGroups' \in Seq(Groups),
         \A j \in 1..Len(m_queuedGroups') : m_queuedGroups'[j].invitedTo \in 0..i_MaxInstanceId,
         m_queuedPlayers' \in [Players -> Nat \union {None}],
         m_bgFreeSlotQueue' \in Seq(Infos), SameSlots(m_bgFreeSlotQueue', m_bgFreeSlotQueue),
         m_queueUpdateScheduler' \in BOOLEAN, Grouped',
         \E all \in Seq(ForWorld) :
            /\ toWorld' = toWorld \o all
            /\ \A m \in 1..Len(all) : Plain(all[m])
  PROVE  ListInv'
<1>1. PICK all \in Seq(ForWorld) :
            /\ toWorld' = toWorld \o all
            /\ \A m \in 1..Len(all) : Plain(all[m])
  OBVIOUS
<1>2. /\ m_battleGrounds' = m_battleGrounds /\ Created' = Created /\ i_MaxInstanceId' = i_MaxInstanceId
      /\ i_MaxInstanceId \in Nat /\ toWorld \in Seq(ForWorld) /\ InQueue /\ OnItsWay
  BY DEF world, Created, BgTypes, QueueTypes, MessageTypes, Listed
<1>3. InQueue'
  BY <1>2, InQueuePopped
<1>4. OnItsWay'
  BY <1>1, <1>2, OnItsWaySent DEF Plain
<1>5. toQueue' \in Seq(ForQueue)
  BY QueuePopped
<1>6. toWorld' \in Seq(ForWorld)
  BY <1>1, <1>2
<1>7. QueueTypes' /\ MessageTypes'
  BY <1>2, <1>5, <1>6 DEF QueueTypes, MessageTypes
<1>8. BgTypes'
  BY <1>2, <1>7, WorldTypesKept
<1>. QED
  BY <1>3, <1>4, <1>8 DEF ListInv, Listed

\* A single message, as a sequence.
LEMMA OneMessage ==
  ASSUME NEW m \in ForWorld, Plain(m)
  PROVE  <<m>> \in Seq(ForWorld) /\ \A k \in 1..Len(<<m>>) : Plain(<<m>>[k])
<1>1. <<m>> \in Seq(ForWorld) /\ Len(<<m>>) = 1 /\ <<m>>[1] = m
  OBVIOUS
<1>. QED
  BY <1>1

\* A player joins the queue.
LEMMA AddGroupStep ==
  ASSUME ListInv, AddGroup, UNCHANGED i_MaxInstanceId
  PROVE  ListInv'
<1> DEFINE p == Received.player
           g == [number |-> Received.number, player |-> p, invitedTo |-> 0]
           n == Len(m_queuedGroups)
<1>1. /\ BgTypes /\ Listed /\ Grouped /\ InQueue /\ m_queuedGroups \in Seq(Groups) /\ n \in Nat
      /\ m_queuedPlayers \in [Players -> Nat \union {None}] /\ i_MaxInstanceId \in Nat
      /\ m_bgFreeSlotQueue \in Seq(Infos) /\ toWorld \in Seq(ForWorld)
  BY DEF ListInv, Listed, BgTypes, QueueTypes, MessageTypes
<1>2. /\ toQueue # <<>> /\ toQueue' = Tail(toQueue) /\ Received.type = "AddGroup"
      /\ m_queuedGroups' = Append(m_queuedGroups, g)
      /\ m_queuedPlayers' = [m_queuedPlayers EXCEPT ![p] = Received.number]
      /\ toWorld' = Append(toWorld, [type |-> "Queued", player |-> p])
      /\ m_queueUpdateScheduler' = TRUE /\ m_bgFreeSlotQueue' = m_bgFreeSlotQueue /\ UNCHANGED world
  BY DEF AddGroup, ToQueue, Received
<1>3. Received \in ForQueue
  BY <1>1, <1>2, QueuePopped DEF Received
<1>4. p \in Players /\ Received.number \in Nat
  BY <1>2, <1>3, QueueKinds
<1>5. g \in Groups /\ g.player = p /\ g.number = Received.number /\ g.invitedTo = 0
  BY <1>4 DEF Groups
<1> HIDE DEF g
<1>6. /\ m_queuedGroups' \in Seq(Groups) /\ Len(m_queuedGroups') = n + 1
      /\ m_queuedGroups'[n + 1] = g /\ \A j \in 1..n : m_queuedGroups'[j] = m_queuedGroups[j]
  BY <1>1, <1>2, <1>5
<1>7. \A j \in 1..Len(m_queuedGroups') : m_queuedGroups'[j].invitedTo \in 0..i_MaxInstanceId
  <2> TAKE j \in 1..Len(m_queuedGroups')
  <2>1. CASE j \in 1..n
    BY <1>1, <1>6, <2>1 DEF InQueue
  <2>2. CASE j = n + 1
    BY <1>1, <1>5, <1>6, <2>2
  <2>. QED
    BY <1>1, <1>6, <2>1, <2>2
<1>8. Grouped'
  <2> SUFFICES ASSUME NEW q \in Players, m_queuedPlayers'[q] # None
               PROVE  \E j \in Nat : /\ j \in 1..Len(m_queuedGroups') /\ m_queuedGroups'[j].player = q
                                     /\ m_queuedGroups'[j].number = m_queuedPlayers'[q]
    BY DEF Grouped, HasGroup
  <2>1. CASE q = p
    <3>1. m_queuedPlayers'[q] = Received.number
      BY <1>1, <1>2, <2>1
    <3>2. n + 1 \in Nat /\ n + 1 \in 1..Len(m_queuedGroups')
      BY <1>1, <1>6
    <3>. QED
      BY <1>5, <1>6, <2>1, <3>1, <3>2
  <2>2. CASE q # p
    <3>1. m_queuedPlayers'[q] = m_queuedPlayers[q]
      BY <1>1, <1>2, <2>2
    <3>2. PICK j \in Nat : HasGroup(j, q, m_queuedPlayers[q])
      BY <1>1, <3>1 DEF Grouped
    <3>3. j \in 1..n /\ j \in 1..Len(m_queuedGroups')
      BY <1>1, <1>6, <3>2 DEF HasGroup
    <3>. QED
      BY <1>6, <3>1, <3>2, <3>3 DEF HasGroup
  <2>. QED
    BY <2>1, <2>2
<1>9. m_queuedPlayers' \in [Players -> Nat \union {None}]
  BY <1>1, <1>2, <1>4
<1>10. \E all \in Seq(ForWorld) :
            /\ toWorld' = toWorld \o all
            /\ \A m \in 1..Len(all) : Plain(all[m])
  <2> DEFINE m == [type |-> "Queued", player |-> p]
  <2>1. m \in ForWorld /\ m.type = "Queued"
    BY <1>4, WorldMembers
  <2> HIDE DEF m
  <2>2. toWorld' = toWorld \o <<m>>
    BY <1>1, <1>2, <2>1 DEF m
  <2>3. Plain(m)
    BY <2>1 DEF Plain
  <2>. QED
    BY <2>1, <2>2, <2>3, OneMessage
<1>11. SameSlots(m_bgFreeSlotQueue', m_bgFreeSlotQueue)
  BY <1>2 DEF SameSlots
<1> HIDE DEF n, p
<1>. QED
  BY <1>1, <1>2, <1>6, <1>7, <1>8, <1>9, <1>10, <1>11, MessageKeeps

\* A player is taken out of the queue by one of the messages.
LEMMA RemoveStep ==
  ASSUME ListInv, UNCHANGED <<world, i_MaxInstanceId>>, toQueue # <<>>, toQueue' = Tail(toQueue),
         Received.type \in {"Port", "LoggedOut", "Expired"}, m_queueUpdateScheduler' \in BOOLEAN,
         m_queuedPlayers[Received.player] # None,
         NEW decrease \in BOOLEAN, NEW messages \in Seq(ForWorld), RemovePlayer(Received.player, decrease, messages),
         \A m \in 1..Len(messages) : Plain(messages[m])
  PROVE  ListInv'
<1> DEFINE p == Received.player
<1>1. BgTypes /\ Listed /\ Grouped /\ InQueue
  BY DEF ListInv, Listed
<1>2. Received \in ForQueue
  BY <1>1, QueuePopped DEF Received
<1>3. p \in Players
  BY <1>2, QueueKinds
<1> HIDE DEF p
<1>4. /\ m_queuedGroups' \in Seq(Groups)
      /\ \A j \in 1..Len(m_queuedGroups') : m_queuedGroups'[j].invitedTo \in 0..i_MaxInstanceId
      /\ m_queuedPlayers' \in [Players -> Nat \union {None}]
      /\ Grouped'
      /\ m_bgFreeSlotQueue' \in Seq(Infos) /\ SameSlots(m_bgFreeSlotQueue', m_bgFreeSlotQueue)
      /\ Sends(messages)
  <2>1. m_queuedPlayers[p] # None /\ RemovePlayer(p, decrease, messages)
    BY DEF p
  <2>. QED
    BY <1>1, <1>3, <2>1, RemovePlayerFact
<1>5. \E all \in Seq(ForWorld) :
            /\ toWorld' = toWorld \o all
            /\ \A m \in 1..Len(all) : Plain(all[m])
  <2>1. PICK all \in Seq(ForWorld) :
            /\ toWorld' = toWorld \o all
            /\ \A m \in 1..Len(all) : all[m].type = "SetInvitedCount" \/ \E l \in 1..Len(messages) : all[m] = messages[l]
    BY <1>4 DEF Sends
  <2>2. \A m \in 1..Len(all) : Plain(all[m])
    <3> TAKE m \in 1..Len(all)
    <3>1. CASE all[m].type = "SetInvitedCount"
      BY <3>1 DEF Plain
    <3>2. CASE \E l \in 1..Len(messages) : all[m] = messages[l]
      BY <3>2
    <3>. QED
      BY <2>1, <3>1, <3>2
  <2>. QED
    BY <2>1, <2>2
<1>. QED
  BY <1>1, <1>4, <1>5, MessageKeeps

\* A message that only changes the schedule or counts and states of the entries.
LEMMA SlotStep ==
  ASSUME ListInv, UNCHANGED <<m_queuedGroups, m_queuedPlayers, world, i_MaxInstanceId>>,
         toQueue # <<>>, toQueue' = Tail(toQueue),
         Received.type \notin {"AddBgToFreeSlots", "RemoveBgFromFreeSlots"}, m_queueUpdateScheduler' \in BOOLEAN,
         m_bgFreeSlotQueue' \in Seq(Infos), SameSlots(m_bgFreeSlotQueue', m_bgFreeSlotQueue),
         toWorld' = toWorld \/ \E m \in ForWorld : m.type = "SetInvitedCount" /\ toWorld' = Append(toWorld, m)
  PROVE  ListInv'
<1>1. /\ BgTypes /\ Listed /\ Grouped /\ InQueue /\ toWorld \in Seq(ForWorld)
      /\ m_queuedGroups' \in Seq(Groups) /\ m_queuedPlayers' \in [Players -> Nat \union {None}]
  BY DEF ListInv, Listed, BgTypes, QueueTypes, MessageTypes
<1>2. \A j \in 1..Len(m_queuedGroups') : m_queuedGroups'[j].invitedTo \in 0..i_MaxInstanceId
  BY <1>1 DEF InQueue
<1>3. Grouped'
  BY <1>1 DEF Grouped, HasGroup
<1>4. \E all \in Seq(ForWorld) :
            /\ toWorld' = toWorld \o all
            /\ \A m \in 1..Len(all) : Plain(all[m])
  <2>1. CASE toWorld' = toWorld
    <3>1. toWorld' = toWorld \o <<>> /\ <<>> \in Seq(ForWorld) /\ Len(<<>>) = 0
      BY <1>1, <2>1
    <3>2. \A m \in 1..Len(<<>>) : Plain(<<>>[m])
      BY <3>1
    <3>. QED
      BY <3>1, <3>2
  <2>2. CASE \E m \in ForWorld : m.type = "SetInvitedCount" /\ toWorld' = Append(toWorld, m)
    <3>1. PICK m \in ForWorld : m.type = "SetInvitedCount" /\ toWorld' = Append(toWorld, m)
      BY <2>2
    <3>2. toWorld' = toWorld \o <<m>>
      BY <1>1, <3>1
    <3>3. Plain(m)
      BY <3>1 DEF Plain
    <3>. QED
      BY <3>1, <3>2, <3>3, OneMessage
  <2>. QED
    BY <2>1, <2>2
<1>. QED
  BY <1>1, <1>2, <1>3, <1>4, MessageKeeps

\* A player answers an invitation, or leaves the queue.
LEMMA PortStep ==
  ASSUME ListInv, PortRefused \/ PortEnter \/ PortLeave, UNCHANGED i_MaxInstanceId
  PROVE  ListInv'
<1>1. /\ BgTypes /\ Listed /\ Grouped /\ InQueue /\ m_bgFreeSlotQueue \in Seq(Infos)
      /\ m_queueUpdateScheduler \in BOOLEAN /\ i_MaxInstanceId \in Nat
  BY DEF ListInv, Listed, BgTypes, QueueTypes
<1>2. /\ toQueue # <<>> /\ toQueue' = Tail(toQueue) /\ Received.type = "Port" /\ UNCHANGED world
  BY DEF PortRefused, PortEnter, PortLeave, ToQueue, Received
<1>3. Received \in ForQueue
  BY <1>1, <1>2, QueuePopped DEF Received
<1>4. Received.player \in Players
  BY <1>2, <1>3, QueueKinds
<1>5. CASE PortRefused
  <2>1. SameSlots(m_bgFreeSlotQueue', m_bgFreeSlotQueue)
    BY <1>5 DEF PortRefused, queue, SameSlots
  <2>. QED
    BY <1>1, <1>2, <1>5, <2>1, SlotStep DEF PortRefused, queue
<1>6. CASE PortEnter
  <2> DEFINE p == Received.player
             i == Group(p).invitedTo
             m == [type |-> "Enter", player |-> p, instanceId |-> i]
  <2>1. m_queuedPlayers[p] # None /\ i # 0 /\ RemovePlayer(p, FALSE, <<m>>) /\ m_queueUpdateScheduler' \in BOOLEAN
    BY <1>1, <1>6 DEF PortEnter, IsInvited
  <2>2. i \in Instances /\ i \in Nat
    <3>1. Place(p) \in 1..Len(m_queuedGroups)
      BY <1>1, <1>4, <2>1, PlaceFact
    <3>2. i \in 0..i_MaxInstanceId
      BY <1>1, <3>1 DEF InQueue, Group
    <3>. QED
      BY <1>1, <2>1, <3>2 DEF Instances
  <2>3. m \in ForWorld /\ Plain(m)
    BY <1>4, <2>2, WorldMembers DEF Plain
  <2> HIDE DEF m, i
  <2>4. <<m>> \in Seq(ForWorld) /\ \A k \in 1..Len(<<m>>) : Plain(<<m>>[k])
    BY <2>3, OneMessage
  <2>5. FALSE \in BOOLEAN /\ Received.type \in {"Port", "LoggedOut", "Expired"}
    BY <1>2
  <2> DEFINE ms == <<m>>
  <2> HIDE DEF ms
  <2>6. ms \in Seq(ForWorld) /\ (\A k \in 1..Len(ms) : Plain(ms[k])) /\ RemovePlayer(p, FALSE, ms)
    BY <2>1, <2>4 DEF ms
  <2>. QED
    BY <1>2, <2>1, <2>5, <2>6, RemoveStep
<1>7. CASE PortLeave
  <2> DEFINE p == Received.player
             m == [type |-> "Left", player |-> p]
  <2>1. m_queuedPlayers[p] # None /\ RemovePlayer(p, TRUE, <<m>>) /\ m_queueUpdateScheduler' \in BOOLEAN
    BY <1>1, <1>7 DEF PortLeave
  <2>3. m \in ForWorld /\ Plain(m)
    BY <1>4, WorldMembers DEF Plain
  <2> HIDE DEF m
  <2>4. <<m>> \in Seq(ForWorld) /\ \A k \in 1..Len(<<m>>) : Plain(<<m>>[k])
    BY <2>3, OneMessage
  <2>5. TRUE \in BOOLEAN /\ Received.type \in {"Port", "LoggedOut", "Expired"}
    BY <1>2
  <2> DEFINE ms == <<m>>
  <2> HIDE DEF ms
  <2>6. ms \in Seq(ForWorld) /\ (\A k \in 1..Len(ms) : Plain(ms[k])) /\ RemovePlayer(p, TRUE, ms)
    BY <2>1, <2>4 DEF ms
  <2>. QED
    BY <1>2, <2>1, <2>5, <2>6, RemoveStep
<1>. QED
  BY <1>5, <1>6, <1>7

\* The queue learns of a logout.
LEMMA LoggedOutStep ==
  ASSUME ListInv, LoggedOut, UNCHANGED i_MaxInstanceId
  PROVE  ListInv'
<1>1. /\ BgTypes /\ Listed /\ Grouped /\ InQueue /\ m_bgFreeSlotQueue \in Seq(Infos)
      /\ m_queueUpdateScheduler \in BOOLEAN
  BY DEF ListInv, Listed, BgTypes, QueueTypes
<1>2. /\ toQueue # <<>> /\ toQueue' = Tail(toQueue) /\ Received.type = "LoggedOut" /\ UNCHANGED world
  BY DEF LoggedOut, ToQueue, Received
<1>3. CASE m_queuedPlayers[Received.player] = None
  <2>1. UNCHANGED <<queue, toWorld>>
    BY <1>3 DEF LoggedOut
  <2>2. SameSlots(m_bgFreeSlotQueue', m_bgFreeSlotQueue)
    BY <2>1 DEF queue, SameSlots
  <2>. QED
    BY <1>1, <1>2, <2>1, <2>2, SlotStep DEF queue
<1>4. CASE m_queuedPlayers[Received.player] # None
  <2> DEFINE ms == <<>>
  <2>1. RemovePlayer(Received.player, TRUE, ms) /\ m_queueUpdateScheduler' \in BOOLEAN
    BY <1>1, <1>4 DEF LoggedOut
  <2>2. ms \in Seq(ForWorld) /\ \A k \in 1..Len(ms) : Plain(ms[k])
    OBVIOUS
  <2>3. TRUE \in BOOLEAN /\ Received.type \in {"Port", "LoggedOut", "Expired"}
    BY <1>2
  <2> HIDE DEF ms
  <2>. QED
    BY <1>2, <1>4, <2>1, <2>2, <2>3, RemoveStep
<1>. QED
  BY <1>3, <1>4

\* An invitation expires.
LEMMA ExpiredStep ==
  ASSUME ListInv, Expired, UNCHANGED i_MaxInstanceId
  PROVE  ListInv'
<1>1. /\ BgTypes /\ Listed /\ Grouped /\ InQueue /\ m_bgFreeSlotQueue \in Seq(Infos)
      /\ m_queueUpdateScheduler \in BOOLEAN
  BY DEF ListInv, Listed, BgTypes, QueueTypes
<1>2. /\ toQueue # <<>> /\ toQueue' = Tail(toQueue) /\ Received.type = "Expired" /\ UNCHANGED world
  BY DEF Expired, ToQueue, Received
<1>3. Received \in ForQueue
  BY <1>1, <1>2, QueuePopped DEF Received
<1>4. Received.player \in Players /\ Received.running \in BOOLEAN
  BY <1>2, <1>3, QueueKinds
<1> DEFINE due == IsPlayerInvited(Received.player, Received.instanceId, Received.removeInviteTime)
<1>5. CASE ~due
  <2>1. UNCHANGED <<queue, toWorld>>
    BY <1>5 DEF Expired
  <2>2. SameSlots(m_bgFreeSlotQueue', m_bgFreeSlotQueue)
    BY <2>1 DEF queue, SameSlots
  <2>. QED
    BY <1>1, <1>2, <2>1, <2>2, SlotStep DEF queue
<1>6. CASE due
  <2> DEFINE p == Received.player
             m == [type |-> "Left", player |-> p]
  <2>1. m_queuedPlayers[p] # None /\ RemovePlayer(p, TRUE, <<m>>) /\ m_queueUpdateScheduler' \in BOOLEAN
    BY <1>1, <1>4, <1>6 DEF Expired, IsPlayerInvited, IsInvited
  <2>3. m \in ForWorld /\ Plain(m)
    BY <1>4, WorldMembers DEF Plain
  <2> HIDE DEF m
  <2>4. <<m>> \in Seq(ForWorld) /\ \A k \in 1..Len(<<m>>) : Plain(<<m>>[k])
    BY <2>3, OneMessage
  <2>5. TRUE \in BOOLEAN /\ Received.type \in {"Port", "LoggedOut", "Expired"}
    BY <1>2
  <2> DEFINE ms == <<m>>
  <2> HIDE DEF ms
  <2>6. ms \in Seq(ForWorld) /\ (\A k \in 1..Len(ms) : Plain(ms[k])) /\ RemovePlayer(p, TRUE, ms)
    BY <2>1, <2>4 DEF ms
  <2>. QED
    BY <1>2, <2>1, <2>5, <2>6, RemoveStep
<1>. QED
  BY <1>5, <1>6

\* The queue is told of a battleground it has on its list.
LEMMA EntryStep ==
  ASSUME ListInv, SetStatusInQueue \/ DecreaseInvitedCount \/ ScheduleQueueUpdate, UNCHANGED i_MaxInstanceId
  PROVE  ListInv'
<1> DEFINE slots == m_bgFreeSlotQueue
<1>1. /\ BgTypes /\ Listed /\ Grouped /\ InQueue /\ slots \in Seq(Infos)
      /\ m_queueUpdateScheduler \in BOOLEAN
  BY DEF ListInv, Listed, BgTypes, QueueTypes
<1>2. /\ toQueue # <<>> /\ toQueue' = Tail(toQueue) /\ UNCHANGED <<m_queuedGroups, m_queuedPlayers, world>>
      /\ Received.type \notin {"AddBgToFreeSlots", "RemoveBgFromFreeSlots"}
      /\ m_queueUpdateScheduler' \in BOOLEAN
  BY <1>1 DEF SetStatusInQueue, DecreaseInvitedCount, ScheduleQueueUpdate, ToQueue, Received
<1>3. Received \in ForQueue
  BY <1>1, <1>2, QueuePopped DEF Received
<1>4. /\ slots' \in Seq(Infos) /\ SameSlots(slots', slots)
      /\ toWorld' = toWorld \/ \E m \in ForWorld : m.type = "SetInvitedCount" /\ toWorld' = Append(toWorld, m)
  <2>1. CASE ScheduleQueueUpdate
    BY <1>1, <2>1 DEF ScheduleQueueUpdate, SameSlots
  <2>2. CASE SetStatusInQueue
    <3>1. Received.status \in Statuses
      BY <1>3, <2>2, QueueKinds DEF SetStatusInQueue, ToQueue, Received
    <3> DEFINE c(k) == Entries(slots, Received.instanceId) # {} /\ k = GetFreeSlotInstance(slots, Received.instanceId)
               new(k) == IF c(k) THEN [slots[k] EXCEPT !.status = Received.status] ELSE slots[k]
    <3>2. slots' = [k \in 1..Len(slots) |-> new(k)] /\ toWorld' = toWorld
      BY <1>1, <2>2 DEF SetStatusInQueue
    <3> HIDE DEF c
    <3>3. \A k \in 1..Len(slots) : new(k) \in Infos /\ new(k).instanceId = slots[k].instanceId
                                  /\ new(k).playersInside = slots[k].playersInside
      <4> TAKE k \in 1..Len(slots)
      <4>1. slots[k] \in Infos
        BY <1>1
      <4>. QED
        BY <3>1, <4>1 DEF Infos
    <3> HIDE DEF new
    <3>4. slots' \in Seq(Infos) /\ Len(slots') = Len(slots) /\ \A k \in 1..Len(slots) : slots'[k] = new(k)
      BY <1>1, <3>2, <3>3
    <3>. QED
      BY <3>2, <3>3, <3>4 DEF SameSlots
  <2>3. CASE DecreaseInvitedCount
    <3> DEFINE i == Received.instanceId
               k == GetFreeSlotInstance(slots, i)
               t == Received.team
               count == Minus(slots[k].invited[t])
    <3>1. CASE Entries(slots, i) = {}
      BY <1>1, <2>3, <3>1 DEF DecreaseInvitedCount, SameSlots
    <3>2. CASE Entries(slots, i) # {}
      <4>1. i \in Nat /\ t \in Teams
        BY <1>3, <2>3, QueueKinds DEF DecreaseInvitedCount, ToQueue, Received
      <4>2. slots' = [slots EXCEPT ![k].invited[t] = count] /\ toWorld' = Append(toWorld, Count(i, t, count))
        BY <2>3, <3>2 DEF DecreaseInvitedCount
      <4>3. k \in 1..Len(slots)
        BY <1>1, <3>2, FirstEntry
      <4> HIDE DEF k, i, t
      <4>4. slots[k] \in Infos
        BY <1>1, <4>3
      <4>5. count \in 0..MaxCount
        BY <4>1, <4>4, MinusFact DEF Infos, Counts
      <4> HIDE DEF count
      <4>6. slots' \in Seq(Infos) /\ SameSlots(slots', slots)
        BY <1>1, <4>1, <4>2, <4>3, <4>5, CountChanged
      <4>7. Count(i, t, count) \in ForWorld /\ Count(i, t, count).type = "SetInvitedCount"
        BY <4>1, <4>5, WorldMembers DEF Count
      <4>. QED
        BY <4>2, <4>6, <4>7
    <3>. QED
      BY <3>1, <3>2
  <2>. QED
    BY <2>1, <2>2, <2>3
<1>. QED
  BY <1>2, <1>4, SlotStep

\* The queue puts a battleground on its list, or takes it off.
LEMMA ListStep ==
  ASSUME ListInv, AddBgToFreeSlots \/ RemoveBgFromFreeSlots, UNCHANGED i_MaxInstanceId
  PROVE  ListInv'
<1>1. /\ BgTypes /\ Listed /\ Grouped /\ InQueue /\ OnItsWay /\ toWorld \in Seq(ForWorld) /\ i_MaxInstanceId \in Nat
      /\ m_bgFreeSlotQueue \in Seq(Infos)
  BY DEF ListInv, Listed, BgTypes, QueueTypes, MessageTypes
<1>2. /\ toQueue # <<>> /\ toQueue' = Tail(toQueue)
      /\ UNCHANGED <<m_queuedGroups, m_queuedPlayers, m_queueUpdateScheduler, world, toWorld>>
  BY DEF AddBgToFreeSlots, RemoveBgFromFreeSlots, ToQueue
<1>3. Head(toQueue) \in ForQueue /\ toQueue' \in Seq(ForQueue)
  BY <1>1, <1>2, QueuePopped
<1>4. m_bgFreeSlotQueue' \in Seq(Infos) /\ InQueue'
  <2>1. CASE AddBgToFreeSlots
    <3>1. Received.info \in Infos
      BY <1>3, <2>1, QueueKinds DEF AddBgToFreeSlots, ToQueue, Received
    <3>2. m_bgFreeSlotQueue' \in Seq(Infos)
      BY <1>1, <2>1, <3>1 DEF AddBgToFreeSlots
    <3>. QED
      BY <1>1, <2>1, <3>2, InQueueAdded
  <2>2. CASE RemoveBgFromFreeSlots
    BY <1>1, <2>2, InQueueRemoved
  <2>. QED
    BY <2>1, <2>2
<1>5. QueueTypes' /\ MessageTypes'
  BY <1>1, <1>2, <1>3, <1>4 DEF QueueTypes, MessageTypes, BgTypes
<1>6. BgTypes'
  BY <1>1, <1>2, <1>5, WorldTypesKept
<1>7. OnItsWay'
  <2>1. Created' = Created /\ Instances' = Instances
    BY <1>2 DEF world, Created, Instances
  <2>. QED
    BY <1>1, <1>2, <2>1 DEF OnItsWay, Creates, Enters, Tells
<1>8. Grouped'
  BY <1>1, <1>2 DEF Grouped, HasGroup
<1>. QED
  BY <1>4, <1>6, <1>7, <1>8 DEF ListInv, Listed

\* The queue is updated.
LEMMA UpdateStep ==
  ASSUME ListInv, Update
  PROVE  ListInv'
<1>1. /\ BgTypes /\ Listed /\ Grouped /\ i_MaxInstanceId \in Nat /\ toQueue \in Seq(ForQueue)
      /\ m_queuedPlayers \in [Players -> Nat \union {None}] /\ m_queuedGroups \in Seq(Groups)
  BY DEF ListInv, BgTypes, QueueTypes, MessageTypes
<1>2. Single(m_bgFreeSlotQueue, {}) /\ Bounded(m_bgFreeSlotQueue, m_queuedGroups, {})
  BY DEF Single, Bounded
<1>3. Updated({})
  BY <1>1, <1>2, UpdateFact
<1>4. UNCHANGED <<m_queuedPlayers, toQueue, world>> /\ m_queueUpdateScheduler' = FALSE
  BY DEF Update
<1>5. /\ Listed' /\ m_queuedGroups' \in Seq(Groups) /\ m_bgFreeSlotQueue' \in Seq(Infos)
      /\ i_MaxInstanceId' \in {i_MaxInstanceId, i_MaxInstanceId + 1} /\ toWorld' \in Seq(ForWorld)
      /\ SameGroups(m_queuedGroups', m_queuedGroups)
  BY <1>1, <1>3, <1>4, ListedUpdated
<1>6. i_MaxInstanceId' \in Nat /\ i_MaxInstanceId <= i_MaxInstanceId'
  BY <1>1, <1>5
<1>7. QueueTypes' /\ MessageTypes'
  BY <1>1, <1>4, <1>5, <1>6 DEF QueueTypes, MessageTypes
<1>8. BgTypes'
  BY <1>1, <1>4, <1>6, <1>7, WorldTypesKept
<1>9. Grouped'
  BY <1>1, <1>4, <1>5 DEF Grouped, HasGroup, SameGroups
<1>. QED
  BY <1>5, <1>8, <1>9 DEF ListInv

\* No battleground is put on the list or taken off.
FlagsKept == /\ \A i \in Created' : m_battleGrounds'[i].m_hasBgFreeSlotQueue =>
                   i \in Created /\ m_battleGrounds[i].m_hasBgFreeSlotQueue
             /\ \A i : Ended(i) => Ended(i)'

\* What a step of the world's thread must keep.
LEMMA WorldKeeps ==
  ASSUME ListInv, UNCHANGED queue, WorldTypes', toWorld' \in Seq(ForWorld), OnItsWay',
         NEW messages \in Seq(ForQueue), toQueue' = toQueue \o messages,
         \A m \in 1..Len(messages) : messages[m].type \notin {"AddBgToFreeSlots", "RemoveBgFromFreeSlots"},
         FlagsKept
  PROVE  ListInv'
<1>1. /\ BgTypes /\ InQueue /\ Grouped /\ toQueue \in Seq(ForQueue)
      /\ UNCHANGED <<m_queuedGroups, m_bgFreeSlotQueue, i_MaxInstanceId, m_queuedPlayers, m_queueUpdateScheduler>>
  BY DEF ListInv, Listed, queue, BgTypes, MessageTypes
<1>2. InQueue'
  <2>1. \A i \in Created' : m_battleGrounds'[i].m_hasBgFreeSlotQueue =>
            \/ i \in Created /\ m_battleGrounds[i].m_hasBgFreeSlotQueue
            \/ \E m \in 1..Len(messages) : messages[m].type = "AddBgToFreeSlots" /\ messages[m].info.instanceId = i
    BY DEF FlagsKept
  <2>2. \A i : Ended(i) => Ended(i)'
    BY DEF FlagsKept
  <2>3. /\ \A m \in 1..Len(messages) : messages[m].type # "AddBgToFreeSlots"
        /\ \A m \in 1..Len(messages) : messages[m].type # "RemoveBgFromFreeSlots"
    OBVIOUS
  <2>. QED
    BY <1>1, <2>1, <2>2, <2>3, InQueueSent
<1>3. QueueTypes' /\ MessageTypes'
  BY <1>1 DEF BgTypes, QueueTypes, MessageTypes
<1>4. Grouped'
  BY <1>1 DEF Grouped, HasGroup
<1>. QED
  BY <1>2, <1>3, <1>4 DEF ListInv, BgTypes, Listed

\* A battleground changes.
LEMMA BattleChanged ==
  ASSUME BgTypes, NEW i \in Created, NEW b \in Battles, m_battleGrounds' = [m_battleGrounds EXCEPT ![i] = b]
  PROVE  /\ Created' = Created /\ m_battleGrounds' \in [Created' -> Battles]
         /\ \A j \in Created : m_battleGrounds'[j] = IF j = i THEN b ELSE m_battleGrounds[j]
BY DEF BgTypes, WorldTypes, Created

\* A change that puts no battleground on the list keeps the flags.
LEMMA BattleFlag ==
  ASSUME BgTypes, NEW i \in Created, NEW b \in Battles, m_battleGrounds' = [m_battleGrounds EXCEPT ![i] = b],
         b.m_hasBgFreeSlotQueue => m_battleGrounds[i].m_hasBgFreeSlotQueue,
         b.status = m_battleGrounds[i].status \/ b.status \in {"wait_leave", "deleted"}
            \/ m_battleGrounds[i].status \notin {"wait_leave", "deleted"}
  PROVE  FlagsKept
<1>1. /\ Created' = Created /\ \A j \in Created : m_battleGrounds'[j] = IF j = i THEN b ELSE m_battleGrounds[j]
  BY BattleChanged
<1>. QED
  BY <1>1 DEF FlagsKept, Ended

\* The sequence of no messages.
LEMMA NothingSent ==
  ASSUME NEW S
  PROVE  /\ <<>> \in Seq(S) /\ \A s \in Seq(S) : s \o <<>> = s
         /\ \A m \in 1..Len(<<>>) : FALSE
OBVIOUS

\* Messages of the world to itself are executed.
LEMMA WorldMessageTypes ==
  ASSUME BgTypes, Listed, toWorld # <<>>, toWorld' = Tail(toWorld), i_MaxInstanceId' = i_MaxInstanceId,
         \A i \in Created' : i \in Created \/ (Sent.type = "Create" /\ i = Sent.instanceId)
  PROVE  toWorld' \in Seq(ForWorld) /\ OnItsWay' /\ Sent \in ForWorld
BY WorldPopped, OnItsWayPopped DEF Sent, Listed

\* The world executes a message about a player.
LEMMA PlayerMessageStep ==
  ASSUME ListInv, Queued \/ Invite \/ Left \/ Enter \/ Timeout
  PROVE  ListInv'
<1>1. /\ BgTypes /\ Listed /\ OnItsWay /\ WorldTypes /\ i_MaxInstanceId \in Nat /\ toQueue \in Seq(ForQueue)
      /\ m_battleGrounds \in [Created -> Battles] /\ Created \subseteq 1..i_MaxInstanceId
  BY DEF ListInv, Listed, BgTypes, QueueTypes, MessageTypes, WorldTypes
<1>2. /\ toWorld # <<>> /\ toWorld' = Tail(toWorld) /\ m_battleGrounds' = m_battleGrounds /\ UNCHANGED queue
      /\ i_MaxInstanceId' = i_MaxInstanceId /\ Created' = Created
      /\ Sent.type \in {"Queued", "Invite", "Left", "Enter", "Timeout"}
  BY DEF Queued, Invite, Left, Enter, Timeout, ToWorld, Sent, queue, world, Created
<1>3. toWorld' \in Seq(ForWorld) /\ OnItsWay' /\ Sent \in ForWorld
  BY <1>1, <1>2, WorldMessageTypes
<1>4. Sent.player \in Players
  BY <1>2, <1>3, WorldKinds
<1>5. FlagsKept
  BY <1>2 DEF FlagsKept, Ended
<1>6. WorldTypes'
  <2>1. CASE Queued
    BY <1>1, <1>2, <1>4, <2>1 DEF Queued, WorldTypes
  <2>2. CASE Left
    BY <1>1, <1>2, <1>4, <2>2 DEF Left, WorldTypes, NotQueued
  <2>3. CASE Invite
    <3>1. Sent.instanceId \in Nat /\ Sent.removeInviteTime \in Nat
      BY <1>3, <2>3, WorldKinds DEF Invite, ToWorld, Sent
    <3> DEFINE p == Sent.player
               old == m_bgBattleGroundQueueID[p]
               new == [old EXCEPT !.invitedToInstance = IF old.in THEN Sent.instanceId ELSE old.invitedToInstance]
               event == [instanceId |-> Sent.instanceId, removeInviteTime |-> Sent.removeInviteTime]
    <3>4. old \in [in : BOOLEAN, invitedToInstance : Nat]
      BY <1>1, <1>4 DEF WorldTypes
    <3>5. event \in Timers
      BY <3>1 DEF Timers
    <3>6. new \in [in : BOOLEAN, invitedToInstance : Nat]
      <4> HIDE DEF old
      <4>. QED
        BY <3>1, <3>4
    <3>7. \/ UNCHANGED <<m_bgBattleGroundQueueID, m_events>>
          \/ /\ m_bgBattleGroundQueueID' = [m_bgBattleGroundQueueID EXCEPT ![p] = new]
             /\ m_events' = [m_events EXCEPT ![p] = m_events[p] \union {event}]
      BY <2>3 DEF Invite
    <3> HIDE DEF p, new, event
    <3>8. m_events[p] \union {event} \in SUBSET Timers
      BY <1>1, <1>4, <3>5 DEF WorldTypes, p
    <3>2. m_bgBattleGroundQueueID' \in [Players -> [in : BOOLEAN, invitedToInstance : Nat]]
      BY <1>1, <1>4, <3>6, <3>7 DEF WorldTypes
    <3>3. m_events' \in [Players -> SUBSET Timers]
      BY <1>1, <1>4, <3>7, <3>8 DEF WorldTypes
    <3>. QED
      BY <1>1, <1>2, <2>3, <3>2, <3>3 DEF Invite, WorldTypes
  <2>4. CASE Enter
    <3>1. Enters(1, Sent.player)
      BY <1>1, <1>2, <2>4, WorldPopped DEF Enter, ToWorld, Sent, Enters, Tells
    <3>2. Sent.instanceId \in Instances
      BY <1>1, <1>2, <1>4, <3>1, WorldPopped DEF OnItsWay, Sent
    <3>3. Sent.instanceId \in 0..i_MaxInstanceId
      BY <1>1, <3>2 DEF Instances
    <3>. QED
      BY <1>1, <1>2, <1>4, <2>4, <3>3 DEF Enter, WorldTypes
  <2>5. CASE Timeout
    BY <1>1, <1>2, <2>5 DEF Timeout, WorldTypes, world, player
  <2>. QED
    BY <2>1, <2>2, <2>3, <2>4, <2>5
<1>7. \E messages \in Seq(ForQueue) :
         /\ toQueue' = toQueue \o messages
         /\ \A m \in 1..Len(messages) : messages[m].type \notin {"AddBgToFreeSlots", "RemoveBgFromFreeSlots"}
  <2>1. CASE toQueue' = toQueue
    BY <1>1, <2>1, NothingSent
  <2>2. CASE Timeout
    <3> DEFINE p == Sent.player
               i == Sent.instanceId
               run == Exists(i) /\ Status(i) # "wait_leave"
               m == [type |-> "Expired", player |-> p, instanceId |-> i, removeInviteTime |-> Sent.removeInviteTime,
                     running |-> run]
    <3>1. toQueue' = toQueue \o <<m>> \/ toQueue' = toQueue \o <<>>
      BY <2>2 DEF Timeout, Send
    <3>2. i \in Nat /\ Sent.removeInviteTime \in Nat
      BY <1>3, <2>2, WorldKinds DEF Timeout, ToWorld, Sent
    <3>3. run \in BOOLEAN
      OBVIOUS
    <3> HIDE DEF run
    <3>4. m \in ForQueue /\ m.type = "Expired"
      BY <1>4, <3>2, <3>3, QueueMembers
    <3> HIDE DEF m
    <3>5. <<m>> \in Seq(ForQueue) /\ \A k \in 1..Len(<<m>>) : <<m>>[k].type = "Expired"
      BY <3>4
    <3>. QED
      BY <3>1, <3>5, NothingSent
  <2>. QED
    BY <2>1, <2>2 DEF Queued, Invite, Left, Enter
<1>. QED
  BY <1>2, <1>3, <1>5, <1>6, <1>7, WorldKeeps

\* A battleground but for the players it counts.
SameBattle(j) == /\ m_battleGrounds'[j].status = m_battleGrounds[j].status
                 /\ m_battleGrounds'[j].players = m_battleGrounds[j].players
                 /\ m_battleGrounds'[j].m_hasBgFreeSlotQueue = m_battleGrounds[j].m_hasBgFreeSlotQueue

\* The count is all that changes when the world is told how many are invited.
LEMMA CountFact ==
  ASSUME BgTypes, SetInvitedCount
  PROVE  /\ Created' = Created /\ m_battleGrounds' \in [Created' -> Battles]
         /\ \A j \in Created : SameBattle(j)
<1> DEFINE i == Sent.instanceId
           t == Sent.team
           c == Sent.count
<1>1. m_battleGrounds \in [Created -> Battles]
  BY DEF BgTypes, WorldTypes
<1>2. toWorld # <<>> /\ toWorld' = Tail(toWorld) /\ Sent.type = "SetInvitedCount"
  BY DEF SetInvitedCount, ToWorld, Sent
<1>3. CASE ~Exists(i)
  <2>1. m_battleGrounds' = m_battleGrounds
    BY <1>3 DEF SetInvitedCount
  <2>. QED
    BY <1>1, <2>1 DEF Created, SameBattle
<1>4. CASE Exists(i)
  <2> DEFINE old == m_battleGrounds[i]
             invited == [old.invited EXCEPT ![t] = c]
             new == [old EXCEPT !.invited = invited]
  <2>1. i \in Created
    BY <1>4 DEF Exists, Status
  <2>2. old \in Battles /\ old.invited \in Counts
    BY <1>1, <2>1 DEF Battles
  <2>3. t \in Teams /\ c \in 0..MaxCount
    <3>1. Sent \in ForWorld
      BY <1>2, WorldPopped DEF Sent
    <3>. QED
      BY <1>2, <3>1, WorldKinds
  <2>4. m_battleGrounds' = [m_battleGrounds EXCEPT ![i] = new]
    BY <1>4 DEF SetInvitedCount
  <2> HIDE DEF old, i, t, c
  <2>5. invited \in Counts
    BY <2>2, <2>3 DEF Counts
  <2> HIDE DEF invited
  <2>6. /\ new \in Battles /\ new.status = old.status /\ new.m_hasBgFreeSlotQueue = old.m_hasBgFreeSlotQueue
        /\ new.players = old.players
    BY <2>2, <2>5 DEF Battles
  <2> HIDE DEF new
  <2>. QED
    BY <2>1, <2>4, <2>6, BattleChanged DEF old, SameBattle
<1>. QED
  BY <1>3, <1>4

\* The world is told how many are invited.
LEMMA CountStep ==
  ASSUME ListInv, SetInvitedCount
  PROVE  ListInv'
<1>1. /\ BgTypes /\ Listed /\ OnItsWay /\ WorldTypes /\ i_MaxInstanceId \in Nat /\ toQueue \in Seq(ForQueue)
  BY DEF ListInv, Listed, BgTypes, QueueTypes, MessageTypes, WorldTypes
<1>2. /\ toWorld # <<>> /\ toWorld' = Tail(toWorld) /\ UNCHANGED <<queue, toQueue, player, joins>>
      /\ i_MaxInstanceId' = i_MaxInstanceId /\ Sent.type = "SetInvitedCount"
  BY DEF SetInvitedCount, ToWorld, Sent, queue
<1>3. Created' = Created /\ m_battleGrounds' \in [Created' -> Battles] /\ FlagsKept
  BY <1>1, CountFact DEF FlagsKept, Ended, SameBattle
<1>4. toWorld' \in Seq(ForWorld) /\ OnItsWay'
  BY <1>1, <1>2, <1>3, WorldMessageTypes
<1>5. WorldTypes'
  BY <1>1, <1>2, <1>3 DEF WorldTypes, player
<1>6. /\ <<>> \in Seq(ForQueue) /\ toQueue' = toQueue \o <<>>
      /\ \A m \in 1..Len(<<>>) : <<>>[m].type \notin {"AddBgToFreeSlots", "RemoveBgFromFreeSlots"}
  BY <1>1, <1>2, NothingSent
<1>. QED
  BY <1>2, <1>3, <1>4, <1>5, <1>6, WorldKeeps

\* A battleground that is reset.
LEMMA ResetTypes == NoneInvited \in Counts /\ Reset \in Battles
<1>1. NoneInvited \in Counts
  BY BgBoundsAssumption DEF NoneInvited, Counts
<1>2. {} \in SUBSET Players /\ "wait_queue" \in Statuses /\ FALSE \in BOOLEAN
  BY DEF Statuses
<1>. QED
  BY <1>1, <1>2 DEF Reset, Battles

\* A battleground that the world makes is a new one, and nobody is in it.
LEMMA CreateFact ==
  ASSUME BgTypes, OnItsWay, Create
  PROVE  /\ Sent.instanceId \in Instances \ Created /\ Created' = Created \union {Sent.instanceId}
         /\ m_battleGrounds' \in [Created' -> Battles]
         /\ \A j \in Created : m_battleGrounds'[j] = m_battleGrounds[j]
         /\ m_battleGrounds'[Sent.instanceId].status = "wait_join"
         /\ m_battleGrounds'[Sent.instanceId].players = {}
         /\ ~m_battleGrounds'[Sent.instanceId].m_hasBgFreeSlotQueue
<1> DEFINE i == Sent.instanceId
           new == [Reset EXCEPT !.status = "wait_join", !.invited = Sent.invited]
<1>1. m_battleGrounds \in [Created -> Battles]
  BY DEF BgTypes, WorldTypes
<1>2. /\ toWorld # <<>> /\ toWorld' = Tail(toWorld) /\ Sent.type = "Create"
      /\ m_battleGrounds' = [j \in Created \union {i} |-> IF j = i THEN new ELSE m_battleGrounds[j]]
  BY DEF Create, ToWorld, Sent
<1>3. Sent \in ForWorld /\ 1 \in 1..Len(toWorld) /\ Sent = toWorld[1]
  BY <1>2, WorldPopped DEF Sent
<1>4. i \in Nat /\ Sent.invited \in Counts
  BY <1>2, <1>3, WorldKinds
<1>5. i \in Instances \ Created
  <2>1. Creates(1, i)
    BY <1>2, <1>3 DEF Creates, Tells
  <2>. QED
    BY <1>4, <2>1 DEF OnItsWay
<1>6. new \in Battles /\ new.status = "wait_join" /\ new.players = {} /\ ~new.m_hasBgFreeSlotQueue
  <2>1. "wait_join" \in Statuses
    BY DEF Statuses
  <2>2. ~Reset.m_hasBgFreeSlotQueue /\ Reset.players = {}
    BY DEF Reset
  <2>. QED
    BY <1>4, <2>1, <2>2, ResetTypes DEF Battles
<1> HIDE DEF new, i
<1>7. /\ Created' = Created \union {i} /\ m_battleGrounds' \in [Created' -> Battles]
      /\ \A j \in Created : m_battleGrounds'[j] = m_battleGrounds[j]
      /\ m_battleGrounds'[i] = new
  BY <1>1, <1>2, <1>5, <1>6 DEF Created
<1>. QED
  BY <1>5, <1>6, <1>7 DEF i

\* The world makes a battleground.
LEMMA CreateStep ==
  ASSUME ListInv, Create
  PROVE  ListInv'
<1> DEFINE i == Sent.instanceId
           m == StatusMessage(i, "wait_join")
<1>1. /\ BgTypes /\ Listed /\ OnItsWay /\ WorldTypes /\ i_MaxInstanceId \in Nat
  BY DEF ListInv, Listed, BgTypes, QueueTypes, WorldTypes
<1>2. /\ toWorld # <<>> /\ toWorld' = Tail(toWorld) /\ UNCHANGED <<queue, player, joins>>
      /\ i_MaxInstanceId' = i_MaxInstanceId /\ Sent.type = "Create" /\ toQueue' = toQueue \o <<m>>
  BY DEF Create, ToWorld, Sent, queue, Send
<1>3. /\ i \in Instances \ Created /\ Created' = Created \union {i}
      /\ m_battleGrounds' \in [Created' -> Battles]
      /\ \A j \in Created : m_battleGrounds'[j] = m_battleGrounds[j]
      /\ ~m_battleGrounds'[i].m_hasBgFreeSlotQueue
  BY <1>1, CreateFact
<1>4. m \in ForQueue /\ m.type = "SetStatus"
  <2>1. "wait_join" \in Statuses /\ i \in Nat
    BY <1>1, <1>3 DEF Statuses, Instances
  <2>. QED
    BY <2>1, QueueMembers DEF StatusMessage
<1> HIDE DEF i, m
<1>5. FlagsKept
  BY <1>3 DEF FlagsKept, Ended
<1>6. toWorld' \in Seq(ForWorld) /\ OnItsWay'
  BY <1>1, <1>2, <1>3, WorldMessageTypes DEF i
<1>7. WorldTypes'
  BY <1>1, <1>2, <1>3 DEF WorldTypes, player, Instances
<1>8. <<m>> \in Seq(ForQueue) /\ \A k \in 1..Len(<<m>>) : <<m>>[k].type \notin {"AddBgToFreeSlots", "RemoveBgFromFreeSlots"}
  BY <1>4
<1>. QED
  BY <1>2, <1>5, <1>6, <1>7, <1>8, WorldKeeps

\* A step of a player that leaves the battlegrounds alone.
LEMMA PlayerKeeps ==
  ASSUME ListInv, UNCHANGED <<queue, m_battleGrounds>>, WorldTypes',
         \/ toWorld' = toWorld
         \/ \E m \in ForWorld : m.type = "Timeout" /\ toWorld' = Append(toWorld, m),
         \/ toQueue' = toQueue
         \/ \E m \in ForQueue : m.type \in {"AddGroup", "Port", "LoggedOut"} /\ toQueue' = toQueue \o <<m>>
  PROVE  ListInv'
<1>1. /\ BgTypes /\ Listed /\ OnItsWay /\ WorldTypes /\ i_MaxInstanceId \in Nat /\ toQueue \in Seq(ForQueue)
      /\ toWorld \in Seq(ForWorld) /\ i_MaxInstanceId' = i_MaxInstanceId /\ Created' = Created
  BY DEF ListInv, Listed, BgTypes, QueueTypes, MessageTypes, WorldTypes, queue, Created
<1>2. FlagsKept
  BY <1>1 DEF FlagsKept, Ended
<1>3. PICK all \in Seq(ForWorld) : toWorld' = toWorld \o all /\ \A m \in 1..Len(all) : Plain(all[m])
  <2>1. CASE toWorld' = toWorld
    BY <1>1, <2>1, NothingSent
  <2>2. CASE \E m \in ForWorld : m.type = "Timeout" /\ toWorld' = Append(toWorld, m)
    <3>1. PICK m \in ForWorld : m.type = "Timeout" /\ toWorld' = Append(toWorld, m)
      BY <2>2
    <3>2. toWorld' = toWorld \o <<m>> /\ Plain(m)
      BY <1>1, <3>1 DEF Plain
    <3>. QED
      BY <3>1, <3>2, OneMessage
  <2>. QED
    BY <2>1, <2>2
<1>4. toWorld' \in Seq(ForWorld) /\ OnItsWay'
  <2>1. \A m \in 1..Len(all) : all[m].type # "Create" /\ (all[m].type = "Enter" => all[m].instanceId \in Instances)
    BY <1>3 DEF Plain
  <2>2. OnItsWay'
    BY <1>1, <1>3, <2>1, OnItsWaySent
  <2>3. toWorld' \in Seq(ForWorld)
    BY <1>1, <1>3
  <2>. QED
    BY <2>2, <2>3
<1>5. \E messages \in Seq(ForQueue) :
         /\ toQueue' = toQueue \o messages
         /\ \A m \in 1..Len(messages) : messages[m].type \notin {"AddBgToFreeSlots", "RemoveBgFromFreeSlots"}
  <2>1. CASE toQueue' = toQueue
    BY <1>1, <2>1, NothingSent
  <2>2. CASE \E m \in ForQueue : m.type \in {"AddGroup", "Port", "LoggedOut"} /\ toQueue' = toQueue \o <<m>>
    <3>1. PICK m \in ForQueue : m.type \in {"AddGroup", "Port", "LoggedOut"} /\ toQueue' = toQueue \o <<m>>
      BY <2>2
    <3>2. <<m>> \in Seq(ForQueue) /\ \A k \in 1..Len(<<m>>) : <<m>>[k].type \in {"AddGroup", "Port", "LoggedOut"}
      BY <3>1
    <3>. QED
      BY <3>1, <3>2
  <2>. QED
    BY <2>1, <2>2
<1>. QED
  BY <1>2, <1>4, <1>5, WorldKeeps

\* A player asks for something of the queue.
LEMMA AskStep ==
  ASSUME ListInv, NEW p \in Players, HandleBattlemasterJoin(p) \/ HandleBattlefieldPort(p)
  PROVE  ListInv'
<1>1. WorldTypes
  BY DEF ListInv, BgTypes
<1>2. CASE HandleBattlemasterJoin(p)
  <2>1. /\ joins' = [joins EXCEPT ![p] = joins[p] + 1] /\ joins[p] \in Nat /\ joins' \in [Players -> Nat]
        /\ UNCHANGED <<queue, m_battleGrounds, player, toWorld>>
    BY <1>1, <1>2 DEF HandleBattlemasterJoin, WorldTypes
  <2>2. WorldTypes'
    BY <1>1, <2>1 DEF WorldTypes, player, queue, Created
  <2> DEFINE m == [type |-> "AddGroup", player |-> p, number |-> joins'[p]]
  <2>3. m \in ForQueue /\ m.type = "AddGroup" /\ toQueue' = toQueue \o <<m>>
    <3>1. joins'[p] \in Nat
      BY <2>1
    <3>. QED
      BY <1>2, <3>1, QueueMembers DEF HandleBattlemasterJoin, Send
  <2> HIDE DEF m
  <2>. QED
    BY <2>1, <2>2, <2>3, PlayerKeeps
<1>3. CASE HandleBattlefieldPort(p)
  <2>1. PICK enter \in BOOLEAN : toQueue' = toQueue \o <<[type |-> "Port", player |-> p, enter |-> enter]>>
    BY <1>3 DEF HandleBattlefieldPort, Send
  <2>2. UNCHANGED <<queue, world, toWorld>>
    BY <1>3 DEF HandleBattlefieldPort
  <2>3. WorldTypes'
    BY <1>1, <2>2 DEF WorldTypes, world, player, queue, Created
  <2> DEFINE m == [type |-> "Port", player |-> p, enter |-> enter]
  <2>4. m \in ForQueue /\ m.type = "Port"
    BY QueueMembers
  <2>5. toQueue' = toQueue \o <<m>>
    BY <2>1
  <2> HIDE DEF m
  <2>. QED
    BY <2>2, <2>3, <2>4, <2>5, PlayerKeeps DEF world
<1>. QED
  BY <1>2, <1>3

\* A timer of a player fires, or he changes maps.
LEMMA TravelStep ==
  ASSUME ListInv, NEW p \in Players, FireRemoveEvent(p) \/ TeleportFar(p)
  PROVE  ListInv'
<1>1. WorldTypes /\ i_MaxInstanceId \in Nat
  BY DEF ListInv, BgTypes, QueueTypes
<1>2. CASE FireRemoveEvent(p)
  <2>1. PICK event \in m_events[p] :
          /\ m_events' = [m_events EXCEPT ![p] = m_events[p] \ {event}]
          /\ toWorld' = Append(toWorld, [type |-> "Timeout", player |-> p, instanceId |-> event.instanceId,
                                         removeInviteTime |-> event.removeInviteTime])
    BY <1>2 DEF FireRemoveEvent
  <2>2. UNCHANGED <<queue, toQueue, m_battleGrounds, online, away, bgInstanceID, m_bgBattleGroundQueueID, joins>>
    BY <1>2 DEF FireRemoveEvent
  <2>3. m_events[p] \in SUBSET Timers
    BY <1>1 DEF WorldTypes
  <2>4. m_events' \in [Players -> SUBSET Timers]
    BY <1>1, <2>1, <2>3 DEF WorldTypes
  <2>5. WorldTypes'
    BY <1>1, <2>2, <2>4 DEF WorldTypes, queue, Created
  <2> DEFINE m == [type |-> "Timeout", player |-> p, instanceId |-> event.instanceId,
                                         removeInviteTime |-> event.removeInviteTime]
  <2>6. m \in ForWorld /\ m.type = "Timeout"
    <3>1. event.instanceId \in Nat /\ event.removeInviteTime \in Nat
      BY <2>3 DEF Timers
    <3>. QED
      BY <3>1, WorldMembers
  <2> HIDE DEF m
  <2>7. toWorld' = Append(toWorld, m)
    BY <2>1 DEF m
  <2>. QED
    BY <2>2, <2>5, <2>6, <2>7, PlayerKeeps
<1>3. CASE TeleportFar(p)
  <2>1. /\ away' = [away EXCEPT ![p] = 0]
        /\ UNCHANGED <<queue, toQueue, m_battleGrounds, online, bgInstanceID, m_bgBattleGroundQueueID, m_events, joins, toWorld>>
    BY <1>3 DEF TeleportFar
  <2>2. away' \in [Players -> {None} \union 0..i_MaxInstanceId]
    <3>1. 0 \in {None} \union 0..i_MaxInstanceId
      BY <1>1
    <3>. QED
      BY <1>1, <2>1, <3>1 DEF WorldTypes
  <2>3. WorldTypes'
    BY <1>1, <2>1, <2>2 DEF WorldTypes, queue, Created
  <2>. QED
    BY <2>1, <2>3, PlayerKeeps
<1>. QED
  BY <1>2, <1>3

\* A step of the world's thread that changes one battleground.
LEMMA BattleKeeps ==
  ASSUME ListInv, UNCHANGED <<queue, toWorld>>, WorldTypes', Created' = Created, NEW messages \in Seq(ForQueue),
         toQueue' = toQueue \o messages, InQueue'
  PROVE  ListInv'
<1>1. /\ BgTypes /\ Grouped /\ OnItsWay /\ toQueue \in Seq(ForQueue) /\ toWorld \in Seq(ForWorld)
      /\ UNCHANGED <<m_queuedGroups, m_bgFreeSlotQueue, i_MaxInstanceId, m_queuedPlayers, m_queueUpdateScheduler>>
  BY DEF ListInv, Listed, queue, BgTypes, MessageTypes
<1>2. toQueue' \in Seq(ForQueue)
  BY <1>1
<1>3. QueueTypes' /\ MessageTypes'
  BY <1>1, <1>2 DEF BgTypes, QueueTypes, MessageTypes
<1>4. Grouped'
  BY <1>1 DEF Grouped, HasGroup
<1>5. OnItsWay'
  BY <1>1 DEF OnItsWay, Creates, Enters, Tells, Instances
<1>. QED
  BY <1>3, <1>4, <1>5 DEF ListInv, BgTypes, Listed

\* A battleground that changes keeps the types.
LEMMA BattleTypes ==
  ASSUME BgTypes, NEW i \in Created, NEW b \in Battles, m_battleGrounds' = [m_battleGrounds EXCEPT ![i] = b],
         UNCHANGED <<queue, player, joins>>
  PROVE  WorldTypes'
BY BattleChanged DEF BgTypes, WorldTypes, player, queue

\* A player who enters a battleground is all that changes in it.
LEMMA PlayerIn ==
  ASSUME BgTypes, NEW p \in Players, NEW i,
         \/ m_battleGrounds' = m_battleGrounds
         \/ Exists(i) /\ m_battleGrounds' = [m_battleGrounds EXCEPT ![i].players = m_battleGrounds[i].players \union {p}]
  PROVE  /\ Created' = Created /\ m_battleGrounds' \in [Created' -> Battles]
         /\ \A j \in Created : /\ m_battleGrounds'[j].status = m_battleGrounds[j].status
                               /\ m_battleGrounds'[j].m_hasBgFreeSlotQueue = m_battleGrounds[j].m_hasBgFreeSlotQueue
                               /\ \A q \in m_battleGrounds'[j].players :
                                     q \in m_battleGrounds[j].players \/ (q = p /\ j = i)
<1>1. m_battleGrounds \in [Created -> Battles]
  BY DEF BgTypes, WorldTypes
<1>2. CASE m_battleGrounds' = m_battleGrounds
  BY <1>1, <1>2 DEF Created
<1>3. CASE Exists(i) /\ m_battleGrounds' = [m_battleGrounds EXCEPT ![i].players = m_battleGrounds[i].players \union {p}]
  <2> DEFINE old == m_battleGrounds[i]
             new == [old EXCEPT !.players = old.players \union {p}]
  <2>1. i \in Created
    BY <1>3 DEF Exists, Status
  <2>2. old \in Battles
    BY <1>1, <2>1
  <2>3. m_battleGrounds' = [m_battleGrounds EXCEPT ![i] = new]
    BY <1>3
  <2> HIDE DEF old
  <2>4. /\ new \in Battles /\ new.status = old.status /\ new.m_hasBgFreeSlotQueue = old.m_hasBgFreeSlotQueue
        /\ new.players = old.players \union {p}
    BY <2>2 DEF Battles
  <2> HIDE DEF new
  <2>. QED
    BY <2>1, <2>3, <2>4, BattleChanged DEF old
<1>. QED
  BY <1>2, <1>3

\* A player arrives.
LEMMA WorldportStep ==
  ASSUME ListInv, NEW p \in Players, WorldportAck(p)
  PROVE  ListInv'
<1>1. /\ BgTypes /\ WorldTypes /\ i_MaxInstanceId \in Nat /\ m_battleGrounds \in [Created -> Battles]
      /\ toQueue \in Seq(ForQueue) /\ toWorld \in Seq(ForWorld) /\ Created \subseteq 1..i_MaxInstanceId
      /\ OnItsWay /\ toQueue' = toQueue /\ toWorld' = toWorld /\ UNCHANGED queue
      /\ UNCHANGED <<online, m_bgBattleGroundQueueID, m_events, joins, i_MaxInstanceId>>
  BY DEF ListInv, BgTypes, QueueTypes, MessageTypes, WorldTypes, Listed, WorldportAck, queue
<1> DEFINE i == away[p]
<1>2. 0 \in 0..i_MaxInstanceId
  BY <1>1
<1>3. /\ away' \in [Players -> {None} \union 0..i_MaxInstanceId]
      /\ bgInstanceID' \in [Players -> 0..i_MaxInstanceId]
  <2>1. \/ away' = [away EXCEPT ![p] = 0]
        \/ away' = [away EXCEPT ![p] = None]
    BY DEF WorldportAck
  <2>2. bgInstanceID' = bgInstanceID \/ bgInstanceID' = [bgInstanceID EXCEPT ![p] = 0]
        \/ bgInstanceID' = [bgInstanceID EXCEPT ![p] = bgInstanceID[p]]
    BY DEF WorldportAck
  <2>. QED
    BY <1>1, <1>2, <2>1, <2>2 DEF WorldTypes
<1>4. Created' = Created /\ m_battleGrounds' \in [Created' -> Battles] /\ FlagsKept
  <2>1. \/ m_battleGrounds' = m_battleGrounds
        \/ Exists(i) /\ m_battleGrounds' = [m_battleGrounds EXCEPT ![i].players = m_battleGrounds[i].players \union {p}]
    BY DEF WorldportAck
  <2>. QED
    BY <1>1, <2>1, PlayerIn DEF FlagsKept, Ended
<1>5. WorldTypes'
  BY <1>1, <1>3, <1>4 DEF WorldTypes
<1>6. OnItsWay'
  BY <1>1, <1>4 DEF OnItsWay, Creates, Enters, Tells, Instances
<1>7. /\ <<>> \in Seq(ForQueue) /\ toQueue' = toQueue \o <<>>
      /\ \A m \in 1..Len(<<>>) : <<>>[m].type \notin {"AddBgToFreeSlots", "RemoveBgFromFreeSlots"}
  BY <1>1, NothingSent
<1>. QED
  BY <1>1, <1>4, <1>5, <1>6, <1>7, WorldKeeps

\* A player logs out.
LEMMA LogoutStep ==
  ASSUME ListInv, NEW p \in Players, LogoutPlayer(p)
  PROVE  ListInv'
<1>1. /\ BgTypes /\ WorldTypes /\ i_MaxInstanceId \in Nat /\ m_battleGrounds \in [Created -> Battles]
      /\ toQueue \in Seq(ForQueue) /\ toWorld \in Seq(ForWorld) /\ Created \subseteq 1..i_MaxInstanceId
      /\ OnItsWay /\ toWorld' = toWorld /\ UNCHANGED queue
      /\ UNCHANGED <<away, bgInstanceID, joins, i_MaxInstanceId>>
  BY DEF ListInv, BgTypes, QueueTypes, MessageTypes, WorldTypes, Listed, LogoutPlayer, queue
<1> DEFINE i == bgInstanceID[p]
<1>2. /\ online' \in [Players -> BOOLEAN]
      /\ m_bgBattleGroundQueueID' \in [Players -> [in : BOOLEAN, invitedToInstance : Nat]]
      /\ m_events' \in [Players -> SUBSET Timers]
  <2>1. /\ online' = [online EXCEPT ![p] = FALSE] /\ m_events' = [m_events EXCEPT ![p] = {}]
        /\ m_bgBattleGroundQueueID' = [m_bgBattleGroundQueueID EXCEPT ![p] = NotQueued]
    BY DEF LogoutPlayer
  <2>2. NotQueued \in [in : BOOLEAN, invitedToInstance : Nat]
    BY DEF NotQueued
  <2>. QED
    BY <1>1, <2>1, <2>2 DEF WorldTypes
<1>3. Created' = Created /\ m_battleGrounds' \in [Created' -> Battles] /\ FlagsKept
  <2>1. \/ m_battleGrounds' = m_battleGrounds
        \/ Exists(i) /\ m_battleGrounds' = [m_battleGrounds EXCEPT ![i].players = m_battleGrounds[i].players \union {p}]
    BY DEF LogoutPlayer
  <2>. QED
    BY <1>1, <2>1, PlayerIn DEF FlagsKept, Ended
<1>4. WorldTypes'
  BY <1>1, <1>2, <1>3 DEF WorldTypes
<1>5. OnItsWay'
  BY <1>1, <1>3 DEF OnItsWay, Creates, Enters, Tells, Instances
<1>6. \E messages \in Seq(ForQueue) :
         /\ toQueue' = toQueue \o messages
         /\ \A m \in 1..Len(messages) : messages[m].type \notin {"AddBgToFreeSlots", "RemoveBgFromFreeSlots"}
  <2> DEFINE m == [type |-> "LoggedOut", player |-> p]
  <2>1. toQueue' = toQueue \o <<m>> \/ toQueue' = toQueue \o <<>>
    BY DEF LogoutPlayer, Send
  <2>2. m \in ForQueue /\ m.type = "LoggedOut"
    BY QueueMembers
  <2> HIDE DEF m
  <2>3. <<m>> \in Seq(ForQueue) /\ \A k \in 1..Len(<<m>>) : <<m>>[k].type = "LoggedOut"
    BY <2>2
  <2>. QED
    BY <2>1, <2>3, NothingSent
<1>. QED
  BY <1>1, <1>3, <1>4, <1>5, <1>6, WorldKeeps

\* What a battleground tells the queue when p leaves it.
IsOpen(p, i) == p \in m_battleGrounds[i].players /\ m_battleGrounds[i].status # "wait_leave"
Reports(m, p, i) == \/ m.type = "ScheduleQueueUpdate"
                    \/ /\ IsOpen(p, i) /\ m.type = "AddBgToFreeSlots" /\ m.info.instanceId = i
                       /\ ~m_battleGrounds[i].m_hasBgFreeSlotQueue
                       /\ m.info.playersInside = Cardinality(m_battleGrounds[i].players \ {p})
                    \/ IsOpen(p, i) /\ m.type = "DecreaseInvitedCount" /\ m.instanceId = i

\* A player who leaves a battleground is no longer counted there, and the queue is told when a place is free.
LEMMA LeaveFact ==
  ASSUME BgTypes, NEW p \in Players, NEW i, Exists(i), RemovePlayerAtLeave(p, i)
  PROVE  /\ i \in Created /\ Created' = Created /\ m_battleGrounds' \in [Created' -> Battles]
         /\ \A j \in Created : j # i => m_battleGrounds'[j] = m_battleGrounds[j]
         /\ m_battleGrounds'[i].status = m_battleGrounds[i].status
         /\ m_battleGrounds'[i].players = m_battleGrounds[i].players \ {p}
         /\ m_battleGrounds'[i].m_hasBgFreeSlotQueue = (m_battleGrounds[i].m_hasBgFreeSlotQueue \/ IsOpen(p, i))
         /\ \E ms \in Seq(ForQueue) :
               /\ toQueue' = toQueue \o ms
               /\ \A m \in 1..Len(ms) : Reports(ms[m], p, i)
               /\ IsOpen(p, i) => \/ m_battleGrounds[i].m_hasBgFreeSlotQueue
                                  \/ \E m \in 1..Len(ms) : ms[m].type = "AddBgToFreeSlots" /\ ms[m].info.instanceId = i
<1> DEFINE old == m_battleGrounds[i]
           t == Team(p)
           invited == [old.invited EXCEPT ![t] = Minus(old.invited[t])]
           left == [old EXCEPT !.players = old.players \ {p}, !.invited = invited]
           open == IsOpen(p, i)
           new == [left EXCEPT !.m_hasBgFreeSlotQueue = left.m_hasBgFreeSlotQueue \/ open]
           info == Fill(i, left)
<1>1. m_battleGrounds \in [Created -> Battles] /\ Created \subseteq 1..i_MaxInstanceId /\ i_MaxInstanceId \in Nat
  BY DEF BgTypes, QueueTypes, WorldTypes
<1>2. i \in Created /\ i \in Nat
  <2>1. i \in Created
    BY DEF Exists, Status
  <2>. QED
    BY <1>1, <2>1
<1>3. old \in Battles /\ old.invited \in Counts /\ t \in Teams
  <2>1. old \in Battles
    BY <1>1, <1>2
  <2>. QED
    BY <2>1, TeamFact DEF Battles
<1>4. m_battleGrounds' = IF p \notin old.players THEN m_battleGrounds ELSE [m_battleGrounds EXCEPT ![i] = new]
  BY DEF RemovePlayerAtLeave, IsOpen
<1>5. \/ ~open /\ toQueue' = toQueue \o <<>>
      \/ /\ open /\ ~old.m_hasBgFreeSlotQueue
         /\ toQueue' = toQueue \o <<[type |-> "AddBgToFreeSlots", info |-> info], [type |-> "ScheduleQueueUpdate"]>>
      \/ /\ open /\ old.m_hasBgFreeSlotQueue
         /\ toQueue' = toQueue \o <<[type |-> "DecreaseInvitedCount", instanceId |-> i, team |-> t],
                                    [type |-> "ScheduleQueueUpdate"]>>
  <2>1. open \in BOOLEAN /\ old.m_hasBgFreeSlotQueue \in BOOLEAN
    BY <1>3 DEF Battles, IsOpen
  <2>. QED
    BY <2>1 DEF RemovePlayerAtLeave, Send, IsOpen
<1> HIDE DEF old, t
<1>6. invited \in Counts
  <2>1. old.invited[t] \in 0..MaxCount
    BY <1>3 DEF Counts
  <2>2. Minus(old.invited[t]) \in 0..MaxCount
    BY <2>1, MinusFact
  <2>. QED
    BY <1>3, <2>2 DEF Counts
<1> HIDE DEF invited
<1>7. left \in Battles /\ left.status = old.status /\ left.m_hasBgFreeSlotQueue = old.m_hasBgFreeSlotQueue
      /\ left.invited = invited /\ left.players = old.players \ {p}
  BY <1>3, <1>6 DEF Battles
<1> HIDE DEF left
<1>8. new \in Battles /\ new.status = old.status /\ new.players = old.players \ {p}
      /\ new.m_hasBgFreeSlotQueue = (old.m_hasBgFreeSlotQueue \/ open)
  <2>1. (old.m_hasBgFreeSlotQueue \/ open) \in BOOLEAN
    OBVIOUS
  <2>. QED
    BY <1>7, <2>1 DEF Battles
<1> HIDE DEF new
<1>9. /\ Created' = Created
      /\ m_battleGrounds' \in [Created' -> Battles]
      /\ \A j \in Created : (j # i => m_battleGrounds'[j] = m_battleGrounds[j])
      /\ m_battleGrounds'[i].status = old.status
      /\ m_battleGrounds'[i].players = old.players \ {p}
      /\ m_battleGrounds'[i].m_hasBgFreeSlotQueue = (old.m_hasBgFreeSlotQueue \/ open)
  <2>1. CASE p \notin old.players
    <3>1. m_battleGrounds' = m_battleGrounds /\ ~open /\ old.players = old.players \ {p}
      BY <1>4, <2>1 DEF IsOpen, old
    <3>2. old.m_hasBgFreeSlotQueue \in BOOLEAN
      BY <1>3 DEF Battles
    <3>. QED
      BY <1>1, <3>1, <3>2 DEF Created, old
  <2>2. CASE p \in old.players
    BY <1>2, <1>4, <1>8, <2>2, BattleChanged
  <2>. QED
    BY <2>1, <2>2
<1>10. info \in Infos /\ info.instanceId = i /\ info.playersInside = Cardinality(old.players \ {p})
  <2>1. left.players \in SUBSET Players /\ left.status \in Statuses /\ left.invited \in Counts
    BY <1>7 DEF Battles
  <2>2. Cardinality(left.players) \in Nat
    BY <2>1, BgPlayersAssumption, FS_Subset, FS_CardinalityType
  <2>. QED
    BY <1>2, <1>7, <2>1, <2>2 DEF Fill, Infos
<1> HIDE DEF info, open
<1>11. \E ms \in Seq(ForQueue) :
          /\ toQueue' = toQueue \o ms
          /\ \A m \in 1..Len(ms) : Reports(ms[m], p, i)
          /\ (open => (old.m_hasBgFreeSlotQueue \/ \E m \in 1..Len(ms) :
                (ms[m].type = "AddBgToFreeSlots" /\ ms[m].info.instanceId = i)))
  <2> DEFINE add == [type |-> "AddBgToFreeSlots", info |-> info]
             plan == [type |-> "ScheduleQueueUpdate"]
             less == [type |-> "DecreaseInvitedCount", instanceId |-> i, team |-> t]
  <2>1. /\ add \in ForQueue /\ add.type = "AddBgToFreeSlots" /\ add.info = info
        /\ plan \in ForQueue /\ plan.type = "ScheduleQueueUpdate"
        /\ less \in ForQueue /\ less.type = "DecreaseInvitedCount" /\ less.instanceId = i
    BY <1>2, <1>3, <1>10, QueueMembers
  <2> HIDE DEF add, plan, less
  <2>2. CASE ~open /\ toQueue' = toQueue \o <<>>
    BY <2>2, NothingSent
  <2>3. CASE open /\ ~old.m_hasBgFreeSlotQueue /\ toQueue' = toQueue \o <<add, plan>>
    <3> DEFINE both == <<add, plan>>
    <3>1. both \in Seq(ForQueue) /\ Len(both) = 2 /\ both[1] = add /\ both[2] = plan
      BY <2>1
    <3> HIDE DEF both
    <3>2. toQueue' = toQueue \o both
      BY <2>3 DEF both
    <3>3. Reports(add, p, i) /\ Reports(plan, p, i)
      BY <1>10, <2>1, <2>3 DEF Reports, old, open
    <3>4. 1 \in 1..Len(both) /\ \A m \in 1..Len(both) : m = 1 \/ m = 2
      BY <3>1
    <3>5. both[1].type = "AddBgToFreeSlots" /\ both[1].info.instanceId = i
      BY <1>10, <2>1, <3>1
    <3>. QED
      BY <3>1, <3>2, <3>3, <3>4, <3>5
  <2>4. CASE open /\ old.m_hasBgFreeSlotQueue /\ toQueue' = toQueue \o <<less, plan>>
    <3> DEFINE both == <<less, plan>>
    <3>1. both \in Seq(ForQueue) /\ Len(both) = 2 /\ both[1] = less /\ both[2] = plan
      BY <2>1
    <3> HIDE DEF both
    <3>2. toQueue' = toQueue \o both
      BY <2>4 DEF both
    <3>3. Reports(less, p, i) /\ Reports(plan, p, i)
      BY <2>1, <2>4 DEF Reports, open
    <3>4. \A m \in 1..Len(both) : m = 1 \/ m = 2
      BY <3>1
    <3>. QED
      BY <2>4, <3>1, <3>2, <3>3, <3>4
  <2>. QED
    BY <1>5, <2>2, <2>3, <2>4 DEF add, plan, less
<1>. QED
  BY <1>2, <1>9, <1>11 DEF old, open

\* A participant, or a player sent to a battleground, leaves it.
LEMMA LeaveStep ==
  ASSUME ListInv, NEW p \in Players, NEW i, Exists(i), RemovePlayerAtLeave(p, i)
  PROVE  ListInv'
<1>1. /\ BgTypes /\ WorldTypes /\ i_MaxInstanceId \in Nat /\ Created \subseteq Instances
      /\ InQueue /\ toWorld' = toWorld /\ UNCHANGED queue
      /\ UNCHANGED <<online, m_events, joins, i_MaxInstanceId, m_queuedGroups, m_bgFreeSlotQueue>>
  BY DEF ListInv, BgTypes, QueueTypes, WorldTypes, Listed, RemovePlayerAtLeave, queue, Instances
<1>2. /\ i \in Created /\ Created' = Created /\ m_battleGrounds' \in [Created' -> Battles]
      /\ \A j \in Created : (j # i => m_battleGrounds'[j] = m_battleGrounds[j])
      /\ m_battleGrounds'[i].status = m_battleGrounds[i].status
      /\ m_battleGrounds'[i].m_hasBgFreeSlotQueue = (m_battleGrounds[i].m_hasBgFreeSlotQueue \/ IsOpen(p, i))
  BY <1>1, LeaveFact
<1>3. PICK ms \in Seq(ForQueue) :
         /\ toQueue' = toQueue \o ms
         /\ \A m \in 1..Len(ms) : Reports(ms[m], p, i)
         /\ (IsOpen(p, i) => (m_battleGrounds[i].m_hasBgFreeSlotQueue \/ \E m \in 1..Len(ms) :
                (ms[m].type = "AddBgToFreeSlots" /\ ms[m].info.instanceId = i)))
  BY <1>1, LeaveFact
<1>4. /\ m_bgBattleGroundQueueID' \in [Players -> [in : BOOLEAN, invitedToInstance : Nat]]
      /\ away' \in [Players -> {None} \union 0..i_MaxInstanceId]
      /\ bgInstanceID' \in [Players -> 0..i_MaxInstanceId]
  <2>1. /\ (m_bgBattleGroundQueueID' = m_bgBattleGroundQueueID)
           \/ (m_bgBattleGroundQueueID' = [m_bgBattleGroundQueueID EXCEPT ![p] = NotQueued])
        /\ (away' = away) \/ (away' = [away EXCEPT ![p] = 0])
        /\ (bgInstanceID' = bgInstanceID) \/ (bgInstanceID' = [bgInstanceID EXCEPT ![p] = 0])
    BY DEF RemovePlayerAtLeave
  <2>2. NotQueued \in [in : BOOLEAN, invitedToInstance : Nat] /\ 0 \in 0..i_MaxInstanceId
    BY <1>1 DEF NotQueued
  <2>3. /\ m_bgBattleGroundQueueID \in [Players -> [in : BOOLEAN, invitedToInstance : Nat]]
        /\ away \in [Players -> {None} \union 0..i_MaxInstanceId]
        /\ bgInstanceID \in [Players -> 0..i_MaxInstanceId]
    BY <1>1 DEF WorldTypes
  <2>4. m_bgBattleGroundQueueID' \in [Players -> [in : BOOLEAN, invitedToInstance : Nat]]
    BY <2>1, <2>2, <2>3
  <2>5. away' \in [Players -> {None} \union 0..i_MaxInstanceId]
    BY <2>1, <2>2, <2>3
  <2>6. bgInstanceID' \in [Players -> 0..i_MaxInstanceId]
    BY <2>1, <2>2, <2>3
  <2>. QED
    BY <2>4, <2>5, <2>6
<1>5. WorldTypes'
  BY <1>1, <1>2, <1>4 DEF WorldTypes, Instances
<1>6. \A j : Ended(j) => Ended(j)'
  <2>1. m_battleGrounds[i].status # "deleted"
    BY <1>2 DEF Exists, Status
  <2>. QED
    BY <1>2, <2>1 DEF Ended, IsOpen
<1>7. InQueue'
  <2>1. \A j \in Created' : m_battleGrounds'[j].m_hasBgFreeSlotQueue =>
            \/ j \in Created /\ m_battleGrounds[j].m_hasBgFreeSlotQueue
            \/ \E m \in 1..Len(ms) : ms[m].type = "AddBgToFreeSlots" /\ ms[m].info.instanceId = j
    BY <1>2, <1>3
  <2>2. \A m \in 1..Len(ms) : (ms[m].type # "RemoveBgFromFreeSlots" /\
           (ms[m].type = "AddBgToFreeSlots" => ms[m].info.instanceId \in Instances))
    BY <1>1, <1>2, <1>3 DEF Reports
  <2>. QED
    BY <1>1, <1>3, <1>6, <2>1, <2>2, InQueueSent
<1>. QED
  BY <1>1, <1>2, <1>3, <1>5, <1>7, BattleKeeps

\* A battle begins.
LEMMA StartStep ==
  ASSUME ListInv, NEW i, StartBattle(i)
  PROVE  ListInv'
<1> DEFINE old == m_battleGrounds[i]
           new == [old EXCEPT !.status = "in_progress"]
           m == StatusMessage(i, "in_progress")
<1>1. /\ BgTypes /\ m_battleGrounds \in [Created -> Battles] /\ toWorld \in Seq(ForWorld) /\ toWorld' = toWorld
      /\ OnItsWay /\ UNCHANGED <<queue, player, joins>> /\ toQueue' = toQueue \o <<m>>
      /\ Created \subseteq 1..i_MaxInstanceId /\ i_MaxInstanceId \in Nat /\ i_MaxInstanceId' = i_MaxInstanceId
  BY DEF ListInv, BgTypes, QueueTypes, MessageTypes, WorldTypes, Listed, StartBattle, Send, queue
<1>2. i \in Created /\ i \in Nat /\ old.status = "wait_join"
  <2>1. i \in Created /\ old.status = "wait_join"
    BY DEF StartBattle, Exists, Status
  <2>. QED
    BY <1>1, <2>1
<1>3. old \in Battles /\ "in_progress" \in Statuses
  BY <1>1, <1>2 DEF Statuses
<1>4. m_battleGrounds' = [m_battleGrounds EXCEPT ![i] = new]
  BY DEF StartBattle
<1> HIDE DEF old
<1>5. new \in Battles /\ new.m_hasBgFreeSlotQueue = old.m_hasBgFreeSlotQueue
  BY <1>3 DEF Battles
<1> HIDE DEF new
<1>6. FlagsKept
  BY <1>1, <1>2, <1>4, <1>5, BattleFlag DEF old
<1>7. WorldTypes' /\ Created' = Created
  BY <1>1, <1>2, <1>4, <1>5, BattleTypes, BattleChanged
<1>8. OnItsWay'
  BY <1>1, <1>7 DEF OnItsWay, Creates, Enters, Tells, Instances
<1>9. m \in ForQueue /\ m.type = "SetStatus"
  BY <1>2, <1>3, QueueMembers DEF StatusMessage
<1> HIDE DEF m
<1> DEFINE ms == <<m>>
<1>10. /\ ms \in Seq(ForQueue)
       /\ \A k \in 1..Len(ms) : ms[k].type \notin {"AddBgToFreeSlots", "RemoveBgFromFreeSlots"}
       /\ toQueue' = toQueue \o ms
  BY <1>1, <1>9
<1> HIDE DEF ms
<1>. QED
  BY <1>1, <1>6, <1>7, <1>8, <1>10, WorldKeeps

\* What is sent when a battleground is closed.
Closing(m, k, i) == \/ m.type = "SetStatus"
                    \/ /\ k = 1 /\ m_battleGrounds[i].m_hasBgFreeSlotQueue
                       /\ m.type = "RemoveBgFromFreeSlots" /\ m.instanceId = i

\* It is at most one message that takes the battleground off the list, and some that tell its status.
LEMMA CloseSends ==
  ASSUME NEW i \in Nat, NEW messages \in Seq(ForQueue), \A k \in 1..Len(messages) : messages[k].type = "SetStatus"
  PROVE  \E all \in Seq(ForQueue) :
            /\ all = RemovedFromBgFreeSlotQueue(i) \o messages
            /\ \A k \in 1..Len(all) : Closing(all[k], k, i)
<1> DEFINE flag == m_battleGrounds[i].m_hasBgFreeSlotQueue
           remove == [type |-> "RemoveBgFromFreeSlots", instanceId |-> i]
           first == RemovedFromBgFreeSlotQueue(i)
<1>1. remove \in ForQueue /\ remove.type = "RemoveBgFromFreeSlots" /\ remove.instanceId = i
  BY QueueMembers
<1>2. (flag /\ first = <<remove>>) \/ first = <<>>
  BY DEF RemovedFromBgFreeSlotQueue
<1>3. flag => Closing(remove, 1, i)
  BY <1>1 DEF Closing
<1>4. \A k \in 1..Len(messages), n \in Nat : Closing(messages[k], n, i)
  BY DEF Closing
<1> HIDE DEF flag, remove, first
<1> DEFINE all == first \o messages
<1>5. CASE flag /\ first = <<remove>>
  <2>1. /\ Len(all) = 1 + Len(messages) /\ all[1] = remove /\ all \in Seq(ForQueue)
        /\ \A k \in 1..Len(messages) : all[k + 1] = messages[k]
    BY <1>1, <1>5
  <2>2. \A k \in 1..Len(all) : (k = 1 \/ (k - 1 \in 1..Len(messages) /\ all[k] = messages[k - 1]))
    <3> SUFFICES ASSUME NEW k \in 1..Len(all), k # 1 PROVE k - 1 \in 1..Len(messages) /\ all[k] = messages[k - 1]
      OBVIOUS
    <3>1. k - 1 \in 1..Len(messages) /\ (k - 1) + 1 = k
      BY <2>1
    <3>. QED
      BY <2>1, <3>1
  <2>3. \A k \in 1..Len(all) : Closing(all[k], k, i)
    BY <1>5, <1>3, <1>4, <2>1, <2>2
  <2>. QED
    BY <2>1, <2>3 DEF first
<1>6. CASE first = <<>>
  <2>1. all = messages
    BY <1>6
  <2>2. \A k \in 1..Len(all) : k \in Nat /\ Closing(all[k], k, i)
    BY <1>4, <2>1
  <2>. QED
    BY <2>1, <2>2 DEF first
<1>. QED
  BY <1>2, <1>5, <1>6

\* A battleground that is over or deleted leaves the list, when it is on it.
LEMMA CloseStep ==
  ASSUME ListInv, NEW i \in Created, NEW b \in Battles, m_battleGrounds' = [m_battleGrounds EXCEPT ![i] = b],
         b.status \in {"wait_leave", "deleted"}, ~b.m_hasBgFreeSlotQueue, UNCHANGED <<queue, player, joins, toWorld>>,
         NEW messages \in Seq(ForQueue), \A k \in 1..Len(messages) : messages[k].type = "SetStatus",
         toQueue' = toQueue \o (RemovedFromBgFreeSlotQueue(i) \o messages)
  PROVE  ListInv'
<1>1. /\ BgTypes /\ InQueue /\ Created \subseteq 1..i_MaxInstanceId /\ i_MaxInstanceId \in Nat
      /\ UNCHANGED <<queue, toWorld>> /\ UNCHANGED <<m_queuedGroups, m_bgFreeSlotQueue, i_MaxInstanceId>>
  BY DEF ListInv, BgTypes, QueueTypes, WorldTypes, Listed, queue
<1>2. Created' = Created /\ (\A j \in Created : m_battleGrounds'[j] = IF j = i THEN b ELSE m_battleGrounds[j])
  BY <1>1, BattleChanged
<1>3. WorldTypes'
  BY <1>1, BattleTypes
<1>4. PICK all \in Seq(ForQueue) :
         /\ all = RemovedFromBgFreeSlotQueue(i) \o messages
         /\ \A k \in 1..Len(all) : Closing(all[k], k, i)
  <2>1. i \in Nat
    BY <1>1
  <2>. QED
    BY <2>1, CloseSends
<1>5. toQueue' = toQueue \o all
  BY <1>4
<1>6. \A j : (Ended(j) => Ended(j)')
  BY <1>2 DEF Ended
<1>7. Ended(i)'
  BY <1>2 DEF Ended
<1>8. InQueue'
  <2>1. \A j \in Created' : m_battleGrounds'[j].m_hasBgFreeSlotQueue =>
            \/ j \in Created /\ m_battleGrounds[j].m_hasBgFreeSlotQueue
            \/ \E m \in 1..Len(all) : all[m].type = "AddBgToFreeSlots" /\ all[m].info.instanceId = j
    BY <1>2
  <2>2. \A m \in 1..Len(all) : all[m].type # "AddBgToFreeSlots"
    BY <1>4 DEF Closing
  <2>3. \A m \in 1..Len(all) : all[m].type = "RemoveBgFromFreeSlots" =>
            /\ all[m].instanceId \in Created /\ m_battleGrounds[all[m].instanceId].m_hasBgFreeSlotQueue
            /\ Ended(all[m].instanceId)'
            /\ \A l \in 1..Len(all) : all[l].type = "RemoveBgFromFreeSlots" => l = m
    <3>1. \A m \in 1..Len(all) : all[m].type = "RemoveBgFromFreeSlots" =>
             m = 1 /\ m_battleGrounds[i].m_hasBgFreeSlotQueue /\ all[m].instanceId = i
      BY <1>4 DEF Closing
    <3>. QED
      BY <1>7, <3>1
  <2>. QED
    BY <1>1, <1>5, <1>6, <2>1, <2>2, <2>3, InQueueSent
<1>. QED
  BY <1>1, <1>2, <1>3, <1>5, <1>8, BattleKeeps

\* A battle ends.
LEMMA EndStep ==
  ASSUME ListInv, NEW i, EndBattleGround(i)
  PROVE  ListInv'
<1> DEFINE old == m_battleGrounds[i]
           new == [old EXCEPT !.status = "wait_leave", !.m_hasBgFreeSlotQueue = FALSE]
           m == StatusMessage(i, "wait_leave")
<1>1. m_battleGrounds \in [Created -> Battles] /\ Created \subseteq 1..i_MaxInstanceId /\ i_MaxInstanceId \in Nat
  BY DEF ListInv, BgTypes, QueueTypes, WorldTypes
<1>2. i \in Created /\ i \in Nat
  <2>1. i \in Created
    BY DEF EndBattleGround, Exists, Status
  <2>. QED
    BY <1>1, <2>1
<1>3. old \in Battles /\ "wait_leave" \in Statuses
  BY <1>1, <1>2 DEF Statuses
<1>4. /\ m_battleGrounds' = [m_battleGrounds EXCEPT ![i] = new]
      /\ UNCHANGED <<queue, player, joins, toWorld>>
      /\ toQueue' = toQueue \o (RemovedFromBgFreeSlotQueue(i) \o <<m>>)
  BY DEF EndBattleGround, Send
<1> HIDE DEF old
<1>5. new \in Battles /\ new.status = "wait_leave" /\ ~new.m_hasBgFreeSlotQueue
  BY <1>3 DEF Battles
<1>6. m \in ForQueue /\ m.type = "SetStatus"
  BY <1>2, <1>3, QueueMembers DEF StatusMessage
<1> HIDE DEF new, m
<1> DEFINE ms == <<m>>
<1>7. /\ ms \in Seq(ForQueue) /\ \A k \in 1..Len(ms) : ms[k].type = "SetStatus"
      /\ toQueue' = toQueue \o (RemovedFromBgFreeSlotQueue(i) \o ms)
  BY <1>4, <1>6
<1> HIDE DEF ms
<1>. QED
  BY <1>2, <1>4, <1>5, <1>7, CloseStep

\* A battleground is deleted.
LEMMA RemoveBattleStep ==
  ASSUME ListInv, NEW i, RemoveBattleGround(i)
  PROVE  ListInv'
<1> DEFINE new == [Reset EXCEPT !.status = "deleted"]
<1>1. i \in Created
  BY DEF RemoveBattleGround, Exists, Status
<1>2. /\ m_battleGrounds' = [m_battleGrounds EXCEPT ![i] = new]
      /\ UNCHANGED <<queue, player, joins, toWorld>>
      /\ toQueue' = toQueue \o RemovedFromBgFreeSlotQueue(i)
  BY DEF RemoveBattleGround, Send
<1>3. new \in Battles /\ new.status = "deleted" /\ ~new.m_hasBgFreeSlotQueue
  <2>1. Reset \in Battles /\ ~Reset.m_hasBgFreeSlotQueue /\ "deleted" \in Statuses
    BY ResetTypes DEF Statuses, Reset
  <2>. QED
    BY <2>1 DEF Battles
<1>4. RemovedFromBgFreeSlotQueue(i) \o <<>> = RemovedFromBgFreeSlotQueue(i)
  <2> DEFINE r == [type |-> "RemoveBgFromFreeSlots", instanceId |-> i]
  <2>1. RemovedFromBgFreeSlotQueue(i) = <<r>> \/ RemovedFromBgFreeSlotQueue(i) = <<>>
    BY DEF RemovedFromBgFreeSlotQueue
  <2> HIDE DEF r
  <2>. QED
    BY <2>1
<1> HIDE DEF new
<1> DEFINE ms == <<>>
<1>5. /\ ms \in Seq(ForQueue) /\ \A k \in 1..Len(ms) : ms[k].type = "SetStatus"
      /\ toQueue' = toQueue \o (RemovedFromBgFreeSlotQueue(i) \o ms)
  BY <1>2, <1>4
<1> HIDE DEF ms
<1>. QED
  BY <1>1, <1>2, <1>3, <1>5, CloseStep

\* What becomes of a battleground when a battle begins or ends, or when it is deleted.
LEMMA BattleFact ==
  ASSUME BgTypes, NEW i, StartBattle(i) \/ EndBattleGround(i) \/ RemoveBattleGround(i)
  PROVE  /\ UNCHANGED <<queue, player, joins, toWorld>>
         /\ i \in Created /\ Created' = Created
         /\ \A j \in Created : j # i => m_battleGrounds'[j] = m_battleGrounds[j]
         /\ Exists(i) /\ m_battleGrounds'[i].players \subseteq m_battleGrounds[i].players
         /\ \/ m_battleGrounds'[i].status \in {"wait_leave", "deleted"}
            \/ /\ m_battleGrounds[i].status = "wait_join"
               /\ m_battleGrounds'[i].m_hasBgFreeSlotQueue = m_battleGrounds[i].m_hasBgFreeSlotQueue
         /\ \E ms \in Seq(ForQueue) : toQueue' = toQueue \o ms /\ \A k \in 1..Len(ms) : Closing(ms[k], k, i)
<1> DEFINE old == m_battleGrounds[i]
           start == [old EXCEPT !.status = "in_progress"]
           end == [old EXCEPT !.status = "wait_leave", !.m_hasBgFreeSlotQueue = FALSE]
           gone == [Reset EXCEPT !.status = "deleted"]
           m == StatusMessage(i, "in_progress")
           e == StatusMessage(i, "wait_leave")
<1>1. m_battleGrounds \in [Created -> Battles] /\ Created \subseteq 1..i_MaxInstanceId /\ i_MaxInstanceId \in Nat
  BY DEF BgTypes, QueueTypes, WorldTypes
<1>2. UNCHANGED <<queue, player, joins, toWorld>> /\ Exists(i) /\ i \in Created
  BY DEF StartBattle, EndBattleGround, RemoveBattleGround, Exists, Status
<1>3. old \in Battles /\ i \in Nat /\ "in_progress" \in Statuses /\ "wait_leave" \in Statuses
  BY <1>1, <1>2 DEF Statuses
<1>4. m \in ForQueue /\ m.type = "SetStatus" /\ e \in ForQueue /\ e.type = "SetStatus"
  BY <1>3, QueueMembers DEF StatusMessage
<1>5. \/ /\ m_battleGrounds' = [m_battleGrounds EXCEPT ![i] = start] /\ old.status = "wait_join"
         /\ toQueue' = toQueue \o <<m>>
      \/ /\ m_battleGrounds' = [m_battleGrounds EXCEPT ![i] = end]
         /\ toQueue' = toQueue \o (RemovedFromBgFreeSlotQueue(i) \o <<e>>)
      \/ /\ m_battleGrounds' = [m_battleGrounds EXCEPT ![i] = gone]
         /\ toQueue' = toQueue \o RemovedFromBgFreeSlotQueue(i)
  BY <1>2 DEF StartBattle, EndBattleGround, RemoveBattleGround, Send, Status
<1> HIDE DEF old
<1>6. /\ start \in Battles /\ start.players = old.players /\ start.m_hasBgFreeSlotQueue = old.m_hasBgFreeSlotQueue
      /\ end \in Battles /\ end.players = old.players /\ end.status = "wait_leave"
  BY <1>3 DEF Battles
<1>7. gone \in Battles /\ gone.players = {} /\ gone.status = "deleted"
  <2>1. Reset \in Battles /\ Reset.players = {} /\ "deleted" \in Statuses
    BY ResetTypes DEF Statuses, Reset
  <2>. QED
    BY <2>1 DEF Battles
<1> HIDE DEF start, end, gone, m, e
<1>8. \A b \in Battles : m_battleGrounds' = [m_battleGrounds EXCEPT ![i] = b] =>
         Created' = Created /\ \A j \in Created : m_battleGrounds'[j] = IF j = i THEN b ELSE m_battleGrounds[j]
  BY <1>2, BattleChanged
<1>9. \A ms \in Seq(ForQueue) : (\A k \in 1..Len(ms) : ms[k].type = "SetStatus") =>
         \E all \in Seq(ForQueue) : /\ all = RemovedFromBgFreeSlotQueue(i) \o ms
                                    /\ \A k \in 1..Len(all) : Closing(all[k], k, i)
  BY <1>3, CloseSends
<1>10. CASE m_battleGrounds' = [m_battleGrounds EXCEPT ![i] = start] /\ old.status = "wait_join" /\ toQueue' = toQueue \o <<m>>
  <2> DEFINE ms == <<m>>
  <2>1. ms \in Seq(ForQueue) /\ toQueue' = toQueue \o ms /\ \A k \in 1..Len(ms) : ms[k].type = "SetStatus"
    BY <1>4, <1>10
  <2> HIDE DEF ms
  <2>2. \A k \in 1..Len(ms) : Closing(ms[k], k, i)
    BY <2>1 DEF Closing
  <2>. QED
    BY <1>2, <1>6, <1>8, <1>10, <2>1, <2>2 DEF old
<1>11. CASE /\ m_battleGrounds' = [m_battleGrounds EXCEPT ![i] = end]
            /\ toQueue' = toQueue \o (RemovedFromBgFreeSlotQueue(i) \o <<e>>)
  <2> DEFINE ms == <<e>>
  <2>1. /\ ms \in Seq(ForQueue) /\ toQueue' = toQueue \o (RemovedFromBgFreeSlotQueue(i) \o ms)
        /\ \A k \in 1..Len(ms) : ms[k].type = "SetStatus"
    BY <1>4, <1>11
  <2> HIDE DEF ms
  <2>2. \E all \in Seq(ForQueue) : toQueue' = toQueue \o all /\ \A k \in 1..Len(all) : Closing(all[k], k, i)
    BY <1>9, <2>1
  <2>. QED
    BY <1>2, <1>6, <1>8, <1>11, <2>2 DEF old
<1>12. CASE /\ m_battleGrounds' = [m_battleGrounds EXCEPT ![i] = gone]
            /\ toQueue' = toQueue \o RemovedFromBgFreeSlotQueue(i)
  <2> DEFINE ms == <<>>
             first == RemovedFromBgFreeSlotQueue(i)
             r == [type |-> "RemoveBgFromFreeSlots", instanceId |-> i]
  <2>1. first = <<r>> \/ first = <<>>
    BY DEF RemovedFromBgFreeSlotQueue
  <2> HIDE DEF r
  <2>2. first \o ms = first /\ ms \in Seq(ForQueue) /\ \A k \in 1..Len(ms) : ms[k].type = "SetStatus"
    BY <2>1
  <2> HIDE DEF ms, first
  <2>3. \E all \in Seq(ForQueue) : toQueue' = toQueue \o all /\ \A k \in 1..Len(all) : Closing(all[k], k, i)
    BY <1>9, <1>12, <2>2 DEF first
  <2>. QED
    BY <1>2, <1>7, <1>8, <1>12, <2>3 DEF old
<1>. QED
  BY <1>5, <1>10, <1>11, <1>12

\* The invariant holds at first.
LEMMA StartsListed == Init => ListInv
<1> SUFFICES ASSUME Init PROVE ListInv
  OBVIOUS
<1>1. /\ m_queuedGroups = <<>> /\ m_bgFreeSlotQueue = <<>> /\ toQueue = <<>> /\ toWorld = <<>> /\ i_MaxInstanceId = 0
      /\ m_queuedPlayers = [p \in Players |-> None] /\ Created = {} /\ m_battleGrounds = <<>>
  BY DEF Init, Created
<1>2. QueueTypes
  <2>1. m_queueUpdateScheduler = FALSE
    BY DEF Init
  <2>. QED
    <3>1. m_queuedPlayers \in [Players -> Nat \union {None}]
      BY <1>1
    <3>2. <<>> \in Seq(Groups) /\ <<>> \in Seq(Infos) /\ 0 \in Nat /\ FALSE \in BOOLEAN
      OBVIOUS
    <3>. QED
      BY <1>1, <2>1, <3>1, <3>2 DEF QueueTypes
<1>3. MessageTypes
  BY <1>1 DEF MessageTypes
<1>4. WorldTypes
  <2>1. m_battleGrounds \in [Created -> Battles] /\ Created \subseteq 1..i_MaxInstanceId
    BY <1>1
  <2>2. online \in [Players -> BOOLEAN] /\ joins \in [Players -> Nat]
    BY DEF Init
  <2>3. away \in [Players -> {None} \union 0..i_MaxInstanceId] /\ bgInstanceID \in [Players -> 0..i_MaxInstanceId]
    BY <1>1 DEF Init
  <2>4. m_bgBattleGroundQueueID \in [Players -> [in : BOOLEAN, invitedToInstance : Nat]]
    BY DEF Init, NotQueued
  <2>5. m_events \in [Players -> SUBSET Timers]
    BY DEF Init
  <2>. QED
    BY <2>1, <2>2, <2>3, <2>4, <2>5 DEF WorldTypes
<1>5. InQueue
  BY <1>1 DEF InQueue, Instances, Removes, Adds, Receives
<1>6. OnItsWay
  BY <1>1 DEF OnItsWay, Creates, Enters, Tells
<1>7. Grouped
  BY <1>1 DEF Grouped
<1>. QED
  BY <1>2, <1>3, <1>4, <1>5, <1>6, <1>7 DEF ListInv, BgTypes, Listed

\* Every step keeps it.
LEMMA KeepsListed == ListInv /\ [Next]_vars => ListInv'
<1> SUFFICES ASSUME ListInv, [Next]_vars PROVE ListInv'
  OBVIOUS
<1>1. CASE QueueMessage
  BY <1>1, AddGroupStep, PortStep, LoggedOutStep, ExpiredStep, EntryStep, ListStep DEF QueueMessage
<1>2. CASE QueueUpdate
  BY <1>2, UpdateStep DEF QueueUpdate
<1>3. CASE WorldMessage
  BY <1>3, PlayerMessageStep, CountStep, CreateStep DEF WorldMessage
<1>4. ASSUME NEW p \in Players, Player(p) PROVE ListInv'
  <2>1. CASE HandleLeaveBattlefield(p)
    BY <2>1, LeaveStep DEF HandleLeaveBattlefield
  <2>. QED
    BY <1>4, <2>1, AskStep, LogoutStep, TravelStep DEF Player
<1>5. ASSUME NEW p \in Players, FireRemoveEvent(p) \/ WorldportAck(p) PROVE ListInv'
  BY <1>5, TravelStep, WorldportStep
<1>6. ASSUME NEW i \in Created, BattleGround(i) PROVE ListInv'
  <2>1. ASSUME NEW p \in Players, RemoveParticipant(p, i) PROVE ListInv'
    BY <2>1, LeaveStep DEF RemoveParticipant
  <2>. QED
    BY <1>6, <2>1, StartStep, EndStep, RemoveBattleStep DEF BattleGround
<1>7. CASE UNCHANGED vars
  <2>1. UNCHANGED <<m_queuedGroups, m_queuedPlayers, m_bgFreeSlotQueue, m_queueUpdateScheduler, i_MaxInstanceId,
                    toQueue, m_battleGrounds, online, away, bgInstanceID, m_bgBattleGroundQueueID, m_events, joins, toWorld>>
    BY <1>7 DEF vars, queue, world, player
  <2>2. BgTypes' /\ Grouped'
    BY <2>1 DEF ListInv, BgTypes, QueueTypes, MessageTypes, WorldTypes, Created, Grouped, HasGroup
  <2>3. InQueue'
    <3>1. /\ Instances' = Instances /\ Created' = Created
          /\ \A i : (Ended(i)' <=> Ended(i)) /\ (Twice(i)' <=> Twice(i))
          /\ \A i : Entries(m_bgFreeSlotQueue, i)' = Entries(m_bgFreeSlotQueue, i)
          /\ \A k, i : (Adds(k, i)' <=> Adds(k, i)) /\ (Removes(k, i)' <=> Removes(k, i))
      BY <2>1 DEF Instances, Created, Entries, Removes, Adds, Receives, Twice, Ended
    <3>. QED
      BY <2>1, <3>1 DEF ListInv, Listed, InQueue
  <2>4. OnItsWay'
    BY <2>1 DEF ListInv, Listed, OnItsWay, Instances, Created, Creates, Enters, Tells
  <2>. QED
    BY <2>2, <2>3, <2>4 DEF ListInv, Listed
<1>. QED
  BY <1>1, <1>2, <1>3, <1>4, <1>5, <1>6, <1>7 DEF Next

(***************************************************************************)
(* Every behaviour keeps the list of battlegrounds whole: an instance has  *)
(* an entry from the moment the queue has numbered it, and loses one only  *)
(* to a message that was sent for another of its entries.                  *)
(***************************************************************************)
THEOREM BgInductive == Spec => []ListInv
BY StartsListed, KeepsListed, PTL DEF Spec

(***************************************************************************)
(* An invited player who enters finds the entry of his battleground, for   *)
(* any number of players, whatever became of the battleground and whatever *)
(* is still on its way between the threads (BattleGroundHandler.cpp:488).  *)
(***************************************************************************)
THEOREM EntryFound == Spec => []BgInQueue
<1>1. ListInv => BgInQueue
  <2> SUFFICES ASSUME ListInv, NEW p \in Players, IsInvited(p)
               PROVE  Entries(m_bgFreeSlotQueue, Group(p).invitedTo) # {}
    BY DEF BgInQueue
  <2>1. BgTypes /\ Grouped /\ InQueue /\ m_queuedPlayers[p] # None /\ Group(p).invitedTo # 0 /\ i_MaxInstanceId \in Nat
    BY DEF ListInv, Listed, IsInvited, BgTypes, QueueTypes
  <2>2. Place(p) \in 1..Len(m_queuedGroups) /\ Group(p) = m_queuedGroups[Place(p)]
    BY <2>1, PlaceFact DEF Group
  <2>3. Group(p).invitedTo \in 0..i_MaxInstanceId
    BY <2>1, <2>2 DEF InQueue
  <2>4. Group(p).invitedTo \in Instances
    BY <2>1, <2>3 DEF Instances
  <2>. QED
    BY <2>1, <2>4 DEF InQueue
<1>. QED
  BY <1>1, BgInductive, PTL

-----------------------------------------------------------------------------
(* The timers of invitations.  The n-th group of a player has at most one, *)
(* wherever it is: in the message that starts it, among the events of the  *)
(* player, or in the messages that end it.                                 *)

Joins(k, p) == Receives(k, "AddGroup") /\ toQueue[k].player = p
Runs(k, p, n) == /\ Tells(k, "Invite") \/ Tells(k, "Timeout")
                 /\ toWorld[k].player = p /\ toWorld[k].removeInviteTime = n
Ends(k, p, n) == Receives(k, "Expired") /\ toQueue[k].player = p /\ toQueue[k].removeInviteTime = n
Pends(e, p, n) == e \in m_events[p] /\ e.removeInviteTime = n
Timed(p, n) == (\E k \in Nat : Runs(k, p, n) \/ Ends(k, p, n)) \/ \E e \in Timers : Pends(e, p, n)
Kept(p, n) == \E j \in Nat : HasGroup(j, p, n)

Alone(p, n) ==
    /\ \A k, l \in Nat : Runs(k, p, n) /\ Runs(l, p, n) => k = l
    /\ \A k, l \in Nat : Ends(k, p, n) /\ Ends(l, p, n) => k = l
    /\ \A k, l \in Nat : ~(Runs(k, p, n) /\ Ends(l, p, n))
    /\ \A e, f \in Timers : Pends(e, p, n) /\ Pends(f, p, n) => e = f
    /\ \A e \in Timers, k \in Nat : Pends(e, p, n) => ~Runs(k, p, n) /\ ~Ends(k, p, n)

\* A group that is not invited has no timer.
Free(p, n) == \A j \in Nat : HasGroup(j, p, n) /\ m_queuedGroups[j].invitedTo = 0 => ~Timed(p, n)

\* No two groups have a number, and those to come have higher ones.
OneGroup(p, n) == \A j, l \in Nat : HasGroup(j, p, n) /\ HasGroup(l, p, n) => j = l
Below(p, n) == Kept(p, n) \/ Timed(p, n) => n <= joins[p] /\ \A k \in Nat : Joins(k, p) => n < toQueue[k].number
InTurn(p) == \A k \in Nat : Joins(k, p) =>
                /\ toQueue[k].number <= joins[p]
                /\ \A l \in Nat : Joins(l, p) /\ k < l => toQueue[k].number < toQueue[l].number

Timing(p, n) == Alone(p, n) /\ Free(p, n) /\ OneGroup(p, n) /\ Below(p, n)
TimerInv == /\ \A p \in Players : InTurn(p)
            /\ \A p \in Players, n \in Nat : Timing(p, n)

\* What a step leaves of the messages of some kinds, above all of those that hold a number, of the timers and of the groups.
QueueShifted(T, d) == \A k \in Nat : k \in 1..Len(toQueue') /\ toQueue'[k].type \in T =>
                        k + d \in 1..Len(toQueue) /\ toQueue'[k] = toQueue[k + d]
WorldShifted(T, w) == \A k \in Nat : k \in 1..Len(toWorld') /\ toWorld'[k].type \in T =>
                        k + w \in 1..Len(toWorld) /\ toWorld'[k] = toWorld[k + w]
QueueKept(d) == QueueShifted({"AddGroup", "Expired"}, d)
JoinsKept(d) == QueueShifted({"AddGroup"}, d)
WorldKept(w) == WorldShifted({"Invite", "Timeout"}, w)
EventsKept == \A p \in Players : m_events'[p] \subseteq m_events[p]
Skip(at, j) == IF j < at THEN j ELSE j + 1
GroupsKept(at) == \A j \in Nat : j \in 1..Len(m_queuedGroups') =>
                     /\ Skip(at, j) \in 1..Len(m_queuedGroups)
                     /\ m_queuedGroups'[j].player = m_queuedGroups[Skip(at, j)].player
                     /\ m_queuedGroups'[j].number = m_queuedGroups[Skip(at, j)].number
                     /\ m_queuedGroups'[j].invitedTo = 0 => m_queuedGroups[Skip(at, j)].invitedTo = 0

\* A message of a number that is there after the step was there before.
LEMMA TokensKept ==
  ASSUME NEW p \in Players, NEW n \in Nat, NEW w \in {0, 1}, NEW d \in {0, 1}
  PROVE  /\ WorldKept(w) => \A k \in Nat : Runs(k, p, n)' => Runs(k + w, p, n) /\ k + w \in Nat
         /\ QueueKept(d) => \A k \in Nat : Ends(k, p, n)' => Ends(k + d, p, n) /\ k + d \in Nat
         /\ EventsKept => \A e \in Timers : Pends(e, p, n)' => Pends(e, p, n)
<1>1. ASSUME WorldKept(w), NEW k \in Nat, Runs(k, p, n)' PROVE Runs(k + w, p, n) /\ k + w \in Nat
  BY <1>1 DEF WorldKept, WorldShifted, Runs, Tells
<1>2. ASSUME QueueKept(d), NEW k \in Nat, Ends(k, p, n)' PROVE Ends(k + d, p, n) /\ k + d \in Nat
  BY <1>2 DEF QueueKept, QueueShifted, Ends, Receives
<1>3. ASSUME EventsKept, NEW e \in Timers, Pends(e, p, n)' PROVE Pends(e, p, n)
  BY <1>3 DEF EventsKept, Pends
<1>. QED
  BY <1>1, <1>2, <1>3

\* A step that adds no timer keeps at most one.
LEMMA TimersKept ==
  ASSUME NEW p \in Players, NEW n \in Nat, NEW w \in {0, 1}, NEW d \in {0, 1},
         WorldKept(w), QueueKept(d), EventsKept, Alone(p, n)
  PROVE  Alone(p, n)' /\ (Timed(p, n)' => Timed(p, n))
<1>1. \A k \in Nat : Runs(k, p, n)' => Runs(k + w, p, n) /\ k + w \in Nat
  BY TokensKept
<1>2. \A k \in Nat : Ends(k, p, n)' => Ends(k + d, p, n) /\ k + d \in Nat
  BY TokensKept
<1>3. \A e \in Timers : Pends(e, p, n)' => Pends(e, p, n)
  BY TokensKept
<1>4. /\ \A k, l \in Nat : k + w = l + w => k = l
      /\ \A k, l \in Nat : k + d = l + d => k = l
  OBVIOUS
<1>5. \A k, l \in Nat : Runs(k, p, n)' /\ Runs(l, p, n)' => k = l
  BY <1>1, <1>4 DEF Alone
<1>6. \A k, l \in Nat : Ends(k, p, n)' /\ Ends(l, p, n)' => k = l
  BY <1>2, <1>4 DEF Alone
<1>7. \A k, l \in Nat : ~(Runs(k, p, n)' /\ Ends(l, p, n)')
  BY <1>1, <1>2 DEF Alone
<1>8. \A e, f \in Timers : Pends(e, p, n)' /\ Pends(f, p, n)' => e = f
  BY <1>3 DEF Alone
<1>9. \A e \in Timers, k \in Nat : Pends(e, p, n)' => ~Runs(k, p, n)' /\ ~Ends(k, p, n)'
  BY <1>1, <1>2, <1>3 DEF Alone
<1>10. Alone(p, n)'
  BY <1>5, <1>6, <1>7, <1>8, <1>9 DEF Alone
<1>11. Timed(p, n)' => Timed(p, n)
  BY <1>1, <1>2, <1>3 DEF Timed
<1>. QED
  BY <1>10, <1>11

\* The groups left are groups that were there.
LEMMA GroupKept ==
  ASSUME NEW at \in Nat, GroupsKept(at), NEW p \in Players, NEW n \in Nat
  PROVE  /\ \A j \in Nat : HasGroup(j, p, n)' =>
               /\ HasGroup(Skip(at, j), p, n) /\ Skip(at, j) \in Nat
               /\ m_queuedGroups'[j].invitedTo = 0 => m_queuedGroups[Skip(at, j)].invitedTo = 0
         /\ OneGroup(p, n) => OneGroup(p, n)'
         /\ Kept(p, n)' => Kept(p, n)
<1>1. ASSUME NEW j \in Nat, HasGroup(j, p, n)'
      PROVE  /\ HasGroup(Skip(at, j), p, n) /\ Skip(at, j) \in Nat
             /\ m_queuedGroups'[j].invitedTo = 0 => m_queuedGroups[Skip(at, j)].invitedTo = 0
  <2>1. Skip(at, j) \in Nat
    BY DEF Skip
  <2>. QED
    BY <1>1, <2>1 DEF HasGroup, GroupsKept
<1>2. \A j, l \in Nat : Skip(at, j) = Skip(at, l) => j = l
  BY DEF Skip
<1>3. ASSUME OneGroup(p, n), NEW j \in Nat, NEW l \in Nat, HasGroup(j, p, n)', HasGroup(l, p, n)' PROVE j = l
  <2>1. /\ HasGroup(Skip(at, j), p, n) /\ Skip(at, j) \in Nat
        /\ HasGroup(Skip(at, l), p, n) /\ Skip(at, l) \in Nat
    BY <1>1, <1>3
  <2>2. Skip(at, j) = Skip(at, l)
    BY <1>3, <2>1 DEF OneGroup
  <2>. QED
    BY <1>2, <2>2
<1>4. Kept(p, n)' => Kept(p, n)
  BY <1>1 DEF Kept
<1>. QED
  BY <1>1, <1>3, <1>4 DEF OneGroup

\* No request to join is new.
LEMMA JoinKept ==
  ASSUME NEW d \in {0, 1}, JoinsKept(d), NEW p \in Players
  PROVE  \A k \in Nat : Joins(k, p)' => Joins(k + d, p) /\ toQueue'[k] = toQueue[k + d] /\ k + d \in Nat
BY DEF JoinsKept, QueueShifted, Joins, Receives

\* Without a new number, the numbers stay in turn.
LEMMA NumbersKept ==
  ASSUME TimerInv, joins' = joins, NEW d \in {0, 1}, JoinsKept(d), NEW at \in Nat, GroupsKept(at),
         \A p \in Players, n \in Nat : /\ Alone(p, n)' /\ Free(p, n)'
                                       /\ Timed(p, n)' => Timed(p, n) \/ Kept(p, n)
  PROVE  TimerInv'
<1>1. ASSUME NEW p \in Players PROVE InTurn(p)'
  <2>1. \A k \in Nat : Joins(k, p)' => Joins(k + d, p) /\ toQueue'[k] = toQueue[k + d] /\ k + d \in Nat
    BY JoinKept
  <2>2. InTurn(p)
    BY DEF TimerInv
  <2>3. \A k, l \in Nat : k < l => k + d < l + d
    OBVIOUS
  <2>4. ASSUME NEW k \in Nat, Joins(k, p)' PROVE toQueue'[k].number <= joins'[p]
    BY <2>1, <2>2, <2>4 DEF InTurn
  <2>5. ASSUME NEW k \in Nat, Joins(k, p)', NEW l \in Nat, Joins(l, p)', k < l
        PROVE  toQueue'[k].number < toQueue'[l].number
    BY <2>1, <2>2, <2>3, <2>5 DEF InTurn
  <2>. QED
    BY <2>4, <2>5 DEF InTurn
<1>2. ASSUME NEW p \in Players, NEW n \in Nat PROVE Timing(p, n)'
  <2>1. OneGroup(p, n) /\ Below(p, n)
    BY DEF TimerInv, Timing
  <2>2. OneGroup(p, n)' /\ (Kept(p, n)' => Kept(p, n))
    BY <2>1, GroupKept
  <2>3. Below(p, n)'
    <3> SUFFICES ASSUME Kept(p, n)' \/ Timed(p, n)'
                 PROVE  n <= joins'[p] /\ \A k \in Nat : Joins(k, p)' => n < toQueue'[k].number
      BY DEF Below
    <3>1. n <= joins[p] /\ \A k \in Nat : Joins(k, p) => n < toQueue[k].number
      BY <2>1, <2>2 DEF Below
    <3>2. \A k \in Nat : Joins(k, p)' => Joins(k + d, p) /\ toQueue'[k] = toQueue[k + d] /\ k + d \in Nat
      BY JoinKept
    <3>. QED
      BY <3>1, <3>2
  <2>. QED
    BY <2>2, <2>3 DEF Timing
<1>. QED
  BY <1>1, <1>2 DEF TimerInv

\* A group that is left without an invitation has no timer.
LEMMA FreeKept ==
  ASSUME NEW at \in Nat, GroupsKept(at), NEW p \in Players, NEW n \in Nat, Free(p, n), Timed(p, n)' => Timed(p, n)
  PROVE  Free(p, n)'
<1>1. \A j \in Nat : HasGroup(j, p, n)' =>
         /\ HasGroup(Skip(at, j), p, n) /\ Skip(at, j) \in Nat
         /\ m_queuedGroups'[j].invitedTo = 0 => m_queuedGroups[Skip(at, j)].invitedTo = 0
  BY GroupKept
<1>. QED
  BY <1>1 DEF Free

\* A step that starts no timer and adds no number.
LEMMA PlainStep ==
  ASSUME TimerInv, joins' = joins, NEW w \in {0, 1}, NEW d \in {0, 1}, NEW at \in Nat,
         WorldKept(w), QueueKept(d), EventsKept, GroupsKept(at)
  PROVE  TimerInv'
<1>1. ASSUME NEW p \in Players, NEW n \in Nat
      PROVE  Alone(p, n)' /\ Free(p, n)' /\ (Timed(p, n)' => Timed(p, n))
  <2>1. Alone(p, n) /\ Free(p, n)
    BY DEF TimerInv, Timing
  <2>2. Alone(p, n)' /\ (Timed(p, n)' => Timed(p, n))
    BY <2>1, TimersKept
  <2>3. Free(p, n)'
    BY <2>1, <2>2, FreeKept
  <2>. QED
    BY <2>2, <2>3
<1>2. JoinsKept(d)
  BY DEF QueueKept, JoinsKept, QueueShifted
<1>. QED
  BY <1>1, <1>2, NumbersKept

\* Messages that hold no number of a group.
Quiet(m) == m.type \notin {"AddGroup", "Expired", "Invite", "Timeout"}

\* The messages to the queue: as they were, one executed, or some of other kinds sent.
LEMMA QueueShift ==
  ASSUME BgTypes
  PROVE  \A T : /\ toQueue' = toQueue => QueueShifted(T, 0)
                /\ toQueue # <<>> /\ toQueue' = Tail(toQueue) => QueueShifted(T, 1)
<1>1. toQueue \in Seq(ForQueue)
  BY DEF BgTypes, MessageTypes
<1>2. ASSUME NEW T, toQueue' = toQueue PROVE QueueShifted(T, 0)
  BY <1>2 DEF QueueShifted
<1>3. ASSUME NEW T, toQueue # <<>>, toQueue' = Tail(toQueue) PROVE QueueShifted(T, 1)
  BY <1>3, QueuePopped DEF QueueShifted
<1>. QED
  BY <1>2, <1>3

\* The messages to the world likewise.
LEMMA WorldShift ==
  ASSUME BgTypes
  PROVE  \A T : /\ toWorld' = toWorld => WorldShifted(T, 0)
                /\ toWorld # <<>> /\ toWorld' = Tail(toWorld) => WorldShifted(T, 1)
<1>1. toWorld \in Seq(ForWorld)
  BY DEF BgTypes, MessageTypes
<1>2. ASSUME NEW T, toWorld' = toWorld PROVE WorldShifted(T, 0)
  BY <1>2 DEF WorldShifted
<1>3. ASSUME NEW T, toWorld # <<>>, toWorld' = Tail(toWorld) PROVE WorldShifted(T, 1)
  BY <1>3, WorldPopped DEF WorldShifted
<1>. QED
  BY <1>2, <1>3

\* Messages sent, when they are of other kinds.
LEMMA QueueSent ==
  ASSUME BgTypes, NEW T, NEW S, NEW ms \in Seq(S), toQueue' = toQueue \o ms, \A m \in 1..Len(ms) : ms[m].type \notin T
  PROVE  QueueShifted(T, 0)
<1> DEFINE U == ForQueue \union S
<1>1. toQueue \in Seq(ForQueue)
  BY DEF BgTypes, MessageTypes
<1>2. toQueue \in Seq(U) /\ ms \in Seq(U)
  BY <1>1
<1> HIDE DEF U
<1>3. \A k \in 1..Len(toQueue') : \/ k \in 1..Len(toQueue) /\ toQueue'[k] = toQueue[k]
                                  \/ k - Len(toQueue) \in 1..Len(ms) /\ toQueue'[k] = ms[k - Len(toQueue)]
  BY <1>2, Joined
<1>. QED
  BY <1>3 DEF QueueShifted

\* To the world likewise.
LEMMA WorldSent ==
  ASSUME BgTypes, NEW T, NEW ms \in Seq(ForWorld), toWorld' = toWorld \o ms, \A m \in 1..Len(ms) : ms[m].type \notin T
  PROVE  WorldShifted(T, 0)
<1>1. toWorld \in Seq(ForWorld)
  BY DEF BgTypes, MessageTypes
<1>2. \A k \in 1..Len(toWorld') : \/ k \in 1..Len(toWorld) /\ toWorld'[k] = toWorld[k]
                                  \/ k - Len(toWorld) \in 1..Len(ms) /\ toWorld'[k] = ms[k - Len(toWorld)]
  BY <1>1, Joined
<1>. QED
  BY <1>2 DEF WorldShifted

\* One message more, to the queue or to the world.
LEMMA QuietOne ==
  /\ \A m \in ForQueue : Quiet(m) => <<m>> \in Seq(ForQueue) /\ \A k \in 1..Len(<<m>>) : Quiet(<<m>>[k])
  /\ \A m \in ForWorld : Quiet(m) => <<m>> \in Seq(ForWorld) /\ \A k \in 1..Len(<<m>>) : Quiet(<<m>>[k])
<1>1. \A S : \A m \in S : <<m>> \in Seq(S) /\ Len(<<m>>) = 1 /\ <<m>>[1] = m
  OBVIOUS
<1>2. \A k \in 1..1 : k = 1
  OBVIOUS
<1>. QED
  BY <1>1, <1>2

\* The groups: all of them, or all but one.
LEMMA GroupsShift ==
  ASSUME BgTypes
  PROVE  /\ m_queuedGroups' = m_queuedGroups => GroupsKept(Len(m_queuedGroups) + 1)
         /\ \A at \in 1..Len(m_queuedGroups) : m_queuedGroups' = RemoveAt(m_queuedGroups, at) => GroupsKept(at)
         /\ Len(m_queuedGroups) + 1 \in Nat
<1>1. m_queuedGroups \in Seq(Groups) /\ Len(m_queuedGroups) \in Nat
  BY DEF BgTypes, QueueTypes
<1>2. ASSUME m_queuedGroups' = m_queuedGroups PROVE GroupsKept(Len(m_queuedGroups) + 1)
  <2>1. \A j \in 1..Len(m_queuedGroups) : Skip(Len(m_queuedGroups) + 1, j) = j
    BY <1>1 DEF Skip
  <2>. QED
    BY <1>2, <2>1 DEF GroupsKept
<1>3. ASSUME NEW at \in 1..Len(m_queuedGroups), m_queuedGroups' = RemoveAt(m_queuedGroups, at) PROVE GroupsKept(at)
  <2>1. /\ Len(m_queuedGroups') = Len(m_queuedGroups) - 1
        /\ \A j \in 1..(Len(m_queuedGroups) - 1) : m_queuedGroups'[j] = IF j < at THEN m_queuedGroups[j] ELSE m_queuedGroups[j + 1]
    BY <1>1, <1>3, RemoveAtFact
  <2>2. \A j \in 1..(Len(m_queuedGroups) - 1) : Skip(at, j) \in 1..Len(m_queuedGroups)
                                                /\ m_queuedGroups'[j] = m_queuedGroups[Skip(at, j)]
    BY <1>1, <2>1 DEF Skip
  <2>. QED
    BY <2>1, <2>2 DEF GroupsKept
<1>. QED
  BY <1>1, <1>2, <1>3

\* The queue executes a message, and loses no group or one.
LEMMA QueueStep ==
  ASSUME ListInv, TimerInv, UNCHANGED world, toQueue # <<>>, toQueue' = Tail(toQueue), NEW at \in Nat, GroupsKept(at),
         \E ms \in Seq(ForWorld) : toWorld' = toWorld \o ms /\ \A m \in 1..Len(ms) : Quiet(ms[m])
  PROVE  TimerInv'
<1>1. BgTypes
  BY DEF ListInv
<1>2. joins' = joins /\ EventsKept
  BY DEF world, player, EventsKept
<1>3. QueueKept(1)
  BY <1>1, QueueShift DEF QueueKept
<1>4. WorldKept(0)
  <2>1. PICK ms \in Seq(ForWorld) : toWorld' = toWorld \o ms /\ \A m \in 1..Len(ms) : Quiet(ms[m])
    OBVIOUS
  <2> DEFINE T == {"Invite", "Timeout"}
  <2>2. \A m \in 1..Len(ms) : ms[m].type \notin T
    BY <2>1 DEF Quiet
  <2> HIDE DEF T
  <2>3. WorldShifted(T, 0)
    BY <1>1, <2>1, <2>2, WorldSent
  <2>. QED
    BY <2>3 DEF WorldKept, T
<1>5. 0 \in {0, 1} /\ 1 \in {0, 1}
  OBVIOUS
<1>. QED
  BY <1>2, <1>3, <1>5, <1>4, PlainStep

\* Messages that hold no number.
LEMMA SentQuiet ==
  ASSUME BgTypes, NEW S, NEW ms \in Seq(S), toQueue' = toQueue \o ms, \A m \in 1..Len(ms) : Quiet(ms[m])
  PROVE  QueueKept(0)
<1> DEFINE T == {"AddGroup", "Expired"}
<1>1. \A m \in 1..Len(ms) : ms[m].type \notin T
  BY DEF Quiet
<1> HIDE DEF T
<1>2. QueueShifted(T, 0)
  BY <1>1, QueueSent
<1>. QED
  BY <1>2 DEF QueueKept, QueueShifted, T

\* The world executes a message that holds no number, or nothing happens to the messages.
LEMMA WorldStep ==
  ASSUME ListInv, TimerInv, UNCHANGED <<queue, joins>>, EventsKept,
         \/ toWorld' = toWorld
         \/ toWorld # <<>> /\ toWorld' = Tail(toWorld),
         QueueKept(0)
  PROVE  TimerInv'
<1>1. BgTypes
  BY DEF ListInv
<1>2. m_queuedGroups' = m_queuedGroups /\ joins' = joins
  BY DEF queue
<1>3. WorldKept(0) \/ WorldKept(1)
  BY <1>1, WorldShift DEF WorldKept
<1>4. GroupsKept(Len(m_queuedGroups) + 1) /\ Len(m_queuedGroups) + 1 \in Nat
  BY <1>1, <1>2, GroupsShift
<1>5. 0 \in {0, 1} /\ 1 \in {0, 1}
  OBVIOUS
<1>. QED
  BY <1>2, <1>3, <1>4, <1>5, PlainStep

\* The queue executes a message that is not about a player, and may tell of a count.
LEMMA CountSent ==
  ASSUME BgTypes,
         \/ PortRefused \/ SetStatusInQueue \/ AddBgToFreeSlots \/ RemoveBgFromFreeSlots
         \/ DecreaseInvitedCount \/ ScheduleQueueUpdate
  PROVE  /\ UNCHANGED world /\ UNCHANGED <<m_queuedGroups, m_queuedPlayers>>
         /\ toQueue # <<>> /\ toQueue' = Tail(toQueue)
         /\ toWorld' = toWorld \/ \E m \in ForWorld : m.type = "SetInvitedCount" /\ toWorld' = Append(toWorld, m)
<1>1. toWorld \in Seq(ForWorld)
  BY DEF BgTypes, MessageTypes
<1>2. /\ UNCHANGED world /\ UNCHANGED <<m_queuedGroups, m_queuedPlayers>> /\ toQueue # <<>> /\ toQueue' = Tail(toQueue)
  BY DEF PortRefused, SetStatusInQueue, AddBgToFreeSlots, RemoveBgFromFreeSlots, DecreaseInvitedCount,
         ScheduleQueueUpdate, ToQueue, queue
<1>3. toWorld' = toWorld \/ \E m \in ForWorld : m.type = "SetInvitedCount" /\ toWorld' = Append(toWorld, m)
  <2>1. CASE DecreaseInvitedCount
    <3> DEFINE k == GetFreeSlotInstance(m_bgFreeSlotQueue, Received.instanceId)
               count == Minus(m_bgFreeSlotQueue[k].invited[Received.team])
               m == Count(Received.instanceId, Received.team, count)
    <3>1. CASE Entries(m_bgFreeSlotQueue, Received.instanceId) = {}
      BY <2>1, <3>1 DEF DecreaseInvitedCount
    <3>2. CASE Entries(m_bgFreeSlotQueue, Received.instanceId) # {}
      <4>1. toWorld' = Append(toWorld, m)
        BY <2>1, <3>2 DEF DecreaseInvitedCount
      <4>2. m_bgFreeSlotQueue \in Seq(Infos)
        BY <1>1 DEF BgTypes, QueueTypes
      <4>3. Received \in ForQueue /\ Received.type = "DecreaseInvitedCount"
        BY <1>1, <1>2, <2>1, QueuePopped DEF Received, DecreaseInvitedCount, ToQueue
      <4>4. Received.instanceId \in Nat /\ Received.team \in Teams
        BY <4>3, QueueKinds
      <4>5. m_bgFreeSlotQueue[k] \in Infos
        BY <3>2, <4>2, FirstEntry
      <4>6. m_bgFreeSlotQueue[k].invited \in Counts
        BY <4>5 DEF Infos
      <4>7. m_bgFreeSlotQueue[k].invited[Received.team] \in 0..MaxCount
        BY <4>4, <4>6 DEF Counts
      <4>8. count \in 0..MaxCount
        <5> DEFINE c == m_bgFreeSlotQueue[k].invited[Received.team]
        <5> HIDE DEF k, c
        <5>. QED
          BY <4>7, MinusFact DEF c
      <4> HIDE DEF count, k
      <4>9. m \in ForWorld
        BY <4>4, <4>8, WorldMembers
      <4>10. m.type = "SetInvitedCount"
        BY DEF Count
      <4> HIDE DEF m
      <4>. QED
        BY <4>1, <4>9, <4>10
    <3>. QED
      BY <3>1, <3>2
  <2>2. CASE \/ PortRefused \/ SetStatusInQueue \/ AddBgToFreeSlots \/ RemoveBgFromFreeSlots \/ ScheduleQueueUpdate
    BY <2>2 DEF PortRefused, SetStatusInQueue, AddBgToFreeSlots, RemoveBgFromFreeSlots, ScheduleQueueUpdate
  <2>. QED
    BY <2>1, <2>2
<1>. QED
  BY <1>2, <1>3

\* The queue executes a message that is not about a player.
LEMMA QuietStep ==
  ASSUME ListInv, TimerInv,
         \/ PortRefused \/ SetStatusInQueue \/ AddBgToFreeSlots \/ RemoveBgFromFreeSlots
         \/ DecreaseInvitedCount \/ ScheduleQueueUpdate
  PROVE  TimerInv'
<1>1. BgTypes /\ toWorld \in Seq(ForWorld)
  BY DEF ListInv, BgTypes, MessageTypes
<1>2. /\ UNCHANGED world /\ m_queuedGroups' = m_queuedGroups /\ toQueue # <<>> /\ toQueue' = Tail(toQueue)
  BY <1>1, CountSent
<1>3. \/ toWorld' = toWorld
      \/ \E m \in ForWorld : Quiet(m) /\ toWorld' = toWorld \o <<m>>
  <2>1. CASE \E m \in ForWorld : m.type = "SetInvitedCount" /\ toWorld' = Append(toWorld, m)
    <3>1. PICK m \in ForWorld : m.type = "SetInvitedCount" /\ toWorld' = Append(toWorld, m)
      BY <2>1
    <3>2. Quiet(m) /\ toWorld' = toWorld \o <<m>>
      BY <1>1, <3>1 DEF Quiet
    <3>. QED
      BY <3>2
  <2>. QED
    BY <1>1, <2>1, CountSent
<1>4. \E ms \in Seq(ForWorld) : toWorld' = toWorld \o ms /\ \A m \in 1..Len(ms) : Quiet(ms[m])
  <2>1. CASE toWorld' = toWorld
    BY <1>1, <2>1, NothingSent
  <2>2. CASE \E m \in ForWorld : Quiet(m) /\ toWorld' = toWorld \o <<m>>
    BY <2>2, QuietOne
  <2>. QED
    BY <1>3, <2>1, <2>2
<1>5. GroupsKept(Len(m_queuedGroups) + 1) /\ Len(m_queuedGroups) + 1 \in Nat
  BY <1>1, <1>2, GroupsShift
<1>. QED
  BY <1>2, <1>4, <1>5, QueueStep

\* A player is taken out of the queue.
LEMMA TakenOut ==
  ASSUME ListInv, TimerInv, UNCHANGED world, toQueue # <<>>, toQueue' = Tail(toQueue),
         NEW p \in Players, m_queuedPlayers[p] # None,
         NEW decrease \in BOOLEAN, NEW messages \in Seq(ForWorld), RemovePlayer(p, decrease, messages),
         \A m \in 1..Len(messages) : Quiet(messages[m])
  PROVE  TimerInv'
<1>1. BgTypes /\ InQueue /\ Grouped
  BY DEF ListInv, Listed
<1>2. m_queuedGroups' = RemoveAt(m_queuedGroups, Place(p)) /\ Sends(messages)
  BY <1>1, RemovePlayerFact
<1>3. Place(p) \in 1..Len(m_queuedGroups)
  BY <1>1, PlaceFact
<1>4. GroupsKept(Place(p)) /\ Place(p) \in Nat
  BY <1>1, <1>2, <1>3, GroupsShift
<1>5. \E ms \in Seq(ForWorld) : toWorld' = toWorld \o ms /\ \A m \in 1..Len(ms) : Quiet(ms[m])
  <2>1. PICK all \in Seq(ForWorld) :
           /\ toWorld' = toWorld \o all
           /\ \A m \in 1..Len(all) : all[m].type = "SetInvitedCount" \/ \E l \in 1..Len(messages) : all[m] = messages[l]
    BY <1>2 DEF Sends
  <2>2. \A m \in 1..Len(all) : Quiet(all[m])
    BY <2>1 DEF Quiet
  <2>. QED
    BY <2>1, <2>2
<1>. QED
  BY <1>4, <1>5, QueueStep

\* An answer, a player who has logged out, or an invitation that has expired.
LEMMA AnswerStep ==
  ASSUME ListInv, TimerInv, PortEnter \/ PortLeave \/ LoggedOut \/ Expired
  PROVE  TimerInv'
<1> DEFINE p == Received.player
           i == Group(p).invitedTo
           enter == <<[type |-> "Enter", player |-> p, instanceId |-> i]>>
           left == <<[type |-> "Left", player |-> p]>>
<1>1. BgTypes /\ toWorld \in Seq(ForWorld) /\ Grouped
  BY DEF ListInv, BgTypes, MessageTypes
<1>2. UNCHANGED world /\ toQueue # <<>> /\ toQueue' = Tail(toQueue)
      /\ Received.type \in {"Port", "LoggedOut", "Expired"}
  BY DEF PortEnter, PortLeave, LoggedOut, Expired, ToQueue, Received
<1>3. p \in Players
  <2>1. Received \in ForQueue
    BY <1>1, <1>2, QueuePopped DEF Received
  <2>. QED
    BY <1>2, <2>1, QueueKinds
<1>4. \/ m_queuedPlayers[p] # None /\ RemovePlayer(p, FALSE, enter)
      \/ m_queuedPlayers[p] # None /\ RemovePlayer(p, TRUE, left)
      \/ m_queuedPlayers[p] # None /\ RemovePlayer(p, TRUE, <<>>)
      \/ m_queuedGroups' = m_queuedGroups /\ toWorld' = toWorld
  BY DEF PortEnter, PortLeave, LoggedOut, Expired, IsInvited, IsPlayerInvited, queue
<1> HIDE DEF p
<1>5. left \in Seq(ForWorld) /\ \A m \in 1..Len(left) : Quiet(left[m])
  <2> DEFINE x == [type |-> "Left", player |-> p]
  <2>1. x \in ForWorld /\ Quiet(x)
    BY <1>3, WorldMembers DEF Quiet
  <2> HIDE DEF x
  <2>2. <<x>> \in Seq(ForWorld) /\ \A k \in 1..Len(<<x>>) : Quiet(<<x>>[k])
    BY <2>1, QuietOne
  <2>. QED
    BY <2>2 DEF x
<1>6. m_queuedPlayers[p] # None => enter \in Seq(ForWorld) /\ \A m \in 1..Len(enter) : Quiet(enter[m])
  <2> SUFFICES ASSUME m_queuedPlayers[p] # None
               PROVE  enter \in Seq(ForWorld) /\ \A m \in 1..Len(enter) : Quiet(enter[m])
    OBVIOUS
  <2>1. i \in Nat
    BY <1>1, <1>3, PlaceFact DEF Groups
  <2> HIDE DEF i
  <2> DEFINE x == [type |-> "Enter", player |-> p, instanceId |-> i]
  <2>2. x \in ForWorld /\ Quiet(x)
    BY <1>3, <2>1, WorldMembers DEF Quiet
  <2> HIDE DEF x
  <2>3. <<x>> \in Seq(ForWorld) /\ \A k \in 1..Len(<<x>>) : Quiet(<<x>>[k])
    BY <2>2, QuietOne
  <2>. QED
    BY <2>3 DEF x
<1>7. <<>> \in Seq(ForWorld) /\ \A m \in 1..Len(<<>>) : Quiet(<<>>[m])
  OBVIOUS
<1>8. TRUE \in BOOLEAN /\ FALSE \in BOOLEAN
  OBVIOUS
<1>9. CASE m_queuedGroups' = m_queuedGroups /\ toWorld' = toWorld
  <2>1. GroupsKept(Len(m_queuedGroups) + 1) /\ Len(m_queuedGroups) + 1 \in Nat
    BY <1>1, <1>9, GroupsShift
  <2>2. \E ms \in Seq(ForWorld) : toWorld' = toWorld \o ms /\ \A m \in 1..Len(ms) : Quiet(ms[m])
    BY <1>1, <1>9, NothingSent
  <2>. QED
    BY <1>2, <2>1, <2>2, QueueStep
<1> HIDE DEF enter, left
<1>10. CASE m_queuedPlayers[p] # None /\ RemovePlayer(p, FALSE, enter)
  BY <1>2, <1>3, <1>6, <1>8, <1>10, TakenOut
<1>11. CASE m_queuedPlayers[p] # None /\ RemovePlayer(p, TRUE, left)
  BY <1>2, <1>3, <1>5, <1>8, <1>11, TakenOut
<1>12. CASE m_queuedPlayers[p] # None /\ RemovePlayer(p, TRUE, <<>>)
  <2> DEFINE none == <<>>
  <2>1. none \in Seq(ForWorld) /\ (\A m \in 1..Len(none) : Quiet(none[m])) /\ RemovePlayer(p, TRUE, none)
    BY <1>7, <1>12
  <2> HIDE DEF none
  <2>. QED
    BY <1>2, <1>3, <1>8, <1>12, <2>1, TakenOut
<1>. QED
  BY <1>4, <1>9, <1>10, <1>11, <1>12

\* A player joins: his number is above those of his groups and timers, and below those still to come.
LEMMA JoinsQueue ==
  ASSUME ListInv, TimerInv, AddGroup
  PROVE  TimerInv'
<1> DEFINE who == Received.player
           num == Received.number
           g == [number |-> num, player |-> who, invitedTo |-> 0]
           m == [type |-> "Queued", player |-> who]
           n == Len(m_queuedGroups)
<1>1. /\ BgTypes /\ toWorld \in Seq(ForWorld) /\ m_queuedGroups \in Seq(Groups) /\ n \in Nat
  BY DEF ListInv, BgTypes, MessageTypes, QueueTypes
<1>2. /\ toQueue # <<>> /\ toQueue' = Tail(toQueue) /\ Received.type = "AddGroup" /\ UNCHANGED world
      /\ m_queuedGroups' = Append(m_queuedGroups, g) /\ toWorld' = Append(toWorld, m)
  BY DEF AddGroup, ToQueue, Received
<1>3. /\ Received \in ForQueue /\ Received = toQueue[1] /\ 1 \in 1..Len(toQueue) /\ Len(toQueue) \in Nat
  BY <1>1, <1>2, QueuePopped DEF Received
<1>4. who \in Players /\ num \in Nat
  BY <1>2, <1>3, QueueKinds
<1>5. Joins(1, who) /\ toQueue[1].number = num
  BY <1>2, <1>3 DEF Joins, Receives
<1>6. g \in Groups /\ g.number = num /\ g.player = who
  BY <1>4 DEF Groups
<1>7. joins' = joins /\ EventsKept
  BY <1>2 DEF world, player, EventsKept
<1>8. QueueKept(1) /\ JoinsKept(1)
  <2>1. QueueKept(1)
    BY <1>1, <1>2, QueueShift DEF QueueKept
  <2>. QED
    BY <2>1 DEF QueueKept, JoinsKept, QueueShifted
<1>9. WorldKept(0)
  <2>1. m \in ForWorld /\ Quiet(m)
    BY <1>4, WorldMembers DEF Quiet
  <2> HIDE DEF m
  <2> DEFINE ms == <<m>>
             T == {"Invite", "Timeout"}
  <2>2. ms \in Seq(ForWorld) /\ \A k \in 1..Len(ms) : ms[k].type \notin T
    BY <2>1, QuietOne DEF Quiet
  <2>3. toWorld' = toWorld \o ms
    BY <1>1, <1>2, <2>1
  <2> HIDE DEF ms, T
  <2>4. WorldShifted(T, 0)
    BY <1>1, <2>2, <2>3, WorldSent
  <2>. QED
    BY <2>4 DEF WorldKept, T
<1>10. 0 \in {0, 1} /\ 1 \in {0, 1}
  OBVIOUS
<1> HIDE DEF who, num, g, m
<1>11. /\ Len(m_queuedGroups') = n + 1 /\ m_queuedGroups'[n + 1] = g
       /\ \A j \in 1..n : m_queuedGroups'[j] = m_queuedGroups[j]
  BY <1>1, <1>2, <1>6
<1>12. ASSUME NEW p \in Players, NEW k \in Nat
       PROVE  \A j \in Nat : HasGroup(j, p, k)' =>
                 \/ HasGroup(j, p, k) /\ m_queuedGroups'[j] = m_queuedGroups[j]
                 \/ j = n + 1 /\ p = who /\ k = num
  BY <1>1, <1>6, <1>11 DEF HasGroup
<1>13. \A p \in Players, k \in Nat : Alone(p, k)' /\ (Timed(p, k)' => Timed(p, k))
  <2> TAKE p \in Players, k \in Nat
  <2>1. Alone(p, k)
    BY DEF TimerInv, Timing
  <2>. QED
    BY <1>7, <1>8, <1>9, <1>10, <2>1, TimersKept
<1>14. ~Kept(who, num) /\ ~Timed(who, num)
  <2>1. Below(who, num)
    BY <1>4 DEF TimerInv, Timing
  <2>2. 1 \in Nat /\ ~(num < num)
    BY <1>4
  <2>. QED
    BY <1>5, <2>1, <2>2 DEF Below
<1>15. ASSUME NEW p \in Players PROVE InTurn(p)'
  <2>1. \A k \in Nat : Joins(k, p)' => Joins(k + 1, p) /\ toQueue'[k] = toQueue[k + 1] /\ k + 1 \in Nat
    BY <1>8, <1>10, JoinKept
  <2>2. InTurn(p)
    BY DEF TimerInv
  <2>3. \A k, l \in Nat : k < l => k + 1 < l + 1
    OBVIOUS
  <2>4. ASSUME NEW k \in Nat, Joins(k, p)' PROVE toQueue'[k].number <= joins'[p]
    BY <1>7, <2>1, <2>2, <2>4 DEF InTurn
  <2>5. ASSUME NEW k \in Nat, Joins(k, p)', NEW l \in Nat, Joins(l, p)', k < l
        PROVE  toQueue'[k].number < toQueue'[l].number
    BY <2>1, <2>2, <2>3, <2>5 DEF InTurn
  <2>. QED
    BY <2>4, <2>5 DEF InTurn
<1>16. ASSUME NEW p \in Players, NEW k \in Nat PROVE Timing(p, k)'
  <2>1. Free(p, k) /\ OneGroup(p, k) /\ Below(p, k)
    BY DEF TimerInv, Timing
  <2>2. \A j \in Nat : HasGroup(j, p, k)' =>
           \/ HasGroup(j, p, k) /\ m_queuedGroups'[j] = m_queuedGroups[j]
           \/ j = n + 1 /\ p = who /\ k = num
    BY <1>12
  <2>3. Alone(p, k)' /\ (Timed(p, k)' => Timed(p, k))
    BY <1>13
  <2>4. Free(p, k)'
    BY <1>14, <2>1, <2>2, <2>3 DEF Free
  <2>5. OneGroup(p, k)'
    BY <1>14, <2>1, <2>2 DEF OneGroup, Kept
  <2>6. Below(p, k)'
    <3> SUFFICES ASSUME Kept(p, k)' \/ Timed(p, k)'
                 PROVE  k <= joins'[p] /\ \A l \in Nat : Joins(l, p)' => k < toQueue'[l].number
      BY DEF Below
    <3>1. \A l \in Nat : Joins(l, p)' => Joins(l + 1, p) /\ toQueue'[l] = toQueue[l + 1] /\ l + 1 \in Nat
      BY <1>8, <1>10, JoinKept
    <3>2. Kept(p, k) \/ Timed(p, k) \/ (p = who /\ k = num)
      BY <2>2, <2>3 DEF Kept
    <3>3. CASE Kept(p, k) \/ Timed(p, k)
      BY <1>7, <2>1, <3>1, <3>3 DEF Below
    <3>4. CASE p = who /\ k = num
      <4>1. InTurn(who)
        BY <1>4 DEF TimerInv
      <4>2. num <= joins[who]
        BY <1>5, <4>1 DEF InTurn
      <4>3. ASSUME NEW l \in Nat, Joins(l, p)' PROVE num < toQueue'[l].number
        <5>1. Joins(l + 1, who) /\ toQueue'[l] = toQueue[l + 1] /\ l + 1 \in Nat /\ l # 0
          BY <3>1, <3>4, <4>3 DEF Joins, Receives
        <5>2. 1 < l + 1 /\ 1 \in Nat
          BY <5>1
        <5>. QED
          BY <1>5, <4>1, <5>1, <5>2 DEF InTurn
      <4>. QED
        BY <1>7, <3>4, <4>2, <4>3
    <3>. QED
      BY <3>2, <3>3, <3>4
  <2>. QED
    BY <2>3, <2>4, <2>5, <2>6 DEF Timing
<1>. QED
  BY <1>15, <1>16 DEF TimerInv

\* An update starts the timer of a group that had none, once.
LEMMA InvitesOnce ==
  ASSUME ListInv, TimerInv, Update
  PROVE  TimerInv'
<1> DEFINE max == i_MaxInstanceId
           n == Len(toWorld)
<1>1. /\ BgTypes /\ Listed /\ toWorld \in Seq(ForWorld) /\ m_queuedGroups \in Seq(Groups) /\ n \in Nat /\ max \in Nat
  BY DEF ListInv, BgTypes, MessageTypes, QueueTypes
<1>2. UNCHANGED <<toQueue, world>>
  BY DEF Update
<1>3. joins' = joins /\ EventsKept
  BY <1>2 DEF world, player, EventsKept
<1>4. JoinsKept(0) /\ 0 \in {0, 1}
  BY <1>1, <1>2, QueueShift DEF JoinsKept
<1>5. Updated({})
  <2>1. Single(m_bgFreeSlotQueue, {}) /\ Bounded(m_bgFreeSlotQueue, m_queuedGroups, {})
    BY DEF Single, Bounded
  <2>. QED
    BY <1>1, <2>1, UpdateFact
<1>6. PICK sent \in Seq(ForWorld), all \in Seq(ForWorld) :
         /\ SameGroups(m_queuedGroups', m_queuedGroups)
         /\ Answered(sent, m_queuedGroups', m_queuedGroups)
         /\ toWorld' = toWorld \o all
         /\ \A k \in 1..Len(all) : \/ k \in 1..Len(sent) /\ all[k] = sent[k]
                                   \/ Quiet(all[k])
  <2>1. PICK sent \in Seq(ForWorld) :
           /\ SameGroups(m_queuedGroups', m_queuedGroups)
           /\ Answered(sent, m_queuedGroups', m_queuedGroups)
           /\ \/ toWorld' = toWorld \o sent
              \/ \E c \in Counts : toWorld' = toWorld \o
                    Append(sent, [type |-> "Create", instanceId |-> max + 1, invited |-> c])
    BY <1>5 DEF Updated
  <2>2. CASE toWorld' = toWorld \o sent
    BY <2>1, <2>2
  <2>3. ASSUME NEW c \in Counts,
               toWorld' = toWorld \o Append(sent, [type |-> "Create", instanceId |-> max + 1, invited |-> c])
        PROVE  \E all \in Seq(ForWorld) :
                 /\ toWorld' = toWorld \o all
                 /\ \A k \in 1..Len(all) : \/ k \in 1..Len(sent) /\ all[k] = sent[k]
                                           \/ Quiet(all[k])
    <3> DEFINE x == [type |-> "Create", instanceId |-> max + 1, invited |-> c]
               all == Append(sent, x)
    <3>1. x \in ForWorld /\ Quiet(x)
      <4>1. max + 1 \in Nat
        BY <1>1
      <4>2. x \in ForWorld
        BY <4>1, WorldMembers
      <4>. QED
        BY <4>2 DEF Quiet
    <3>2. toWorld' = toWorld \o all
      BY <2>3
    <3> HIDE DEF x
    <3>3. /\ all \in Seq(ForWorld) /\ Len(sent) \in Nat /\ Len(all) = Len(sent) + 1
          /\ \A k \in 1..Len(sent) : all[k] = sent[k]
          /\ all[Len(sent) + 1] = x
      BY <3>1
    <3> HIDE DEF all
    <3>4. \A k \in 1..Len(all) : k \in 1..Len(sent) \/ k = Len(sent) + 1
      BY <3>3
    <3>. QED
      BY <3>1, <3>2, <3>3, <3>4
  <2>. QED
    BY <2>1, <2>2, <2>3
<1>7. \A k \in 1..Len(toWorld') : \/ k \in 1..n /\ toWorld'[k] = toWorld[k]
                                  \/ k - n \in 1..Len(all) /\ toWorld'[k] = all[k - n]
  BY <1>1, <1>6, Joined
\* A timer that runs is old, or of an invitation that was sent.
<1>8. ASSUME NEW p \in Players, NEW x \in Nat, NEW k \in Nat, Runs(k, p, x)'
      PROVE  \/ Runs(k, p, x)
             \/ /\ Invites(sent, k - n) /\ k - n \in Nat
                /\ sent[k - n].player = p /\ sent[k - n].removeInviteTime = x
  <2>1. k \in 1..Len(toWorld') /\ toWorld'[k].type \in {"Invite", "Timeout"}
        /\ toWorld'[k].player = p /\ toWorld'[k].removeInviteTime = x
    BY <1>8 DEF Runs, Tells
  <2>2. CASE k \in 1..n /\ toWorld'[k] = toWorld[k]
    BY <2>1, <2>2 DEF Runs, Tells
  <2>3. CASE k - n \in 1..Len(all) /\ toWorld'[k] = all[k - n]
    <3>1. k - n \in 1..Len(sent) /\ all[k - n] = sent[k - n]
      BY <1>6, <2>1, <2>3 DEF Quiet
    <3>2. sent[k - n].type \in {"Invite", "SetInvitedCount"}
      BY <1>6, <3>1 DEF Answered
    <3>. QED
      BY <2>1, <2>3, <3>1, <3>2 DEF Invites
  <2>. QED
    BY <1>7, <2>1, <2>2, <2>3
<1>9. \A p \in Players, x \in Nat, k \in Nat : /\ Ends(k, p, x)' <=> Ends(k, p, x)
                                               /\ \A e \in Timers : Pends(e, p, x)' <=> Pends(e, p, x)
  BY <1>2 DEF Ends, Receives, Pends, world, player
<1>10. Apart(m_queuedGroups)
  <2> SUFFICES ASSUME NEW j \in 1..Len(m_queuedGroups), NEW l \in 1..Len(m_queuedGroups),
                      m_queuedGroups[j].player = m_queuedGroups[l].player,
                      m_queuedGroups[j].number = m_queuedGroups[l].number
               PROVE  j = l
    BY DEF Apart
  <2>1. m_queuedGroups[j] \in Groups
    BY <1>1
  <2>2. m_queuedGroups[j].player \in Players /\ m_queuedGroups[j].number \in Nat
    BY <2>1 DEF Groups
  <2>3. OneGroup(m_queuedGroups[j].player, m_queuedGroups[j].number)
    BY <2>2 DEF TimerInv, Timing
  <2>. QED
    BY <2>3 DEF OneGroup, HasGroup
\* Who is sent an invitation has a group without a timer.
<1>11. ASSUME NEW p \in Players, NEW x \in Nat, NEW m \in Nat, Invites(sent, m),
              sent[m].player = p, sent[m].removeInviteTime = x
       PROVE  /\ ~Timed(p, x) /\ Kept(p, x)
              /\ \A j \in Nat : HasGroup(j, p, x) => m_queuedGroups'[j].invitedTo # 0
  <2>1. PICK j \in 1..Len(m_queuedGroups) :
           /\ m_queuedGroups[j].invitedTo = 0 /\ m_queuedGroups'[j].invitedTo # 0
           /\ m_queuedGroups[j].player = sent[m].player /\ m_queuedGroups[j].number = sent[m].removeInviteTime
    BY <1>6, <1>11 DEF Answered
  <2>2. HasGroup(j, p, x) /\ j \in Nat
    BY <1>11, <2>1 DEF HasGroup
  <2>3. Free(p, x) /\ OneGroup(p, x)
    BY DEF TimerInv, Timing
  <2>. QED
    BY <2>1, <2>2, <2>3 DEF Free, OneGroup, Kept
<1>12. \A l, k \in Nat : Invites(sent, l) /\ Invites(sent, k) /\ sent[l].player = sent[k].player
                         /\ sent[l].removeInviteTime = sent[k].removeInviteTime => l = k
  BY <1>6, <1>10 DEF Answered
<1>13. GroupsKept(Len(m_queuedGroups) + 1) /\ Len(m_queuedGroups) + 1 \in Nat
  <2>1. Len(m_queuedGroups) \in Nat
    BY <1>1
  <2>2. \A j \in 1..Len(m_queuedGroups) : Skip(Len(m_queuedGroups) + 1, j) = j
    BY <2>1 DEF Skip
  <2>. QED
    BY <1>6, <2>1, <2>2 DEF GroupsKept, SameGroups
<1>14. ASSUME NEW p \in Players, NEW x \in Nat
       PROVE  /\ Alone(p, x)' /\ Free(p, x)'
              /\ Timed(p, x)' => Timed(p, x) \/ Kept(p, x)
  <2>1. Alone(p, x) /\ Free(p, x) /\ OneGroup(p, x)
    BY DEF TimerInv, Timing
  <2> DEFINE New(m) == Invites(sent, m) /\ sent[m].player = p /\ sent[m].removeInviteTime = x
  <2>2. CASE \E m \in Nat : New(m)
    <3>1. PICK m \in Nat : New(m)
      BY <2>2
    <3>2. ~Timed(p, x) /\ Kept(p, x) /\ \A j \in Nat : HasGroup(j, p, x) => m_queuedGroups'[j].invitedTo # 0
      BY <1>11, <3>1
    <3>3. \A k \in Nat : ~Runs(k, p, x) /\ ~Ends(k, p, x)
      BY <3>2 DEF Timed
    <3>4. \A e \in Timers : ~Pends(e, p, x)
      BY <3>2 DEF Timed
    <3>5. \A k \in Nat : Runs(k, p, x)' => New(k - n) /\ k - n \in Nat
      BY <1>8, <3>3
    <3>6. \A k, l \in Nat : Runs(k, p, x)' /\ Runs(l, p, x)' => k = l
      <4> SUFFICES ASSUME NEW k \in Nat, NEW l \in Nat, Runs(k, p, x)', Runs(l, p, x)' PROVE k = l
        OBVIOUS
      <4>1. k - n = l - n
        BY <1>12, <3>5
      <4>. QED
        BY <1>1, <4>1
    <3>7. Alone(p, x)'
      BY <1>9, <3>3, <3>4, <3>6 DEF Alone
    <3>8. Free(p, x)'
      <4>1. \A j \in Nat : HasGroup(j, p, x)' => HasGroup(j, p, x)
        BY <1>6 DEF HasGroup, SameGroups
      <4>. QED
        BY <3>2, <4>1 DEF Free
    <3>. QED
      BY <3>2, <3>7, <3>8
  <2>3. CASE ~\E m \in Nat : New(m)
    <3>1. \A k \in Nat : Runs(k, p, x)' => Runs(k, p, x)
      BY <1>8, <2>3
    <3>2. Alone(p, x)'
      BY <1>9, <2>1, <3>1 DEF Alone
    <3>3. Timed(p, x)' => Timed(p, x)
      BY <1>9, <3>1 DEF Timed
    <3>4. Free(p, x)'
      BY <1>13, <2>1, <3>3, FreeKept
    <3>. QED
      BY <3>2, <3>3, <3>4
  <2>. QED
    BY <2>2, <2>3
<1>. QED
  BY <1>3, <1>4, <1>13, <1>14, NumbersKept

\* A step of the world's thread that moves timers about.
LEMMA TimerMoves ==
  ASSUME ListInv, TimerInv, UNCHANGED <<queue, joins>>, JoinsKept(0),
         \A p \in Players, n \in Nat : Alone(p, n)' /\ (Timed(p, n)' => Timed(p, n))
  PROVE  TimerInv'
<1>1. BgTypes
  BY DEF ListInv
<1>2. m_queuedGroups' = m_queuedGroups /\ joins' = joins /\ 0 \in {0, 1}
  BY DEF queue
<1>3. GroupsKept(Len(m_queuedGroups) + 1) /\ Len(m_queuedGroups) + 1 \in Nat
  BY <1>1, <1>2, GroupsShift
<1>4. ASSUME NEW p \in Players, NEW n \in Nat PROVE Free(p, n)'
  <2>1. Free(p, n)
    BY DEF TimerInv, Timing
  <2>. QED
    BY <1>3, <2>1, FreeKept
<1>. QED
  BY <1>2, <1>3, <1>4, NumbersKept

\* The timer starts with the invitation, unless the player is not found.
LEMMA TimerStarts ==
  ASSUME ListInv, TimerInv, Invite
  PROVE  TimerInv'
<1> DEFINE who == Sent.player
           num == Sent.removeInviteTime
           ev == [instanceId |-> Sent.instanceId, removeInviteTime |-> num]
<1>1. BgTypes /\ m_events \in [Players -> SUBSET Timers]
  BY DEF ListInv, BgTypes, WorldTypes
<1>2. UNCHANGED <<queue, joins>> /\ toQueue' = toQueue /\ toWorld # <<>> /\ toWorld' = Tail(toWorld) /\ Sent.type = "Invite"
  BY DEF Invite, ToWorld, Sent
<1>3. /\ Sent \in ForWorld /\ Sent = toWorld[1] /\ 1 \in 1..Len(toWorld)
  BY <1>1, <1>2, WorldPopped DEF Sent
<1>4. who \in Players /\ num \in Nat
  BY <1>2, <1>3, WorldKinds
<1>5. Runs(1, who, num)
  BY <1>2, <1>3 DEF Runs, Tells
<1>6. QueueKept(0) /\ WorldKept(1) /\ JoinsKept(0)
  BY <1>1, <1>2, QueueShift, WorldShift DEF QueueKept, JoinsKept, WorldKept
<1>7. m_events' = [m_events EXCEPT ![who] = m_events[who] \union {ev}] \/ m_events' = m_events
  BY DEF Invite
<1>8. ev.removeInviteTime = num
  OBVIOUS
<1> HIDE DEF who, num, ev
<1>9. ASSUME NEW p \in Players, NEW n \in Nat PROVE Alone(p, n)' /\ (Timed(p, n)' => Timed(p, n))
  <2>1. Alone(p, n)
    BY DEF TimerInv, Timing
  <2>2. \A k \in Nat : Runs(k, p, n)' => Runs(k + 1, p, n) /\ k + 1 \in Nat /\ k + 1 # 1
    <3>1. \A k \in Nat : Runs(k, p, n)' => Runs(k + 1, p, n) /\ k + 1 \in Nat
      BY <1>6, TokensKept
    <3>2. \A k \in Nat : Runs(k, p, n)' => k # 0
      BY DEF Runs, Tells
    <3>. QED
      BY <3>1, <3>2
  <2>3. \A k \in Nat : Ends(k, p, n)' => Ends(k, p, n)
    BY <1>2 DEF Ends, Receives
  <2>4. \A e \in Timers : Pends(e, p, n)' => Pends(e, p, n) \/ (e = ev /\ p = who /\ n = num)
    BY <1>1, <1>7, <1>8 DEF Pends
  <2>5. CASE p = who /\ n = num
    <3>1. \A k \in Nat : ~Runs(k, p, n)'
      BY <1>5, <2>1, <2>2, <2>5 DEF Alone
    <3>2. \A k \in Nat : ~Ends(k, p, n)'
      BY <1>5, <2>1, <2>3, <2>5 DEF Alone
    <3>3. \A e \in Timers : Pends(e, p, n)' => e = ev
      BY <1>5, <2>1, <2>4, <2>5 DEF Alone
    <3>4. Alone(p, n)'
      BY <3>1, <3>2, <3>3 DEF Alone
    <3>5. Timed(p, n)
      BY <1>5, <2>5 DEF Timed
    <3>. QED
      BY <3>4, <3>5
  <2>6. CASE ~(p = who /\ n = num)
    <3>1. \A e \in Timers : Pends(e, p, n)' => Pends(e, p, n)
      BY <2>4, <2>6
    <3>2. \A k, l \in Nat : k + 1 = l + 1 => k = l
      OBVIOUS
    <3>3. Alone(p, n)'
      BY <2>1, <2>2, <2>3, <3>1, <3>2 DEF Alone
    <3>4. Timed(p, n)' => Timed(p, n)
      BY <2>2, <2>3, <3>1 DEF Timed
    <3>. QED
      BY <3>3, <3>4
  <2>. QED
    BY <2>5, <2>6
<1>. QED
  BY <1>2, <1>6, <1>9, TimerMoves

\* When it fires, the queue is told, unless the player is no longer in it.
LEMMA TimerTells ==
  ASSUME ListInv, TimerInv, Timeout
  PROVE  TimerInv'
<1> DEFINE who == Sent.player
           num == Sent.removeInviteTime
           m == [type |-> "Expired", player |-> who, instanceId |-> Sent.instanceId, removeInviteTime |-> num,
                 running |-> Exists(Sent.instanceId) /\ Status(Sent.instanceId) # "wait_leave"]
           len == Len(toQueue)
<1>1. BgTypes /\ toQueue \in Seq(ForQueue) /\ len \in Nat
  BY DEF ListInv, BgTypes, MessageTypes
<1>2. UNCHANGED <<queue, joins>> /\ m_events' = m_events /\ toWorld # <<>> /\ toWorld' = Tail(toWorld)
      /\ Sent.type = "Timeout"
  BY DEF Timeout, ToWorld, Sent, world, player
<1>3. /\ Sent \in ForWorld /\ Sent = toWorld[1] /\ 1 \in 1..Len(toWorld)
  BY <1>1, <1>2, WorldPopped DEF Sent
<1>4. who \in Players /\ num \in Nat /\ Sent.instanceId \in Nat
  BY <1>2, <1>3, WorldKinds
<1>5. Runs(1, who, num)
  BY <1>2, <1>3 DEF Runs, Tells
<1>6. WorldKept(1)
  BY <1>1, <1>2, WorldShift DEF WorldKept
<1>7. toQueue' = toQueue \o <<m>> \/ toQueue' = toQueue \o <<>>
  BY DEF Timeout, Send
<1>8. /\ m \in ForQueue
      /\ m.type = "Expired" /\ m.player = who /\ m.removeInviteTime = num
  <2> DEFINE b == Exists(Sent.instanceId) /\ Status(Sent.instanceId) # "wait_leave"
  <2>1. b \in BOOLEAN
    OBVIOUS
  <2> HIDE DEF b
  <2>2. [type |-> "Expired", player |-> who, instanceId |-> Sent.instanceId, removeInviteTime |-> num,
         running |-> b] \in ForQueue
    BY <1>4, <2>1, QueueMembers
  <2>. QED
    BY <2>2 DEF b
<1> HIDE DEF m
<1>9. \A k \in 1..Len(toQueue') : \/ k \in 1..len /\ toQueue'[k] = toQueue[k]
                                  \/ k = len + 1 /\ toQueue'[k] = m
  <2>1. CASE toQueue' = toQueue \o <<m>>
    BY <1>1, <1>8, <2>1
  <2>2. CASE toQueue' = toQueue \o <<>>
    BY <1>1, <2>2
  <2>. QED
    BY <1>7, <2>1, <2>2
<1> HIDE DEF who, num, len
<1>10. JoinsKept(0)
  BY <1>1, <1>8, <1>9 DEF JoinsKept, QueueShifted, len
<1>11. ASSUME NEW p \in Players, NEW n \in Nat PROVE Alone(p, n)' /\ (Timed(p, n)' => Timed(p, n))
  <2>1. Alone(p, n)
    BY DEF TimerInv, Timing
  <2>2. \A k \in Nat : Runs(k, p, n)' => Runs(k + 1, p, n) /\ k + 1 \in Nat /\ k + 1 # 1
    <3>1. \A k \in Nat : Runs(k, p, n)' => Runs(k + 1, p, n) /\ k + 1 \in Nat
      BY <1>6, TokensKept
    <3>2. \A k \in Nat : Runs(k, p, n)' => k # 0
      BY DEF Runs, Tells
    <3>. QED
      BY <3>1, <3>2
  <2>3. \A k \in Nat : Ends(k, p, n)' => Ends(k, p, n) \/ (k = len + 1 /\ p = who /\ n = num)
    <3> SUFFICES ASSUME NEW k \in Nat, Ends(k, p, n)' PROVE Ends(k, p, n) \/ (k = len + 1 /\ p = who /\ n = num)
      OBVIOUS
    <3>1. k \in 1..Len(toQueue') /\ toQueue'[k].type = "Expired" /\ toQueue'[k].player = p
          /\ toQueue'[k].removeInviteTime = n
      BY DEF Ends, Receives
    <3>. QED
      BY <1>8, <1>9, <3>1 DEF Ends, Receives, len
  <2>4. \A e \in Timers : Pends(e, p, n)' => Pends(e, p, n)
    BY <1>2 DEF Pends
  <2>5. CASE p = who /\ n = num
    <3>1. \A k \in Nat : ~Runs(k, p, n)'
      BY <1>5, <2>1, <2>2, <2>5 DEF Alone
    <3>2. \A k \in Nat : Ends(k, p, n)' => k = len + 1
      BY <1>5, <2>1, <2>3, <2>5 DEF Alone
    <3>3. \A e \in Timers : ~Pends(e, p, n)'
      BY <1>5, <2>1, <2>4, <2>5 DEF Alone
    <3>4. Alone(p, n)'
      BY <3>1, <3>2, <3>3 DEF Alone
    <3>5. Timed(p, n)
      BY <1>5, <2>5 DEF Timed
    <3>. QED
      BY <3>4, <3>5
  <2>6. CASE ~(p = who /\ n = num)
    <3>1. \A k \in Nat : Ends(k, p, n)' => Ends(k, p, n)
      BY <2>3, <2>6
    <3>2. \A k, l \in Nat : k + 1 = l + 1 => k = l
      OBVIOUS
    <3>3. Alone(p, n)'
      BY <2>1, <2>2, <2>4, <3>1, <3>2 DEF Alone
    <3>4. Timed(p, n)' => Timed(p, n)
      BY <2>2, <2>4, <3>1 DEF Timed
    <3>. QED
      BY <3>3, <3>4
  <2>. QED
    BY <2>5, <2>6
<1>. QED
  BY <1>2, <1>10, <1>11, TimerMoves

\* A timer of a player in the world fires.
LEMMA TimerFires ==
  ASSUME ListInv, TimerInv, NEW who \in Players, FireRemoveEvent(who)
  PROVE  TimerInv'
<1> DEFINE len == Len(toWorld)
<1>1. BgTypes /\ toWorld \in Seq(ForWorld) /\ len \in Nat /\ m_events \in [Players -> SUBSET Timers]
  BY DEF ListInv, BgTypes, MessageTypes, WorldTypes
<1>2. UNCHANGED <<queue, joins>> /\ toQueue' = toQueue
  BY DEF FireRemoveEvent
<1>3. PICK event \in m_events[who] :
         /\ m_events' = [m_events EXCEPT ![who] = m_events[who] \ {event}]
         /\ toWorld' = Append(toWorld, [type |-> "Timeout", player |-> who, instanceId |-> event.instanceId,
                                        removeInviteTime |-> event.removeInviteTime])
  BY DEF FireRemoveEvent
<1> DEFINE num == event.removeInviteTime
           m == [type |-> "Timeout", player |-> who, instanceId |-> event.instanceId, removeInviteTime |-> num]
<1>4. event \in Timers
  BY <1>1, <1>3
<1>5. num \in Nat /\ event.instanceId \in Nat
  BY <1>4 DEF Timers
<1>6. Pends(event, who, num)
  BY <1>3 DEF Pends
<1>7. m \in ForWorld /\ m.type = "Timeout" /\ m.player = who /\ m.removeInviteTime = num
  BY <1>5, WorldMembers
<1>8. toWorld' = Append(toWorld, m)
  BY <1>3
<1> HIDE DEF num, m, len
<1>9. \A k \in 1..Len(toWorld') : \/ k \in 1..len /\ toWorld'[k] = toWorld[k]
                                  \/ k = len + 1 /\ toWorld'[k] = m
  BY <1>1, <1>7, <1>8 DEF len
<1>10. JoinsKept(0) /\ QueueKept(0)
  BY <1>1, <1>2, QueueShift DEF QueueKept, JoinsKept
<1>11. ASSUME NEW p \in Players, NEW n \in Nat PROVE Alone(p, n)' /\ (Timed(p, n)' => Timed(p, n))
  <2>1. Alone(p, n)
    BY DEF TimerInv, Timing
  <2>2. \A k \in Nat : Runs(k, p, n)' => Runs(k, p, n) \/ (k = len + 1 /\ p = who /\ n = num)
    <3> SUFFICES ASSUME NEW k \in Nat, Runs(k, p, n)' PROVE Runs(k, p, n) \/ (k = len + 1 /\ p = who /\ n = num)
      OBVIOUS
    <3>1. k \in 1..Len(toWorld') /\ toWorld'[k].type \in {"Invite", "Timeout"} /\ toWorld'[k].player = p
          /\ toWorld'[k].removeInviteTime = n
      BY DEF Runs, Tells
    <3>. QED
      BY <1>7, <1>9, <3>1 DEF Runs, Tells, len
  <2>3. \A k \in Nat : Ends(k, p, n)' => Ends(k, p, n)
    BY <1>2 DEF Ends, Receives
  <2>4. \A e \in Timers : Pends(e, p, n)' => Pends(e, p, n) /\ ~(e = event /\ p = who)
    BY <1>1, <1>3 DEF Pends
  <2>5. CASE p = who /\ n = num
    <3>1. \A k \in Nat : ~Runs(k, p, n) /\ ~Ends(k, p, n)
      BY <1>4, <1>6, <2>1, <2>5 DEF Alone
    <3>2. \A e \in Timers : ~Pends(e, p, n)'
      BY <1>4, <1>6, <2>1, <2>4, <2>5 DEF Alone
    <3>3. Alone(p, n)'
      BY <2>2, <2>3, <3>1, <3>2 DEF Alone
    <3>4. Timed(p, n)
      BY <1>4, <1>6, <2>5 DEF Timed
    <3>. QED
      BY <3>3, <3>4
  <2>6. CASE ~(p = who /\ n = num)
    <3>1. \A k \in Nat : Runs(k, p, n)' => Runs(k, p, n)
      BY <2>2, <2>6
    <3>2. Alone(p, n)'
      BY <2>1, <2>3, <2>4, <3>1 DEF Alone
    <3>3. Timed(p, n)' => Timed(p, n)
      BY <2>3, <2>4, <3>1 DEF Timed
    <3>. QED
      BY <3>2, <3>3
  <2>. QED
    BY <2>5, <2>6
<1>. QED
  BY <1>2, <1>10, <1>11, TimerMoves

\* A request to join has a number above all before it.
LEMMA AsksToJoin ==
  ASSUME ListInv, TimerInv, NEW who \in Players, HandleBattlemasterJoin(who)
  PROVE  TimerInv'
<1> DEFINE num == joins[who] + 1
           m == [type |-> "AddGroup", player |-> who, number |-> num]
           len == Len(toQueue)
<1>1. BgTypes /\ toQueue \in Seq(ForQueue) /\ len \in Nat /\ joins \in [Players -> Nat]
  BY DEF ListInv, BgTypes, MessageTypes, WorldTypes
<1>2. UNCHANGED <<queue, toWorld>> /\ m_events' = m_events /\ m_queuedGroups' = m_queuedGroups
  BY DEF HandleBattlemasterJoin, player, queue
<1>3. /\ joins' = [joins EXCEPT ![who] = num]
      /\ toQueue' = toQueue \o <<[type |-> "AddGroup", player |-> who, number |-> joins'[who]]>>
  BY DEF HandleBattlemasterJoin, Send
<1>4. /\ joins'[who] = num /\ joins[who] \in Nat /\ num \in Nat
      /\ \A p \in Players : joins'[p] \in Nat /\ joins[p] \in Nat /\ joins[p] <= joins'[p]
  BY <1>1, <1>3
<1>5. m \in ForQueue /\ m.type = "AddGroup" /\ m.player = who /\ m.number = num
  BY <1>4, QueueMembers
<1>6. toQueue' = toQueue \o <<m>>
  BY <1>3, <1>4
<1> HIDE DEF m
<1>7. \A k \in 1..Len(toQueue') : \/ k \in 1..len /\ toQueue'[k] = toQueue[k]
                                  \/ k = len + 1 /\ toQueue'[k] = m
  BY <1>1, <1>5, <1>6
<1>8. \A k \in Nat, p \in Players : Joins(k, p)' =>
         \/ Joins(k, p) /\ toQueue'[k] = toQueue[k] /\ k <= len
         \/ k = len + 1 /\ p = who /\ toQueue'[k] = m
  BY <1>5, <1>7 DEF Joins, Receives
<1>9. \A k \in Nat, p \in Players, n \in Nat : Ends(k, p, n)' => Ends(k, p, n)
  BY <1>5, <1>7 DEF Ends, Receives
<1>10. \A k \in Nat, p \in Players, n \in Nat : Runs(k, p, n)' => Runs(k, p, n)
  BY <1>2 DEF Runs, Tells
<1>11. \A e \in Timers, p \in Players, n \in Nat : Pends(e, p, n)' => Pends(e, p, n)
  BY <1>2 DEF Pends
<1>12. \A j \in Nat, p \in Players, n \in Nat : HasGroup(j, p, n)' => HasGroup(j, p, n)
  BY <1>2 DEF HasGroup
<1> HIDE DEF num, len
<1>13. ASSUME NEW p \in Players PROVE InTurn(p)'
  <2>1. InTurn(p)
    BY DEF TimerInv
  <2>2. \A k \in Nat : Joins(k, p) => toQueue[k] \in ForQueue /\ toQueue[k].type = "AddGroup"
    BY <1>1 DEF Joins, Receives
  <2>3. \A k \in Nat : Joins(k, p) => toQueue[k].number \in Nat
    BY <2>2, QueueKinds
  <2>4. ASSUME NEW k \in Nat, Joins(k, p)' PROVE toQueue'[k].number <= joins'[p]
    <3>1. CASE Joins(k, p) /\ toQueue'[k] = toQueue[k]
      BY <1>4, <2>1, <2>3, <3>1 DEF InTurn
    <3>2. CASE p = who /\ toQueue'[k] = m
      BY <1>4, <1>5, <3>2
    <3>. QED
      BY <1>8, <2>4, <3>1, <3>2
  <2>5. ASSUME NEW k \in Nat, Joins(k, p)', NEW l \in Nat, Joins(l, p)', k < l
        PROVE  toQueue'[k].number < toQueue'[l].number
    <3>1. CASE Joins(l, p) /\ toQueue'[l] = toQueue[l] /\ l <= len
      <4>1. Joins(k, p) /\ toQueue'[k] = toQueue[k]
        BY <1>1, <1>8, <2>5, <3>1
      <4>. QED
        BY <2>1, <2>5, <3>1, <4>1 DEF InTurn
    <3>2. CASE l = len + 1 /\ p = who /\ toQueue'[l] = m
      <4>1. Joins(k, p) /\ toQueue'[k] = toQueue[k]
        BY <1>1, <1>8, <2>5, <3>2
      <4>2. toQueue[k].number <= joins[who]
        BY <2>1, <3>2, <4>1 DEF InTurn
      <4>3. toQueue[k].number \in Nat
        BY <2>3, <4>1
      <4>. QED
        BY <1>4, <1>5, <3>2, <4>1, <4>2, <4>3 DEF num
    <3>. QED
      BY <1>8, <2>5, <3>1, <3>2
  <2>. QED
    BY <2>4, <2>5 DEF InTurn
<1>14. ASSUME NEW p \in Players, NEW n \in Nat PROVE Timing(p, n)'
  <2>1. Alone(p, n) /\ Free(p, n) /\ OneGroup(p, n) /\ Below(p, n)
    BY DEF TimerInv, Timing
  <2>2. Alone(p, n)' /\ (Timed(p, n)' => Timed(p, n))
    BY <1>9, <1>10, <1>11, <2>1 DEF Alone, Timed
  <2>3. Free(p, n)' /\ OneGroup(p, n)'
    BY <1>2, <1>12, <2>1, <2>2 DEF Free, OneGroup
  <2>4. Kept(p, n)' => Kept(p, n)
    BY <1>12 DEF Kept
  <2>5. Below(p, n)'
    <3> SUFFICES ASSUME Kept(p, n)' \/ Timed(p, n)'
                 PROVE  n <= joins'[p] /\ \A l \in Nat : Joins(l, p)' => n < toQueue'[l].number
      BY DEF Below
    <3>1. n <= joins[p] /\ \A l \in Nat : Joins(l, p) => n < toQueue[l].number
      BY <2>1, <2>2, <2>4 DEF Below
    <3>2. n <= joins'[p]
      BY <1>4, <3>1
    <3>3. ASSUME NEW l \in Nat, Joins(l, p)' PROVE n < toQueue'[l].number
      <4>1. CASE Joins(l, p) /\ toQueue'[l] = toQueue[l]
        BY <3>1, <4>1
      <4>2. CASE p = who /\ toQueue'[l] = m
        BY <1>4, <1>5, <3>1, <4>2 DEF num
      <4>. QED
        BY <1>8, <3>3, <4>1, <4>2
    <3>. QED
      BY <3>2, <3>3
  <2>. QED
    BY <2>2, <2>3, <2>5 DEF Timing
<1>. QED
  BY <1>13, <1>14 DEF TimerInv

\* At most one message, of another kind.
LEMMA OneOther ==
  ASSUME BgTypes, NEW T, NEW m, m.type \notin T,
         \/ toQueue' = toQueue
         \/ toQueue' = toQueue \o <<>>
         \/ toQueue' = toQueue \o <<m>>
  PROVE  QueueShifted(T, 0)
<1>1. CASE toQueue' = toQueue
  BY <1>1, QueueShift
<1>2. ASSUME NEW ms \in {<<>>, <<m>>}, toQueue' = toQueue \o ms PROVE QueueShifted(T, 0)
  <2>1. ms \in Seq({m}) /\ \A k \in 1..Len(ms) : ms[k] = m
    <3>1. CASE ms = <<>>
      BY <3>1
    <3>2. CASE ms = <<m>>
      BY <3>2
    <3>. QED
      BY <1>2, <3>1, <3>2
  <2>. QED
    BY <1>2, <2>1, QueueSent
<1>. QED
  BY <1>1, <1>2

\* The world executes a message that starts and ends no timer.
LEMMA OtherMessage ==
  ASSUME ListInv, TimerInv, Queued \/ Left \/ Enter \/ SetInvitedCount \/ Create
  PROVE  TimerInv'
<1>1. BgTypes
  BY DEF ListInv
<1>2. UNCHANGED <<queue, joins>> /\ m_events' = m_events /\ toWorld # <<>> /\ toWorld' = Tail(toWorld)
  BY DEF Queued, Left, Enter, SetInvitedCount, Create, ToWorld, player
<1>3. EventsKept
  BY <1>2 DEF EventsKept
<1>4. QueueKept(0)
  <2>1. CASE Queued \/ Left \/ Enter \/ SetInvitedCount
    BY <1>1, <2>1, QueueShift DEF QueueKept, Queued, Left, Enter, SetInvitedCount
  <2>2. CASE Create
    <3> DEFINE m == StatusMessage(Sent.instanceId, "wait_join")
    <3>1. m.type \notin {"AddGroup", "Expired"} /\ toQueue' = toQueue \o <<m>>
      BY <2>2 DEF Create, Send, StatusMessage
    <3> HIDE DEF m
    <3>. QED
      BY <1>1, <3>1, OneOther DEF QueueKept
  <2>. QED
    BY <2>1, <2>2
<1>. QED
  BY <1>2, <1>3, <1>4, WorldStep

\* A player answers, travels or arrives, or leaves the game.
LEMMA PlayerActs ==
  ASSUME ListInv, TimerInv, NEW p \in Players,
         HandleBattlefieldPort(p) \/ TeleportFar(p) \/ WorldportAck(p) \/ LogoutPlayer(p)
  PROVE  TimerInv'
<1>1. BgTypes /\ m_events \in [Players -> SUBSET Timers]
  BY DEF ListInv, BgTypes, WorldTypes
<1>2. UNCHANGED <<queue, joins>> /\ toWorld' = toWorld
  BY DEF HandleBattlefieldPort, TeleportFar, WorldportAck, LogoutPlayer, world
<1>3. EventsKept
  <2>1. m_events' = m_events \/ m_events' = [m_events EXCEPT ![p] = {}]
    BY DEF HandleBattlefieldPort, TeleportFar, WorldportAck, LogoutPlayer, world, player
  <2>. QED
    BY <1>1, <2>1 DEF EventsKept
<1>4. QueueKept(0)
  <2>1. CASE TeleportFar(p) \/ WorldportAck(p)
    BY <1>1, <2>1, QueueShift DEF QueueKept, TeleportFar, WorldportAck
  <2>2. CASE HandleBattlefieldPort(p)
    <3>1. PICK enter \in BOOLEAN : toQueue' = toQueue \o <<[type |-> "Port", player |-> p, enter |-> enter]>>
      BY <2>2 DEF HandleBattlefieldPort, Send
    <3> DEFINE m == [type |-> "Port", player |-> p, enter |-> enter]
    <3>2. m.type \notin {"AddGroup", "Expired"} /\ toQueue' = toQueue \o <<m>>
      BY <3>1
    <3> HIDE DEF m
    <3>. QED
      BY <1>1, <3>2, OneOther DEF QueueKept
  <2>3. CASE LogoutPlayer(p)
    <3> DEFINE m == [type |-> "LoggedOut", player |-> p]
    <3>1. toQueue' = toQueue \o <<m>> \/ toQueue' = toQueue \o <<>>
      BY <2>3 DEF LogoutPlayer, Send
    <3>2. m.type \notin {"AddGroup", "Expired"}
      OBVIOUS
    <3> HIDE DEF m
    <3>. QED
      BY <1>1, <3>1, <3>2, OneOther DEF QueueKept
  <2>. QED
    BY <2>1, <2>2, <2>3
<1>. QED
  BY <1>2, <1>3, <1>4, WorldStep

\* A player leaves a battleground.
LEMMA PlayerLeaves ==
  ASSUME ListInv, TimerInv, NEW p \in Players, NEW i, Exists(i), RemovePlayerAtLeave(p, i)
  PROVE  TimerInv'
<1>1. BgTypes
  BY DEF ListInv
<1>2. UNCHANGED <<queue, joins>> /\ toWorld' = toWorld /\ EventsKept
  BY DEF RemovePlayerAtLeave, EventsKept
<1>3. PICK ms \in Seq(ForQueue) : toQueue' = toQueue \o ms /\ \A m \in 1..Len(ms) : Reports(ms[m], p, i)
  BY <1>1, LeaveFact
<1>4. \A m \in 1..Len(ms) : Quiet(ms[m])
  BY <1>3 DEF Reports, Quiet
<1>. QED
  BY <1>1, <1>2, <1>3, <1>4, SentQuiet, WorldStep

\* A battle begins or ends, or its battleground is deleted.
LEMMA BattleActs ==
  ASSUME ListInv, TimerInv, NEW i, StartBattle(i) \/ EndBattleGround(i) \/ RemoveBattleGround(i)
  PROVE  TimerInv'
<1>1. BgTypes
  BY DEF ListInv
<1>2. UNCHANGED <<queue, joins>> /\ toWorld' = toWorld /\ EventsKept
  BY <1>1, BattleFact DEF player, EventsKept
<1>3. PICK ms \in Seq(ForQueue) : toQueue' = toQueue \o ms /\ \A m \in 1..Len(ms) : Closing(ms[m], m, i)
  BY <1>1, BattleFact
<1>4. \A m \in 1..Len(ms) : Quiet(ms[m])
  BY <1>3 DEF Closing, Quiet
<1>. QED
  BY <1>1, <1>2, <1>3, <1>4, SentQuiet, WorldStep

\* At first nobody is in the queue.
LEMMA StartsTimed == Init => TimerInv
<1> SUFFICES ASSUME Init PROVE TimerInv
  OBVIOUS
<1>1. m_queuedGroups = <<>> /\ toQueue = <<>> /\ toWorld = <<>> /\ m_events = [p \in Players |-> {}]
  BY DEF Init
<1>2. \A k \in Nat, p \in Players, n \in Nat : ~Runs(k, p, n) /\ ~Ends(k, p, n) /\ ~HasGroup(k, p, n) /\ ~Joins(k, p)
  BY <1>1 DEF Runs, Ends, HasGroup, Joins, Tells, Receives
<1>3. \A e \in Timers, p \in Players, n \in Nat : ~Pends(e, p, n)
  BY <1>1 DEF Pends
<1>4. \A p \in Players : InTurn(p)
  BY <1>2 DEF InTurn
<1>5. \A p \in Players, n \in Nat : Alone(p, n) /\ Free(p, n) /\ OneGroup(p, n)
  BY <1>2, <1>3 DEF Alone, Free, OneGroup
<1>6. \A p \in Players, n \in Nat : Below(p, n)
  BY <1>2, <1>3 DEF Below, Kept, Timed
<1>. QED
  BY <1>4, <1>5, <1>6 DEF TimerInv, Timing

\* Every step keeps one timer a number.
LEMMA KeepsTimed == ListInv /\ TimerInv /\ [Next]_vars => TimerInv'
<1> SUFFICES ASSUME ListInv, TimerInv, [Next]_vars PROVE TimerInv'
  OBVIOUS
<1>1. CASE QueueMessage
  BY <1>1, JoinsQueue, QuietStep, AnswerStep DEF QueueMessage
<1>2. CASE QueueUpdate
  BY <1>2, InvitesOnce DEF QueueUpdate
<1>3. CASE WorldMessage
  BY <1>3, OtherMessage, TimerStarts, TimerTells DEF WorldMessage
<1>4. ASSUME NEW p \in Players, Player(p) PROVE TimerInv'
  <2>1. CASE HandleLeaveBattlefield(p)
    BY <2>1, PlayerLeaves DEF HandleLeaveBattlefield
  <2>. QED
    BY <1>4, <2>1, AsksToJoin, PlayerActs DEF Player
<1>5. ASSUME NEW p \in Players, FireRemoveEvent(p) \/ WorldportAck(p) PROVE TimerInv'
  BY <1>5, TimerFires, PlayerActs
<1>6. ASSUME NEW i \in Created, BattleGround(i) PROVE TimerInv'
  <2>1. ASSUME NEW p \in Players, RemoveParticipant(p, i) PROVE TimerInv'
    BY <2>1, PlayerLeaves DEF RemoveParticipant
  <2>. QED
    BY <1>6, <2>1, BattleActs DEF BattleGround
<1>7. CASE UNCHANGED vars
  <2>1. BgTypes /\ UNCHANGED <<queue, joins>> /\ toWorld' = toWorld /\ toQueue' = toQueue /\ m_events' = m_events
    BY <1>7 DEF ListInv, vars, world, player
  <2>2. EventsKept /\ QueueKept(0)
    BY <2>1, QueueShift DEF QueueKept, EventsKept
  <2>. QED
    BY <2>1, <2>2, WorldStep
<1>. QED
  BY <1>1, <1>2, <1>3, <1>4, <1>5, <1>6, <1>7 DEF Next

(***************************************************************************)
(* A number is given to one group of a player, and has at most one timer,  *)
(* whichever of the threads it is with at the moment.                      *)
(***************************************************************************)
THEOREM TimerInductive == Spec => [](ListInv /\ TimerInv)
<1>1. Init => ListInv /\ TimerInv
  BY StartsListed, StartsTimed
<1>2. ListInv /\ TimerInv /\ [Next]_vars => (ListInv /\ TimerInv)'
  BY KeepsListed, KeepsTimed
<1>. QED
  BY <1>1, <1>2, PTL DEF Spec

(***************************************************************************)
(* No timer but his own takes a player out of the queue, for any number of *)
(* invitations, requests and messages (the five cases above                *)
(* BgQueueRemoveEvent::Execute).                                           *)
(***************************************************************************)
THEOREM OwnTimer == Spec => ExpiresOwnInvitation
<1>1. ASSUME ListInv, TimerInv, NEW p \in Players, Expired, m_queuedPlayers[p] # None, HasTimer(p)
      PROVE  m_queuedPlayers'[p] # None
  <2> DEFINE who == Received.player
             n == m_queuedPlayers[p]
  <2>1. /\ BgTypes /\ Grouped /\ m_queuedPlayers \in [Players -> Nat \union {None}] /\ toQueue # <<>>
        /\ toWorld \in Seq(ForWorld) /\ m_events \in [Players -> SUBSET Timers] /\ Received.type = "Expired"
    BY <1>1 DEF ListInv, BgTypes, QueueTypes, MessageTypes, WorldTypes, Expired, ToQueue, Received
  <2>2. n \in Nat
    BY <1>1, <2>1
  <2>3. Received = toQueue[1] /\ 1 \in 1..Len(toQueue)
    BY <2>1, Popped DEF Received, BgTypes, MessageTypes
  <2>4. Alone(p, n)
    BY <1>1, <2>2 DEF TimerInv, Timing
  <2>5. ~Ends(1, p, n)
    <3>1. CASE \E event \in m_events[p] : event.removeInviteTime = n
      <4>1. PICK event \in Timers : Pends(event, p, n)
        BY <2>1, <3>1 DEF Pends
      <4>. QED
        BY <2>4, <4>1 DEF Alone
    <3>2. CASE \E k \in DOMAIN toWorld : toWorld[k].type \in {"Invite", "Timeout"}
                      /\ toWorld[k].player = p /\ toWorld[k].removeInviteTime = n
      <4>1. PICK k \in 1..Len(toWorld) : Runs(k, p, n)
        BY <2>1, <3>2 DEF Runs, Tells
      <4>. QED
        BY <2>4, <4>1 DEF Alone
    <3>. QED
      BY <1>1, <3>1, <3>2 DEF HasTimer
  <2>6. CASE IsPlayerInvited(who, Received.instanceId, Received.removeInviteTime) /\ who = p
    <3>1. Group(p).number = Received.removeInviteTime
      BY <2>6 DEF IsPlayerInvited
    <3>2. Group(p).number = n
      BY <1>1, <2>1, PlaceFact
    <3>. QED
      BY <2>1, <2>3, <2>5, <2>6, <3>1, <3>2 DEF Ends, Receives
  <2>7. CASE ~(IsPlayerInvited(who, Received.instanceId, Received.removeInviteTime) /\ who = p)
    <3>1. m_queuedPlayers' = [m_queuedPlayers EXCEPT ![who] = None] \/ m_queuedPlayers' = m_queuedPlayers
      BY <1>1 DEF Expired, RemovePlayer, Forget, queue
    <3>2. IsPlayerInvited(who, Received.instanceId, Received.removeInviteTime) \/ m_queuedPlayers' = m_queuedPlayers
      BY <1>1 DEF Expired, queue
    <3>. QED
      BY <1>1, <2>1, <2>7, <3>1, <3>2
  <2>. QED
    BY <2>6, <2>7
<1>2. ListInv /\ TimerInv /\ [Next]_vars =>
         [\A p \in Players : Expired /\ m_queuedPlayers[p] # None /\ HasTimer(p) => m_queuedPlayers'[p] # None]_vars
  BY <1>1
<1>. QED
  BY <1>2, TimerInductive, PTL DEF Spec, ExpiresOwnInvitation

-----------------------------------------------------------------------------
(* Where a player is.  He who is on his way to a battleground, or in one,  *)
(* is in no queue and has not asked for one.                               *)

Answers(k, p) == /\ Receives(k, "Port") \/ Receives(k, "LoggedOut") \/ Receives(k, "Expired")
                 /\ toQueue[k].player = p
Leaves(k, p) == Tells(k, "Left") /\ toWorld[k].player = p
Moves(k, p) == Enters(k, p) \/ Leaves(k, p)
Listens(p) == online[p] /\ ~m_bgBattleGroundQueueID[p].in

\* Nobody in the queue when the k-th message is executed.
Refused(k, p) == m_queuedPlayers[p] = None /\ \A j \in Nat : j < k => ~Joins(j, p)
Out(p) == m_queuedPlayers[p] = None /\ \A k \in Nat : ~Joins(k, p)

\* An answer in front of a request to join is refused, and so is one of a player who may ask.
Ordered(p) == /\ \A k, l \in Nat : Answers(k, p) /\ Joins(l, p) /\ k < l => Refused(k, p)
              /\ Listens(p) => \A k \in Nat : Answers(k, p) => Refused(k, p)
Moving(p) == \A k \in Nat : Moves(k, p) => /\ Out(p) /\ bgInstanceID[p] = 0 /\ ~Listens(p)
                                           /\ \A l \in Nat : Moves(l, p) => k = l
Seated(p) == /\ bgInstanceID[p] # 0 => Out(p)
             /\ away[p] \notin {None, 0} => bgInstanceID[p] = away[p]
             /\ \A i \in Created : Exists(i) /\ p \in m_battleGrounds[i].players =>
                   bgInstanceID[p] = i /\ away[p] = None
Attending(p) == Ordered(p) /\ Moving(p) /\ Seated(p)
Attends == \A p \in Players : Attending(p)

\* What a step leaves of it when the player does not ask, answers at most once, and is sent nowhere.
Asks(p) == \E d \in {0, 1} : \A k \in Nat :
              /\ Answers(k, p)' => \/ Answers(k + d, p)
                                   \/ ~Listens(p)' /\ \A l \in Nat : Joins(l, p)' => l < k
              /\ Joins(k, p)' => Joins(k + d, p)
Goes(p) == \E w \in {0, 1} : \A k \in Nat : Moves(k, p)' => Moves(k + w, p)
Stays(p) == /\ m_queuedPlayers'[p] \in {m_queuedPlayers[p], None}
            /\ bgInstanceID'[p] \in {bgInstanceID[p], 0}
            /\ away'[p] \notin {None, 0} => away'[p] = away[p] /\ bgInstanceID'[p] = bgInstanceID[p]
            /\ Listens(p)' => Listens(p) \/ (Out(p) /\ \A k \in Nat : ~Moves(k, p)')
            /\ \A i \in Created' : Exists(i)' /\ p \in m_battleGrounds'[i].players =>
                  bgInstanceID'[p] = i /\ away'[p] = None

\* Then it is kept.
LEMMA StaysPut ==
  ASSUME NEW p \in Players, Attending(p), Asks(p), Goes(p), Stays(p)
  PROVE  Attending(p)'
<1>1. Ordered(p) /\ Moving(p) /\ Seated(p)
  BY DEF Attending
<1>2. PICK d \in {0, 1} : \A k \in Nat :
         /\ Answers(k, p)' => \/ Answers(k + d, p)
                              \/ ~Listens(p)' /\ \A l \in Nat : Joins(l, p)' => l < k
         /\ Joins(k, p)' => Joins(k + d, p)
  BY DEF Asks
<1>3. PICK w \in {0, 1} : \A k \in Nat : Moves(k, p)' => Moves(k + w, p)
  BY DEF Goes
<1>4. /\ \A k \in Nat : k + d \in Nat /\ k + w \in Nat
      /\ \A j, k \in Nat : (j < k <=> j + d < k + d) /\ (j + w = k + w => j = k)
  OBVIOUS
<1>5. m_queuedPlayers[p] = None => m_queuedPlayers'[p] = None
  BY DEF Stays
<1>6. Out(p) => Out(p)' /\ \A k \in Nat : Refused(k, p)'
  BY <1>2, <1>4, <1>5 DEF Out, Refused
<1>7. \A k \in Nat : Refused(k + d, p) => Refused(k, p)'
  BY <1>2, <1>4, <1>5 DEF Refused
<1>8. Ordered(p)'
  <2>1. \A k, l \in Nat : Answers(k, p)' /\ Joins(l, p)' /\ k < l => Refused(k, p)'
    <3> SUFFICES ASSUME NEW k \in Nat, NEW l \in Nat, Answers(k, p)', Joins(l, p)', k < l PROVE Refused(k, p)'
      OBVIOUS
    <3>1. Answers(k + d, p)
      BY <1>2
    <3>. QED
      BY <1>1, <1>2, <1>4, <1>7, <3>1 DEF Ordered
  <2>2. Listens(p)' => \A k \in Nat : Answers(k, p)' => Refused(k, p)'
    <3>1. CASE Listens(p)
      BY <1>1, <1>2, <1>4, <1>7, <3>1 DEF Ordered
    <3>2. CASE Out(p)
      BY <1>6, <3>2
    <3>. QED
      BY <3>1, <3>2 DEF Stays
  <2>. QED
    BY <2>1, <2>2 DEF Ordered
<1>9. Moving(p)'
  <2> SUFFICES ASSUME NEW k \in Nat, Moves(k, p)'
               PROVE  /\ Out(p)' /\ bgInstanceID'[p] = 0 /\ ~Listens(p)'
                      /\ \A l \in Nat : Moves(l, p)' => k = l
    BY DEF Moving
  <2>1. /\ Out(p) /\ bgInstanceID[p] = 0 /\ ~Listens(p)
        /\ \A l \in Nat : Moves(l, p) => k + w = l
    BY <1>1, <1>3, <1>4 DEF Moving
  <2>. QED
    BY <1>3, <1>4, <1>6, <2>1 DEF Stays
<1>10. Seated(p)'
  <2>1. bgInstanceID'[p] # 0 => Out(p)'
    BY <1>1, <1>6 DEF Seated, Stays
  <2>2. away'[p] \notin {None, 0} => bgInstanceID'[p] = away'[p]
    BY <1>1 DEF Seated, Stays
  <2>. QED
    BY <2>1, <2>2 DEF Seated, Stays
<1>. QED
  BY <1>8, <1>9, <1>10 DEF Attending

\* The kinds of message that matter to it.
Askings == {"AddGroup", "Port", "LoggedOut", "Expired"}
Movings == {"Enter", "Left"}

\* No such message is new.
LEMMA NoneAsks ==
  ASSUME NEW p \in Players
  PROVE  /\ \A d \in {0, 1} : QueueShifted(Askings, d) => Asks(p)
         /\ \A w \in {0, 1} : WorldShifted(Movings, w) => Goes(p)
<1>1. ASSUME NEW d \in {0, 1}, QueueShifted(Askings, d) PROVE Asks(p)
  <2>1. \A k \in Nat : k \in 1..Len(toQueue') /\ toQueue'[k].type \in Askings =>
           k + d \in 1..Len(toQueue) /\ toQueue'[k] = toQueue[k + d]
    BY <1>1 DEF QueueShifted
  <2>2. \A k \in Nat : Answers(k, p)' => Answers(k + d, p)
    BY <2>1 DEF Answers, Receives, Askings
  <2>3. \A k \in Nat : Joins(k, p)' => Joins(k + d, p)
    BY <2>1 DEF Joins, Receives, Askings
  <2>. QED
    BY <1>1, <2>2, <2>3 DEF Asks
<1>2. ASSUME NEW w \in {0, 1}, WorldShifted(Movings, w) PROVE Goes(p)
  <2>1. \A k \in Nat : k \in 1..Len(toWorld') /\ toWorld'[k].type \in Movings =>
           k + w \in 1..Len(toWorld) /\ toWorld'[k] = toWorld[k + w]
    BY <1>2 DEF WorldShifted
  <2>2. \A k \in Nat : Moves(k, p)' => Moves(k + w, p)
    BY <2>1 DEF Moves, Enters, Leaves, Tells, Movings
  <2>. QED
    BY <2>2 DEF Goes
<1>. QED
  BY <1>1, <1>2

\* A player nothing is done to stays where he is.
LEMMA Unmoved ==
  ASSUME NEW p \in Players, Seated(p), m_queuedPlayers'[p] \in {m_queuedPlayers[p], None},
         bgInstanceID'[p] = bgInstanceID[p], away'[p] = away[p], Listens(p)' => Listens(p),
         \A i \in Created' : Exists(i)' /\ p \in m_battleGrounds'[i].players =>
             i \in Created /\ Exists(i) /\ p \in m_battleGrounds[i].players
  PROVE  Stays(p)
BY DEF Stays, Seated

\* The queue's thread moves nobody itself.
LEMMA QueueStays ==
  ASSUME UNCHANGED world, NEW p \in Players, Seated(p), m_queuedPlayers'[p] \in {m_queuedPlayers[p], None}
  PROVE  Stays(p)
<1>1. m_battleGrounds' = m_battleGrounds /\ UNCHANGED <<online, away, bgInstanceID, m_bgBattleGroundQueueID>>
  BY DEF world, player
<1>2. Created' = Created /\ \A i : Exists(i)' <=> Exists(i)
  BY <1>1 DEF Created, Exists, Status
<1>3. Listens(p)' <=> Listens(p)
  BY <1>1 DEF Listens
<1>. QED
  BY <1>1, <1>2, <1>3, Unmoved

\* Messages that send the player nowhere.
LEMMA SentElsewhere ==
  ASSUME BgTypes, NEW p \in Players, NEW ms \in Seq(ForWorld), toWorld' = toWorld \o ms,
         \A m \in 1..Len(ms) : ms[m].type \in Movings => ms[m].player # p
  PROVE  Goes(p)
<1>1. toWorld \in Seq(ForWorld)
  BY DEF BgTypes, MessageTypes
<1>2. \A k \in 1..Len(toWorld') : \/ k \in 1..Len(toWorld) /\ toWorld'[k] = toWorld[k]
                                  \/ k - Len(toWorld) \in 1..Len(ms) /\ toWorld'[k] = ms[k - Len(toWorld)]
  BY <1>1, Joined
<1>3. \A k \in Nat : Moves(k, p)' => Moves(k, p)
  <2> SUFFICES ASSUME NEW k \in Nat, Moves(k, p)' PROVE Moves(k, p)
    OBVIOUS
  <2>1. k \in 1..Len(toWorld') /\ toWorld'[k].type \in Movings /\ toWorld'[k].player = p
    BY DEF Moves, Enters, Leaves, Tells, Movings
  <2>2. k \in 1..Len(toWorld) /\ toWorld'[k] = toWorld[k]
    BY <1>2, <2>1
  <2>. QED
    BY <2>2 DEF Moves, Enters, Leaves, Tells
<1>4. \A k \in Nat : k + 0 = k
  OBVIOUS
<1>. QED
  BY <1>3, <1>4 DEF Goes

\* The queue executes a message, and sends the player nowhere.
LEMMA QueueMoves ==
  ASSUME BgTypes, UNCHANGED world, toQueue # <<>>, toQueue' = Tail(toQueue),
         NEW p \in Players, Attending(p), m_queuedPlayers'[p] \in {m_queuedPlayers[p], None}, Goes(p)
  PROVE  Attending(p)'
<1>1. QueueShifted(Askings, 1)
  BY QueueShift
<1>2. Asks(p)
  BY <1>1, NoneAsks
<1>3. Stays(p)
  BY QueueStays DEF Attending
<1>. QED
  BY <1>2, <1>3, StaysPut

\* A message about nobody's place.
LEMMA OneSent ==
  ASSUME BgTypes, NEW m \in ForWorld, m.type \notin Movings, toWorld' = Append(toWorld, m)
  PROVE  \A p \in Players : Goes(p)
<1> DEFINE ms == <<m>>
<1>1. toWorld \in Seq(ForWorld)
  BY DEF BgTypes, MessageTypes
<1>2. ms \in Seq(ForWorld) /\ toWorld' = toWorld \o ms /\ \A k \in 1..Len(ms) : ms[k].type \notin Movings
  BY <1>1
<1> HIDE DEF ms
<1>. QED
  BY <1>2, SentElsewhere

\* A player joins: he is not in a battleground, nor on his way to one, as he has asked to join.
LEMMA JoinAttends ==
  ASSUME ListInv, Attends, AddGroup
  PROVE  Attends'
<1>1. /\ BgTypes /\ toWorld \in Seq(ForWorld) /\ m_queuedPlayers \in [Players -> Nat \union {None}]
  BY DEF ListInv, BgTypes, MessageTypes, QueueTypes
<1>2. /\ toQueue # <<>> /\ toQueue' = Tail(toQueue) /\ Received.type = "AddGroup" /\ UNCHANGED world
  BY DEF AddGroup, ToQueue, Received
<1>3. /\ Received \in ForQueue /\ Received = toQueue[1] /\ 1 \in 1..Len(toQueue) /\ Len(toQueue) \in Nat
  BY <1>1, <1>2, QueuePopped DEF Received
<1>4. PICK who \in Players, num \in Nat : who = Received.player /\ num = Received.number
  BY <1>2, <1>3, QueueKinds
<1> DEFINE m == [type |-> "Queued", player |-> who]
<1>5. m_queuedPlayers' = [m_queuedPlayers EXCEPT ![who] = num] /\ toWorld' = Append(toWorld, m)
  BY <1>4 DEF AddGroup
<1>6. Joins(1, who)
  BY <1>2, <1>3, <1>4 DEF Joins, Receives
<1>7. \A p \in Players : Goes(p)
  <2>1. m \in ForWorld /\ m.type \notin Movings
    BY <1>4, WorldMembers DEF Movings
  <2> HIDE DEF m
  <2>. QED
    BY <1>1, <1>5, <2>1, OneSent
<1> HIDE DEF m
<1>8. ASSUME NEW p \in Players, p # who PROVE Attending(p)'
  <2>1. m_queuedPlayers'[p] = m_queuedPlayers[p]
    BY <1>1, <1>5, <1>8
  <2>2. Attending(p)
    BY DEF Attends
  <2>. QED
    BY <1>1, <1>2, <1>7, <2>1, <2>2, QueueMoves
<1>9. Attending(who)'
  <2>1. Ordered(who) /\ Moving(who) /\ Seated(who)
    BY <1>4 DEF Attends, Attending
  <2>2. ~Out(who) /\ \A k \in Nat : k > 1 => ~Refused(k, who)
    BY <1>6 DEF Out, Refused
  <2>3. bgInstanceID[who] = 0 /\ \A k \in Nat : ~Moves(k, who)
    BY <2>1, <2>2 DEF Seated, Moving
  <2>4. \A k \in Nat : ~Moves(k, who)'
    BY <1>4, <1>7, <2>3 DEF Goes
  <2>5. /\ \A k \in Nat : Answers(k, who)' => Answers(k + 1, who) /\ k + 1 \in Nat /\ k + 1 > 1
        /\ \A k \in Nat : Joins(k, who)' => Joins(k + 1, who)
    <3>1. QueueShifted(Askings, 1)
      BY <1>1, <1>2, QueueShift
    <3>2. ASSUME NEW k \in Nat, Answers(k, who)' PROVE Answers(k + 1, who) /\ k + 1 \in Nat /\ k + 1 > 1
      <4>1. k \in 1..Len(toQueue') /\ toQueue'[k].type \in Askings
        BY <3>2 DEF Answers, Receives, Askings
      <4>2. k + 1 \in 1..Len(toQueue) /\ toQueue'[k] = toQueue[k + 1] /\ k + 1 > 1
        BY <3>1, <4>1 DEF QueueShifted
      <4>. QED
        BY <3>2, <4>2 DEF Answers, Receives
    <3>3. ASSUME NEW k \in Nat, Joins(k, who)' PROVE Joins(k + 1, who)
      BY <3>1, <3>3 DEF Joins, Receives, QueueShifted, Askings
    <3>. QED
      BY <3>2, <3>3
  <2>6. UNCHANGED <<online, away, bgInstanceID, m_bgBattleGroundQueueID>> /\ m_battleGrounds' = m_battleGrounds
    BY <1>2 DEF world, player
  <2>7. Ordered(who)'
    <3>1. \A k, l \in Nat : k < l => k + 1 < l + 1 /\ l + 1 \in Nat
      OBVIOUS
    <3>2. \A k, l \in Nat : ~(Answers(k, who)' /\ Joins(l, who)' /\ k < l)
      BY <2>1, <2>2, <2>5, <3>1 DEF Ordered
    <3>3. Listens(who)' => Listens(who)
      BY <2>6 DEF Listens
    <3>4. Listens(who)' => \A k \in Nat : ~Answers(k, who)'
      BY <2>1, <2>2, <2>5, <3>3 DEF Ordered
    <3>. QED
      BY <3>2, <3>4 DEF Ordered
  <2>8. Moving(who)'
    BY <2>4 DEF Moving
  <2>9. Seated(who)'
    <3>1. Created' = Created /\ \A i : Exists(i)' <=> Exists(i)
      BY <2>6 DEF Created, Exists, Status
    <3>. QED
      BY <2>1, <2>3, <2>6, <3>1 DEF Seated
  <2>. QED
    BY <2>7, <2>8, <2>9 DEF Attending
<1>. QED
  BY <1>8, <1>9 DEF Attends

\* A player is taken out of the queue, and sent on his way.
LEMMA OutAttends ==
  ASSUME ListInv, Attends, UNCHANGED world, toQueue # <<>>, toQueue' = Tail(toQueue),
         NEW who \in Players, m_queuedPlayers[who] # None, Answers(1, who),
         NEW decrease \in BOOLEAN, NEW messages \in Seq(ForWorld), RemovePlayer(who, decrease, messages),
         Len(messages) <= 1, \A m \in 1..Len(messages) : messages[m].type \in Movings /\ messages[m].player = who
  PROVE  Attends'
<1> DEFINE len == Len(toWorld)
<1>1. BgTypes /\ InQueue /\ Grouped /\ toWorld \in Seq(ForWorld) /\ len \in Nat
      /\ m_queuedPlayers \in [Players -> Nat \union {None}]
  BY DEF ListInv, Listed, BgTypes, MessageTypes, QueueTypes
<1>2. m_queuedPlayers' = [m_queuedPlayers EXCEPT ![who] = None] /\ Sends(messages)
  BY <1>1, RemovePlayerFact
<1>3. PICK all \in Seq(ForWorld) :
         /\ toWorld' = toWorld \o all
         /\ \A m \in 1..Len(all) : all[m].type = "SetInvitedCount" \/ \E l \in 1..Len(messages) : all[m] = messages[l]
         /\ \A m, l \in 1..Len(all) : all[m].type # "SetInvitedCount" /\ all[l].type # "SetInvitedCount" => m = l
  BY <1>2 DEF Sends
<1>4. \A m \in 1..Len(all) : all[m].type \in Movings => all[m].player = who /\ all[m].type # "SetInvitedCount"
  BY <1>3 DEF Movings
<1>5. ASSUME NEW p \in Players, p # who PROVE Attending(p)'
  <2>1. m_queuedPlayers'[p] = m_queuedPlayers[p]
    BY <1>1, <1>2, <1>5
  <2>2. Attending(p)
    BY DEF Attends
  <2>3. Goes(p)
    BY <1>1, <1>3, <1>4, <1>5, SentElsewhere
  <2>. QED
    BY <1>1, <2>1, <2>2, <2>3, QueueMoves
<1>6. Attending(who)'
  <2>1. Ordered(who) /\ Moving(who) /\ Seated(who)
    BY DEF Attends, Attending
  <2>2. ~Out(who) /\ ~Refused(1, who)
    BY DEF Out, Refused
  <2>3. bgInstanceID[who] = 0 /\ ~Listens(who) /\ \A k \in Nat : ~Moves(k, who)
    BY <2>1, <2>2 DEF Seated, Moving, Ordered
  <2>4. \A k \in Nat : ~Joins(k, who)
    <3>1. \A k \in Nat : Joins(k, who) => k > 1
      BY DEF Joins, Answers, Receives
    <3>. QED
      BY <2>1, <2>2, <3>1 DEF Ordered
  <2>5. \A k \in Nat : ~Joins(k, who)'
    <3>1. JoinsKept(1)
      BY <1>1, QueueShift DEF JoinsKept
    <3>2. 1 \in {0, 1}
      OBVIOUS
    <3>. QED
      BY <2>4, <3>1, <3>2, JoinKept
  <2>6. UNCHANGED <<online, away, bgInstanceID, m_bgBattleGroundQueueID>> /\ m_battleGrounds' = m_battleGrounds
    BY DEF world, player
  <2>7. ~Listens(who)'
    BY <2>3, <2>6 DEF Listens
  <2>8. Out(who)'
    BY <1>1, <1>2, <2>5 DEF Out
  <2>9. \A k, l \in Nat : Moves(k, who)' /\ Moves(l, who)' => k = l
    <3>1. \A k \in 1..Len(toWorld') : \/ k \in 1..len /\ toWorld'[k] = toWorld[k]
                                      \/ k - len \in 1..Len(all) /\ toWorld'[k] = all[k - len]
      BY <1>1, <1>3, Joined
    <3>2. ASSUME NEW k \in Nat, Moves(k, who)'
          PROVE  k - len \in 1..Len(all) /\ all[k - len].type # "SetInvitedCount"
      <4>1. k \in 1..Len(toWorld') /\ toWorld'[k].type \in Movings
        BY <3>2 DEF Moves, Enters, Leaves, Tells, Movings
      <4>2. ~(k \in 1..len /\ toWorld'[k] = toWorld[k])
        BY <2>3, <3>2, <4>1 DEF Moves, Enters, Leaves, Tells
      <4>. QED
        BY <1>4, <3>1, <4>1, <4>2
    <3> HIDE DEF len
    <3>3. \A k, l \in Nat : k - len = l - len => k = l
      BY <1>1
    <3>. QED
      BY <1>3, <3>2, <3>3
  <2>10. Moving(who)'
    BY <2>3, <2>6, <2>7, <2>8, <2>9 DEF Moving
  <2>11. Ordered(who)'
    BY <2>5, <2>7 DEF Ordered
  <2>12. Seated(who)'
    <3>1. Created' = Created /\ \A i : Exists(i)' <=> Exists(i)
      BY <2>6 DEF Created, Exists, Status
    <3>. QED
      BY <2>1, <2>3, <2>6, <3>1 DEF Seated
  <2>. QED
    BY <2>10, <2>11, <2>12 DEF Attending
<1>. QED
  BY <1>5, <1>6 DEF Attends

\* The queue executes a message that is not about a player.
LEMMA QuietAttends ==
  ASSUME ListInv, Attends,
         \/ PortRefused \/ SetStatusInQueue \/ AddBgToFreeSlots \/ RemoveBgFromFreeSlots
         \/ DecreaseInvitedCount \/ ScheduleQueueUpdate
  PROVE  Attends'
<1>1. BgTypes
  BY DEF ListInv
<1>2. /\ UNCHANGED world /\ m_queuedPlayers' = m_queuedPlayers /\ toQueue # <<>> /\ toQueue' = Tail(toQueue)
      /\ toWorld' = toWorld \/ \E m \in ForWorld : m.type = "SetInvitedCount" /\ toWorld' = Append(toWorld, m)
  BY <1>1, CountSent
<1>3. ASSUME NEW p \in Players PROVE Goes(p)
  <2>1. CASE toWorld' = toWorld
    <3>1. WorldShifted(Movings, 0)
      BY <1>1, <2>1, WorldShift
    <3>. QED
      BY <3>1, NoneAsks
  <2>2. CASE \E m \in ForWorld : m.type = "SetInvitedCount" /\ toWorld' = Append(toWorld, m)
    <3>1. PICK m \in ForWorld : m.type = "SetInvitedCount" /\ toWorld' = Append(toWorld, m)
      BY <2>2
    <3>2. m.type \notin Movings
      BY <3>1 DEF Movings
    <3>. QED
      BY <1>1, <3>1, <3>2, OneSent
  <2>. QED
    BY <1>2, <2>1, <2>2
<1>4. ASSUME NEW p \in Players PROVE Attending(p)'
  <2>1. Attending(p) /\ m_queuedPlayers'[p] \in {m_queuedPlayers[p], None}
    BY <1>2 DEF Attends
  <2>. QED
    BY <1>1, <1>2, <1>3, <2>1, QueueMoves
<1>. QED
  BY <1>4 DEF Attends

\* An answer, a player who has logged out, or an invitation that has expired.
LEMMA AnswerAttends ==
  ASSUME ListInv, Attends, PortEnter \/ PortLeave \/ LoggedOut \/ Expired
  PROVE  Attends'
<1>1. BgTypes /\ toWorld \in Seq(ForWorld) /\ Grouped
  BY DEF ListInv, BgTypes, MessageTypes
<1>2. UNCHANGED world /\ toQueue # <<>> /\ toQueue' = Tail(toQueue)
      /\ Received.type \in {"Port", "LoggedOut", "Expired"}
  BY DEF PortEnter, PortLeave, LoggedOut, Expired, ToQueue, Received
<1>3. /\ Received \in ForQueue /\ Received = toQueue[1] /\ 1 \in 1..Len(toQueue)
  BY <1>1, <1>2, QueuePopped DEF Received
<1>4. PICK p \in Players : p = Received.player
  BY <1>2, <1>3, QueueKinds
<1>5. Answers(1, p)
  BY <1>2, <1>3, <1>4 DEF Answers, Receives
<1> DEFINE i == Group(p).invitedTo
           enter == <<[type |-> "Enter", player |-> p, instanceId |-> i]>>
           left == <<[type |-> "Left", player |-> p]>>
<1>6. \/ m_queuedPlayers[p] # None /\ RemovePlayer(p, FALSE, enter)
      \/ m_queuedPlayers[p] # None /\ RemovePlayer(p, TRUE, left)
      \/ m_queuedPlayers[p] # None /\ RemovePlayer(p, TRUE, <<>>)
      \/ m_queuedPlayers' = m_queuedPlayers /\ toWorld' = toWorld
  BY <1>4 DEF PortEnter, PortLeave, LoggedOut, Expired, IsInvited, IsPlayerInvited, queue
<1>7. CASE m_queuedPlayers' = m_queuedPlayers /\ toWorld' = toWorld
  <2>1. ASSUME NEW q \in Players PROVE Attending(q)'
    <3>1. Attending(q) /\ m_queuedPlayers'[q] \in {m_queuedPlayers[q], None}
      BY <1>7 DEF Attends
    <3>2. Goes(q)
      <4>1. WorldShifted(Movings, 0)
        BY <1>1, <1>7, WorldShift
      <4>. QED
        BY <4>1, NoneAsks
    <3>. QED
      BY <1>1, <1>2, <3>1, <3>2, QueueMoves
  <2>. QED
    BY <2>1 DEF Attends
<1>8. ASSUME m_queuedPlayers[p] # None, NEW decrease \in BOOLEAN, NEW x \in ForWorld,
             x.type \in Movings, x.player = p, NEW messages \in {<<>>, <<x>>}, RemovePlayer(p, decrease, messages)
      PROVE  Attends'
  <2>1. messages \in Seq(ForWorld) /\ Len(messages) <= 1 /\ \A m \in 1..Len(messages) : messages[m] = x
    <3>1. CASE messages = <<>>
      BY <3>1
    <3>2. CASE messages = <<x>>
      BY <1>8, <3>2
    <3>. QED
      BY <1>8, <3>1, <3>2
  <2>2. \A m \in 1..Len(messages) : messages[m].type \in Movings /\ messages[m].player = p
    BY <1>8, <2>1
  <2>. QED
    BY <1>2, <1>5, <1>8, <2>1, <2>2, OutAttends
<1> DEFINE x == [type |-> "Left", player |-> p]
           y == [type |-> "Enter", player |-> p, instanceId |-> i]
<1>9. TRUE \in BOOLEAN /\ FALSE \in BOOLEAN
  OBVIOUS
<1>10. x \in ForWorld /\ x.type \in Movings /\ x.player = p
  BY WorldMembers DEF Movings
<1>11. m_queuedPlayers[p] # None => y \in ForWorld /\ y.type \in Movings /\ y.player = p
  <2> SUFFICES ASSUME m_queuedPlayers[p] # None PROVE y \in ForWorld /\ y.type \in Movings /\ y.player = p
    OBVIOUS
  <2>1. i \in Nat
    BY <1>1, PlaceFact DEF Groups
  <2> HIDE DEF i
  <2>. QED
    BY <2>1, WorldMembers DEF Movings
<1> HIDE DEF x, y
<1>12. CASE m_queuedPlayers[p] # None /\ RemovePlayer(p, FALSE, enter)
  <2>1. enter \in {<<>>, <<y>>}
    BY DEF y
  <2> HIDE DEF enter
  <2>. QED
    BY <1>8, <1>9, <1>11, <1>12, <2>1
<1>13. CASE m_queuedPlayers[p] # None /\ RemovePlayer(p, TRUE, left)
  <2>1. left \in {<<>>, <<x>>}
    BY DEF x
  <2> HIDE DEF left
  <2>. QED
    BY <1>8, <1>9, <1>10, <1>13, <2>1
<1>14. CASE m_queuedPlayers[p] # None /\ RemovePlayer(p, TRUE, <<>>)
  <2> DEFINE none == <<>>
  <2>1. none \in {<<>>, <<x>>} /\ RemovePlayer(p, TRUE, none)
    BY <1>14
  <2> HIDE DEF none
  <2>. QED
    BY <1>8, <1>9, <1>10, <1>14, <2>1
<1>. QED
  BY <1>6, <1>7, <1>12, <1>13, <1>14

\* What an update sends.
LEMMA UpdateTells ==
  ASSUME BgTypes, NEW D, Updated(D)
  PROVE  \E ms \in Seq(ForWorld) :
            toWorld' = toWorld \o ms /\ \A m \in 1..Len(ms) : ms[m].type \in {"Invite", "SetInvitedCount", "Create"}
<1>1. PICK sent \in Seq(ForWorld) :
         /\ \A m \in 1..Len(sent) : sent[m].type \in {"Invite", "SetInvitedCount"}
         /\ \/ toWorld' = toWorld \o sent
            \/ \E c \in Counts : toWorld' = toWorld \o
                  Append(sent, [type |-> "Create", instanceId |-> i_MaxInstanceId + 1, invited |-> c])
  BY DEF Updated, Answered
<1>2. CASE toWorld' = toWorld \o sent
  BY <1>1, <1>2
<1>3. CASE \E c \in Counts : toWorld' = toWorld \o
                  Append(sent, [type |-> "Create", instanceId |-> i_MaxInstanceId + 1, invited |-> c])
  <2>1. PICK c \in Counts : toWorld' = toWorld \o
                  Append(sent, [type |-> "Create", instanceId |-> i_MaxInstanceId + 1, invited |-> c])
    BY <1>3
  <2>2. i_MaxInstanceId + 1 \in Nat
    BY DEF BgTypes, QueueTypes
  <2> DEFINE m == [type |-> "Create", instanceId |-> i_MaxInstanceId + 1, invited |-> c]
             ms == Append(sent, m)
  <2>3. m \in ForWorld /\ m.type = "Create"
    BY <2>2, WorldMembers
  <2> HIDE DEF m
  <2>4. ms \in Seq(ForWorld) /\ \A k \in 1..Len(ms) : ms[k] = m \/ (k \in 1..Len(sent) /\ ms[k] = sent[k])
    BY <2>3
  <2>5. toWorld' = toWorld \o ms
    BY <2>1 DEF m
  <2> HIDE DEF ms
  <2>6. \A k \in 1..Len(ms) : ms[k].type \in {"Invite", "SetInvitedCount", "Create"}
    BY <1>1, <2>3, <2>4
  <2>. QED
    BY <2>4, <2>5, <2>6
<1>. QED
  BY <1>1, <1>2, <1>3

\* An update moves nobody.
LEMMA UpdateAttends ==
  ASSUME ListInv, Attends, Update
  PROVE  Attends'
<1>1. BgTypes /\ Listed /\ toWorld \in Seq(ForWorld)
  BY DEF ListInv, BgTypes, MessageTypes
<1>2. UNCHANGED world /\ toQueue' = toQueue /\ m_queuedPlayers' = m_queuedPlayers
  BY DEF Update
<1>3. Updated({})
  <2>1. Single(m_bgFreeSlotQueue, {}) /\ Bounded(m_bgFreeSlotQueue, m_queuedGroups, {})
    BY DEF Single, Bounded
  <2>. QED
    BY <1>1, <2>1, UpdateFact
<1>4. \E ms \in Seq(ForWorld) : /\ toWorld' = toWorld \o ms
                                /\ \A m \in 1..Len(ms) : ms[m].type \notin Movings
  <2>1. PICK ms \in Seq(ForWorld) :
           toWorld' = toWorld \o ms /\ \A m \in 1..Len(ms) : ms[m].type \in {"Invite", "SetInvitedCount", "Create"}
    BY <1>1, <1>3, UpdateTells
  <2>2. \A m \in 1..Len(ms) : ms[m].type \notin Movings
    BY <2>1 DEF Movings
  <2>. QED
    BY <2>1, <2>2
<1>5. ASSUME NEW p \in Players PROVE Attending(p)'
  <2>1. Attending(p) /\ m_queuedPlayers'[p] \in {m_queuedPlayers[p], None}
    BY <1>2 DEF Attends
  <2>2. Goes(p)
    BY <1>1, <1>4, SentElsewhere
  <2>3. Stays(p)
    BY <1>2, <2>1, QueueStays DEF Attending
  <2>4. QueueShifted(Askings, 0)
    BY <1>1, <1>2, QueueShift
  <2>5. Asks(p)
    BY <2>4, NoneAsks
  <2>. QED
    BY <2>1, <2>2, <2>3, <2>5, StaysPut
<1>. QED
  BY <1>5 DEF Attends

\* A step of the world's thread that sends nothing to it leaves a player where he is, when it does nothing to him.
LEMMA WorldMoves ==
  ASSUME BgTypes, toWorld' = toWorld \/ (toWorld # <<>> /\ toWorld' = Tail(toWorld)),
         NEW p \in Players, Attending(p), Asks(p), Stays(p)
  PROVE  Attending(p)'
<1>1. WorldShifted(Movings, 0) \/ WorldShifted(Movings, 1)
  BY WorldShift
<1>2. Goes(p)
  BY <1>1, NoneAsks
<1>. QED
  BY <1>2, StaysPut

\* Messages about no player.
LEMMA OtherSent ==
  ASSUME BgTypes, NEW ms \in Seq(ForQueue), toQueue' = toQueue \o ms, \A m \in 1..Len(ms) : ms[m].type \notin Askings
  PROVE  \A p \in Players : Asks(p)
<1>1. QueueShifted(Askings, 0)
  BY QueueSent
<1>. QED
  BY <1>1, NoneAsks

\* Who is sent to the queue is counted, who joins, or what battlegrounds there are.
LEMMA OthersAttend ==
  ASSUME ListInv, Attends, Queued \/ Invite \/ SetInvitedCount \/ Create
  PROVE  Attends'
<1>1. BgTypes /\ OnItsWay /\ m_bgBattleGroundQueueID \in [Players -> [in : BOOLEAN, invitedToInstance : Nat]]
  BY DEF ListInv, Listed, BgTypes, WorldTypes
<1>2. /\ UNCHANGED <<online, away, bgInstanceID>> /\ m_queuedPlayers' = m_queuedPlayers
      /\ toWorld # <<>> /\ toWorld' = Tail(toWorld)
  BY DEF Queued, Invite, SetInvitedCount, Create, ToWorld, player, queue
<1>3. \A p \in Players : Listens(p)' => Listens(p)
  <2>1. \/ m_bgBattleGroundQueueID' = m_bgBattleGroundQueueID
        \/ m_bgBattleGroundQueueID' = [m_bgBattleGroundQueueID EXCEPT ![Sent.player] = [in |-> TRUE, invitedToInstance |-> 0]]
        \/ \E i : m_bgBattleGroundQueueID' = [m_bgBattleGroundQueueID EXCEPT ![Sent.player].invitedToInstance = i]
    BY DEF Queued, Invite, SetInvitedCount, Create, player
  <2>2. ASSUME NEW p \in Players, m_bgBattleGroundQueueID[p].in PROVE m_bgBattleGroundQueueID'[p].in
    <3>1. CASE m_bgBattleGroundQueueID' = [m_bgBattleGroundQueueID EXCEPT ![Sent.player] = [in |-> TRUE, invitedToInstance |-> 0]]
      BY <1>1, <2>2, <3>1
    <3>2. ASSUME NEW i, m_bgBattleGroundQueueID' = [m_bgBattleGroundQueueID EXCEPT ![Sent.player].invitedToInstance = i]
          PROVE  m_bgBattleGroundQueueID'[p].in
      <4> DEFINE old == m_bgBattleGroundQueueID[Sent.player]
                 new == [old EXCEPT !.invitedToInstance = i]
      <4>1. m_bgBattleGroundQueueID' = [m_bgBattleGroundQueueID EXCEPT ![Sent.player] = new]
        BY <3>2
      <4>2. p = Sent.player => old \in [in : BOOLEAN, invitedToInstance : Nat] /\ old.in
        BY <1>1, <2>2
      <4> HIDE DEF old
      <4>3. p = Sent.player => new.in
        BY <4>2
      <4> HIDE DEF new
      <4>. QED
        BY <1>1, <2>2, <4>1, <4>3
    <3>. QED
      BY <2>1, <2>2, <3>1, <3>2
  <2>. QED
    BY <1>2, <2>2 DEF Listens
<1>4. \A i \in Created' : Exists(i)' => \A p \in m_battleGrounds'[i].players :
         i \in Created /\ Exists(i) /\ p \in m_battleGrounds[i].players
  <2>1. CASE Queued \/ Invite
    <3>1. m_battleGrounds' = m_battleGrounds
      BY <2>1 DEF Queued, Invite
    <3>2. Created' = Created /\ \A i : Exists(i)' <=> Exists(i)
      BY <3>1 DEF Created, Exists, Status
    <3>. QED
      BY <3>1, <3>2
  <2>2. CASE SetInvitedCount
    <3>1. Created' = Created /\ \A j \in Created : SameBattle(j)
      BY <1>1, <2>2, CountFact
    <3>2. \A i \in Created : Exists(i)' => Exists(i)
      BY <3>1 DEF SameBattle, Exists, Status
    <3>. QED
      BY <3>1, <3>2 DEF SameBattle
  <2>3. CASE Create
    <3>1. PICK i : i = Sent.instanceId
      OBVIOUS
    <3>2. /\ i \notin Created /\ Created' = Created \union {i} /\ m_battleGrounds'[i].players = {}
          /\ \A j \in Created : m_battleGrounds'[j] = m_battleGrounds[j]
      BY <1>1, <2>3, <3>1, CreateFact
    <3>3. \A j \in Created : Exists(j)' => Exists(j)
      BY <3>2 DEF Exists, Status
    <3>. QED
      BY <3>2, <3>3
  <2>. QED
    BY <2>1, <2>2, <2>3
<1>5. QueueShifted(Askings, 0)
  <2>1. CASE Queued \/ Invite \/ SetInvitedCount
    BY <1>1, <2>1, QueueShift DEF Queued, Invite, SetInvitedCount
  <2>2. CASE Create
    <3> DEFINE m == StatusMessage(Sent.instanceId, "wait_join")
    <3>1. m.type \notin Askings /\ toQueue' = toQueue \o <<m>>
      BY <2>2 DEF Create, Send, StatusMessage, Askings
    <3> HIDE DEF m
    <3>. QED
      BY <1>1, <3>1, OneOther
  <2>. QED
    BY <2>1, <2>2
<1>6. ASSUME NEW p \in Players PROVE Attending(p)'
  <2>1. Attending(p) /\ Seated(p)
    BY DEF Attends, Attending
  <2>2. Stays(p)
    BY <1>2, <1>3, <1>4, <2>1, Unmoved
  <2>3. Asks(p)
    BY <1>5, NoneAsks
  <2>. QED
    BY <1>1, <1>2, <2>1, <2>2, <2>3, WorldMoves
<1>. QED
  BY <1>6 DEF Attends

\* The message about a player's place that the world executes is the only one.
LEMMA MovePopped ==
  ASSUME BgTypes, toWorld # <<>>, toWorld' = Tail(toWorld), NEW p \in Players, Attending(p), Moves(1, p)
  PROVE  Out(p) /\ bgInstanceID[p] = 0 /\ ~Listens(p) /\ \A k \in Nat : ~Moves(k, p)'
<1>1. Out(p) /\ bgInstanceID[p] = 0 /\ ~Listens(p) /\ \A l \in Nat : Moves(l, p) => 1 = l
  BY DEF Attending, Moving
<1>2. ASSUME NEW k \in Nat, Moves(k, p)' PROVE FALSE
  <2>1. k \in 1..Len(toWorld') /\ toWorld'[k].type \in Movings
    BY <1>2 DEF Moves, Enters, Leaves, Tells, Movings
  <2>2. toWorld'[k] = toWorld[k + 1] /\ k + 1 \in 1..Len(toWorld) /\ k + 1 # 1 /\ k + 1 \in Nat
    BY <2>1, WorldPopped
  <2>3. Moves(k + 1, p)
    BY <1>2, <2>2 DEF Moves, Enters, Leaves, Tells
  <2>. QED
    BY <1>1, <2>2, <2>3
<1>. QED
  BY <1>1, <1>2

\* A player is told that he is out of the queue.
LEMMA LeftAttends ==
  ASSUME ListInv, Attends, Left
  PROVE  Attends'
<1>1. BgTypes /\ m_bgBattleGroundQueueID \in [Players -> [in : BOOLEAN, invitedToInstance : Nat]]
  BY DEF ListInv, BgTypes, WorldTypes
<1>2. /\ UNCHANGED <<online, away, bgInstanceID, m_battleGrounds>> /\ m_queuedPlayers' = m_queuedPlayers
      /\ toQueue' = toQueue /\ toWorld # <<>> /\ toWorld' = Tail(toWorld) /\ Sent.type = "Left"
  BY DEF Left, ToWorld, Sent, queue
<1>3. Sent \in ForWorld /\ 1 \in 1..Len(toWorld) /\ Sent = toWorld[1]
  BY <1>1, <1>2, WorldPopped DEF Sent
<1>4. PICK who \in Players : who = Sent.player
  BY <1>2, <1>3, WorldKinds
<1>5. Moves(1, who)
  BY <1>2, <1>3, <1>4 DEF Moves, Leaves, Tells
<1>6. \A p \in Players : p # who => m_bgBattleGroundQueueID'[p] = m_bgBattleGroundQueueID[p]
  <2>1. \/ m_bgBattleGroundQueueID' = m_bgBattleGroundQueueID
        \/ m_bgBattleGroundQueueID' = [m_bgBattleGroundQueueID EXCEPT ![who] = NotQueued]
    BY <1>4 DEF Left
  <2>. QED
    BY <1>1, <2>1
<1>7. Created' = Created /\ \A i : Exists(i)' <=> Exists(i)
  BY <1>2 DEF Created, Exists, Status
<1>8. QueueShifted(Askings, 0)
  BY <1>1, <1>2, QueueShift
<1>9. ASSUME NEW p \in Players PROVE Attending(p)'
  <2>1. Attending(p) /\ Seated(p)
    BY DEF Attends, Attending
  <2>2. Stays(p)
    <3>1. CASE p # who
      <4>1. Listens(p)' => Listens(p)
        BY <1>2, <1>6, <3>1 DEF Listens
      <4>. QED
        BY <1>2, <1>7, <2>1, <4>1, Unmoved
    <3>2. CASE p = who
      <4>1. Out(p) /\ \A k \in Nat : ~Moves(k, p)'
        BY <1>1, <1>2, <1>5, <2>1, <3>2, MovePopped
      <4>. QED
        BY <1>2, <1>7, <2>1, <4>1 DEF Stays, Seated
    <3>. QED
      BY <3>1, <3>2
  <2>3. Asks(p)
    BY <1>8, NoneAsks
  <2>. QED
    BY <1>1, <1>2, <2>1, <2>2, <2>3, WorldMoves
<1>. QED
  BY <1>9 DEF Attends

\* A player is sent to a battleground.
LEMMA EnterAttends ==
  ASSUME ListInv, Attends, Enter
  PROVE  Attends'
<1>1. /\ BgTypes /\ Created \subseteq Instances /\ i_MaxInstanceId \in Nat
      /\ away \in [Players -> {None} \union 0..i_MaxInstanceId] /\ bgInstanceID \in [Players -> 0..i_MaxInstanceId]
  BY DEF ListInv, BgTypes, QueueTypes, WorldTypes, Instances
<1>2. /\ UNCHANGED <<online, m_bgBattleGroundQueueID, m_battleGrounds>> /\ m_queuedPlayers' = m_queuedPlayers
      /\ toQueue' = toQueue /\ toWorld # <<>> /\ toWorld' = Tail(toWorld) /\ Sent.type = "Enter"
  BY DEF Enter, ToWorld, Sent, queue
<1>3. Sent \in ForWorld /\ 1 \in 1..Len(toWorld) /\ Sent = toWorld[1]
  BY <1>1, <1>2, WorldPopped DEF Sent
<1>4. PICK who \in Players, i \in Nat : who = Sent.player /\ i = Sent.instanceId
  BY <1>2, <1>3, WorldKinds
<1>5. Moves(1, who)
  BY <1>2, <1>3, <1>4 DEF Moves, Enters, Tells
<1>6. Created' = Created /\ \A j : Exists(j)' <=> Exists(j)
  BY <1>2 DEF Created, Exists, Status
<1>7. /\ InWorld(who) => /\ bgInstanceID' = [bgInstanceID EXCEPT ![who] = i]
                         /\ away' = [away EXCEPT ![who] = IF Exists(i) THEN i ELSE away[who]]
      /\ ~InWorld(who) => UNCHANGED <<bgInstanceID, away>>
  BY <1>4 DEF Enter
<1>8. ASSUME NEW p \in Players, bgInstanceID'[p] = bgInstanceID[p], away'[p] = away[p] PROVE Attending(p)'
  <2>1. Attending(p) /\ Seated(p)
    BY DEF Attends, Attending
  <2>2. Listens(p)' <=> Listens(p)
    BY <1>2 DEF Listens
  <2>3. Stays(p)
    BY <1>2, <1>6, <1>8, <2>1, <2>2, Unmoved
  <2>4. Asks(p)
    BY <1>1, <1>2, QueueShift, NoneAsks
  <2>. QED
    BY <1>1, <1>2, <2>1, <2>3, <2>4, WorldMoves
<1>9. CASE InWorld(who)
  <2>1. /\ bgInstanceID'[who] = i /\ (away'[who] = i \/ away'[who] = None)
        /\ \A p \in Players : p # who => bgInstanceID'[p] = bgInstanceID[p] /\ away'[p] = away[p]
    BY <1>1, <1>7, <1>9 DEF InWorld
  <2>2. Attending(who)'
    <3>1. Attending(who) /\ Seated(who)
      BY DEF Attends, Attending
    <3>2. Out(who) /\ bgInstanceID[who] = 0 /\ ~Listens(who) /\ \A k \in Nat : ~Moves(k, who)'
      BY <1>1, <1>2, <1>5, <3>1, MovePopped
    <3>3. Out(who)'
      BY <1>2, <3>2 DEF Out, Joins, Receives
    <3>4. ~Listens(who)'
      BY <1>2, <3>2 DEF Listens
    <3>5. Ordered(who)'
      BY <3>3, <3>4 DEF Ordered, Out
    <3>6. Moving(who)'
      BY <3>2 DEF Moving
    <3>7. \A j \in Created : ~(Exists(j) /\ who \in m_battleGrounds[j].players)
      BY <1>1, <3>1, <3>2 DEF Seated, Instances
    <3>8. Seated(who)'
      BY <1>2, <1>6, <2>1, <3>3, <3>7 DEF Seated
    <3>. QED
      BY <3>5, <3>6, <3>8 DEF Attending
  <2>3. ASSUME NEW p \in Players PROVE Attending(p)'
    BY <1>8, <2>1, <2>2
  <2>. QED
    BY <2>3 DEF Attends
<1>10. CASE ~InWorld(who)
  <2>1. ASSUME NEW p \in Players PROVE Attending(p)'
    BY <1>7, <1>8, <1>10
  <2>. QED
    BY <2>1 DEF Attends
<1>. QED
  BY <1>9, <1>10

\* An answer is sent, of a player who is not to ask again before he has been told.
LEMMA AnswerSent ==
  ASSUME BgTypes, NEW p \in Players, NEW m \in ForQueue, m.type \in Askings \ {"AddGroup"}, m.player = p,
         toQueue' = toQueue \o <<>> \/ (toQueue' = toQueue \o <<m>> /\ ~Listens(p)')
  PROVE  \A q \in Players : Asks(q)
<1>1. toQueue \in Seq(ForQueue) /\ Len(toQueue) \in Nat
  BY DEF BgTypes, MessageTypes
<1>2. CASE toQueue' = toQueue \o <<>>
  <2> DEFINE ms == <<>>
  <2>1. ms \in Seq(ForQueue) /\ toQueue' = toQueue \o ms /\ \A k \in 1..Len(ms) : ms[k].type \notin Askings
    BY <1>2
  <2> HIDE DEF ms
  <2>. QED
    BY <2>1, OtherSent
<1>3. CASE toQueue' = toQueue \o <<m>> /\ ~Listens(p)'
  <2> DEFINE ms == <<m>>
             len == Len(toQueue)
  <2>1. ms \in Seq(ForQueue) /\ toQueue' = toQueue \o ms /\ Len(ms) = 1 /\ ms[1] = m
    BY <1>3
  <2> HIDE DEF ms
  <2>2. \A k \in 1..Len(toQueue') : \/ k \in 1..len /\ toQueue'[k] = toQueue[k]
                                    \/ k - len \in 1..Len(ms) /\ toQueue'[k] = ms[k - len]
    BY <1>1, <2>1, Joined
  <2> HIDE DEF len
  <2>3. \A k \in 1..Len(toQueue') : \/ k \in 1..len /\ toQueue'[k] = toQueue[k]
                                    \/ k = len + 1 /\ toQueue'[k] = m
    <3> SUFFICES ASSUME NEW k \in 1..Len(toQueue'), k - len \in 1..Len(ms), toQueue'[k] = ms[k - len]
                 PROVE  k = len + 1 /\ toQueue'[k] = m
      BY <2>2
    <3>1. k - len = 1 /\ k \in Int /\ len \in Int
      BY <1>1, <2>1 DEF len
    <3>. QED
      BY <2>1, <3>1
  <2>4. ASSUME NEW q \in Players, NEW k \in Nat, Joins(k, q)' PROVE Joins(k, q) /\ k \in 1..len
    <3>1. k \in 1..Len(toQueue') /\ toQueue'[k].type = "AddGroup" /\ toQueue'[k].player = q
      BY <2>4 DEF Joins, Receives
    <3>2. k \in 1..len /\ toQueue'[k] = toQueue[k]
      BY <2>3, <3>1
    <3>. QED
      BY <3>1, <3>2 DEF Joins, Receives, len
  <2>5. ASSUME NEW q \in Players, NEW k \in Nat, Answers(k, q)' PROVE Answers(k, q) \/ (k = len + 1 /\ q = p)
    <3>1. k \in 1..Len(toQueue') /\ toQueue'[k].player = q
      BY <2>5 DEF Answers, Receives
    <3>2. CASE k \in 1..len /\ toQueue'[k] = toQueue[k]
      BY <2>5, <3>2 DEF Answers, Receives, len
    <3>. QED
      BY <2>3, <3>1, <3>2
  <2>6. len \in Nat
    BY <1>1 DEF len
  <2>7. ASSUME NEW q \in Players PROVE Asks(q)
    <3>1. \A k \in Nat : /\ Answers(k, q)' => \/ Answers(k + 0, q)
                                              \/ ~Listens(q)' /\ \A l \in Nat : Joins(l, q)' => l < k
                         /\ Joins(k, q)' => Joins(k + 0, q)
      <4> SUFFICES ASSUME NEW k \in Nat
                   PROVE  /\ Answers(k, q)' => \/ Answers(k, q)
                                               \/ ~Listens(q)' /\ \A l \in Nat : Joins(l, q)' => l < k
                          /\ Joins(k, q)' => Joins(k, q)
        OBVIOUS
      <4>1. ASSUME k = len + 1, NEW l \in Nat, Joins(l, q)' PROVE l < k
        BY <2>4, <2>6, <4>1
      <4>. QED
        BY <1>3, <2>4, <2>5, <4>1
    <3>. QED
      BY <3>1 DEF Asks
  <2>. QED
    BY <2>7
<1>. QED
  BY <1>2, <1>3

\* A timer ends, or a player answers: he is in the queue, as far as the world knows.
LEMMA AnsweringAttends ==
  ASSUME ListInv, Attends, NEW p \in Players, NEW m \in ForQueue, m.type \in Askings \ {"AddGroup"}, m.player = p,
         m_queuedPlayers' = m_queuedPlayers, UNCHANGED world,
         toWorld' = toWorld \/ (toWorld # <<>> /\ toWorld' = Tail(toWorld)),
         toQueue' = toQueue \o <<>> \/ (toQueue' = toQueue \o <<m>> /\ m_bgBattleGroundQueueID[p].in)
  PROVE  Attends'
<1>1. BgTypes
  BY DEF ListInv
<1>2. m_bgBattleGroundQueueID[p].in => ~Listens(p)'
  BY DEF Listens, world, player
<1>3. \A q \in Players : Asks(q)
  BY <1>1, <1>2, AnswerSent
<1>4. ASSUME NEW q \in Players PROVE Attending(q)'
  <2>1. Attending(q) /\ Seated(q)
    BY DEF Attends, Attending
  <2>2. Stays(q)
    BY <2>1, QueueStays
  <2>. QED
    BY <1>1, <1>3, <2>1, <2>2, WorldMoves
<1>. QED
  BY <1>4 DEF Attends

\* The two steps that do so.
LEMMA TimeoutAttends ==
  ASSUME ListInv, Attends, Timeout
  PROVE  Attends'
<1>1. BgTypes
  BY DEF ListInv
<1>2. /\ UNCHANGED world /\ m_queuedPlayers' = m_queuedPlayers /\ toWorld # <<>> /\ toWorld' = Tail(toWorld)
      /\ Sent.type = "Timeout"
  BY DEF Timeout, ToWorld, Sent, queue
<1>3. Sent \in ForWorld
  BY <1>1, <1>2, WorldPopped DEF Sent
<1>4. PICK p \in Players, i \in Nat, n \in Nat : p = Sent.player /\ i = Sent.instanceId /\ n = Sent.removeInviteTime
  BY <1>2, <1>3, WorldKinds
<1>5. PICK b \in BOOLEAN : b = (Exists(i) /\ Status(i) # "wait_leave")
  OBVIOUS
<1> DEFINE m == [type |-> "Expired", player |-> p, instanceId |-> i, removeInviteTime |-> n, running |-> b]
<1>6. m \in ForQueue /\ m.type \in Askings \ {"AddGroup"} /\ m.player = p
  BY QueueMembers DEF Askings
<1>7. toQueue' = toQueue \o <<>> \/ (toQueue' = toQueue \o <<m>> /\ m_bgBattleGroundQueueID[p].in)
  BY <1>4, <1>5 DEF Timeout, Send, IsQueued
<1> HIDE DEF m
<1>. QED
  BY <1>2, <1>6, <1>7, AnsweringAttends

LEMMA PortAttends ==
  ASSUME ListInv, Attends, NEW p \in Players, HandleBattlefieldPort(p)
  PROVE  Attends'
<1>1. PICK enter \in BOOLEAN : toQueue' = toQueue \o <<[type |-> "Port", player |-> p, enter |-> enter]>>
  BY DEF HandleBattlefieldPort, Send
<1> DEFINE m == [type |-> "Port", player |-> p, enter |-> enter]
<1>2. m \in ForQueue /\ m.type \in Askings \ {"AddGroup"} /\ m.player = p
  BY QueueMembers DEF Askings
<1>3. toQueue' = toQueue \o <<m>> /\ m_bgBattleGroundQueueID[p].in
  BY <1>1 DEF HandleBattlefieldPort
<1> HIDE DEF m
<1>4. UNCHANGED world /\ m_queuedPlayers' = m_queuedPlayers /\ toWorld' = toWorld
  BY DEF HandleBattlefieldPort, queue
<1>. QED
  BY <1>2, <1>3, <1>4, AnsweringAttends

\* A player asks to join: whatever he answered before is refused.
LEMMA AskingAttends ==
  ASSUME ListInv, Attends, NEW who \in Players, HandleBattlemasterJoin(who)
  PROVE  Attends'
<1>1. BgTypes /\ joins \in [Players -> Nat] /\ Created \subseteq Instances /\ i_MaxInstanceId \in Nat
  BY DEF ListInv, BgTypes, QueueTypes, WorldTypes, Instances
<1>2. toQueue \in Seq(ForQueue) /\ Len(toQueue) \in Nat
  BY <1>1 DEF BgTypes, MessageTypes
<1>3. /\ UNCHANGED <<online, away, bgInstanceID, m_bgBattleGroundQueueID, m_battleGrounds>>
      /\ m_queuedPlayers' = m_queuedPlayers /\ toWorld' = toWorld
      /\ InWorld(who) /\ bgInstanceID[who] = 0 /\ Listens(who)
  BY DEF HandleBattlemasterJoin, player, queue, InWorld, Listens
<1>4. PICK n \in Nat : toQueue' = toQueue \o <<[type |-> "AddGroup", player |-> who, number |-> n]>>
  <2>1. joins' = [joins EXCEPT ![who] = joins[who] + 1]
    BY DEF HandleBattlemasterJoin
  <2>2. joins'[who] \in Nat
    BY <1>1, <2>1
  <2>. QED
    BY <2>2 DEF HandleBattlemasterJoin, Send
<1> DEFINE m == [type |-> "AddGroup", player |-> who, number |-> n]
           ms == <<m>>
<1>5. m \in ForQueue /\ m.type = "AddGroup" /\ m.player = who
  BY QueueMembers
<1>6. toQueue' = toQueue \o ms
  BY <1>4
<1> HIDE DEF m
<1>7. ms \in Seq(ForQueue) /\ Len(ms) = 1 /\ ms[1] = m
  BY <1>5
<1> HIDE DEF ms
<1>8. \A k \in 1..Len(toQueue') : \/ k \in 1..Len(toQueue) /\ toQueue'[k] = toQueue[k]
                                  \/ k \notin 1..Len(toQueue) /\ toQueue'[k] = m
  <2>1. \A k \in 1..Len(toQueue') : \/ k \in 1..Len(toQueue) /\ toQueue'[k] = toQueue[k]
                                    \/ k - Len(toQueue) \in 1..Len(ms) /\ toQueue'[k] = ms[k - Len(toQueue)]
    <3>1. toQueue \in Seq(ForQueue) /\ ms \in Seq(ForQueue) /\ toQueue' = toQueue \o ms
      BY <1>2, <1>6, <1>7
    <3>. QED
      BY <3>1, Joined
  <2> SUFFICES ASSUME NEW k \in 1..Len(toQueue'), k - Len(toQueue) \in 1..Len(ms), toQueue'[k] = ms[k - Len(toQueue)]
               PROVE  k \notin 1..Len(toQueue) /\ toQueue'[k] = m
    BY <2>1
  <2>2. k - Len(toQueue) = 1
    BY <1>2, <1>7
  <2>. QED
    BY <1>2, <1>7, <2>2
<1>9. ASSUME NEW q \in Players, NEW k \in Nat, Answers(k, q)' PROVE Answers(k, q)
  <2>1. k \in 1..Len(toQueue') /\ toQueue'[k].type \in {"Port", "LoggedOut", "Expired"}
    BY <1>9 DEF Answers, Receives
  <2>2. k \in 1..Len(toQueue) /\ toQueue'[k] = toQueue[k]
    BY <1>5, <1>8, <2>1
  <2>. QED
    BY <1>9, <2>2 DEF Answers, Receives
<1>10. ASSUME NEW q \in Players, NEW k \in Nat, Joins(k, q)', k \in 1..Len(toQueue) \/ q # who PROVE Joins(k, q)
  <2>1. k \in 1..Len(toQueue') /\ toQueue'[k].player = q
    BY <1>10 DEF Joins, Receives
  <2>2. k \in 1..Len(toQueue) /\ toQueue'[k] = toQueue[k]
    BY <1>5, <1>8, <1>10, <2>1
  <2>. QED
    BY <1>10, <2>2 DEF Joins, Receives
<1>11. Created' = Created /\ \A j : Exists(j)' <=> Exists(j)
  BY <1>3 DEF Created, Exists, Status
<1>12. \A q \in Players : Listens(q)' <=> Listens(q)
  BY <1>3 DEF Listens
<1>13. ASSUME NEW q \in Players, q # who PROVE Attending(q)'
  <2>1. Attending(q) /\ Seated(q)
    BY DEF Attends, Attending
  <2>2. Stays(q)
    BY <1>3, <1>11, <1>12, <2>1, Unmoved
  <2>3. Asks(q)
    <3>1. \A k \in Nat : (Answers(k, q)' => Answers(k + 0, q)) /\ (Joins(k, q)' => Joins(k + 0, q))
      <4>1. \A k \in Nat : k + 0 = k
        OBVIOUS
      <4>. QED
        BY <1>9, <1>10, <1>13, <4>1
    <3>. QED
      BY <3>1 DEF Asks
  <2>. QED
    BY <1>1, <1>3, <2>1, <2>2, <2>3, WorldMoves
<1>14. Attending(who)'
  <2>1. Ordered(who) /\ Moving(who) /\ Seated(who)
    BY DEF Attends, Attending
  <2>2. \A k \in Nat : Answers(k, who)' => Refused(k, who)'
    <3> SUFFICES ASSUME NEW k \in Nat, Answers(k, who)' PROVE Refused(k, who)'
      OBVIOUS
    <3>1. Answers(k, who) /\ k \in 1..Len(toQueue)
      BY <1>9 DEF Answers, Receives
    <3>2. Refused(k, who)
      BY <1>3, <2>1, <3>1 DEF Ordered
    <3>3. ASSUME NEW j \in Nat, j < k, Joins(j, who)' PROVE FALSE
      <4>1. j \in 1..Len(toQueue)
        <5>1. j >= 1
          BY <3>3 DEF Joins, Receives
        <5>. QED
          BY <1>2, <3>1, <3>3, <5>1
      <4>. QED
        BY <1>10, <3>2, <3>3, <4>1 DEF Refused
    <3>. QED
      BY <1>3, <3>2, <3>3 DEF Refused
  <2>3. Ordered(who)'
    BY <2>2 DEF Ordered
  <2>4. \A k \in Nat : ~Moves(k, who)'
    <3>1. \A k \in Nat : Moves(k, who)' => Moves(k, who)
      BY <1>3 DEF Moves, Enters, Leaves, Tells
    <3>. QED
      BY <1>3, <2>1, <3>1 DEF Moving
  <2>5. Moving(who)'
    BY <2>4 DEF Moving
  <2>6. Seated(who)'
    BY <1>3, <1>11, <2>1 DEF Seated, InWorld
  <2>. QED
    BY <2>3, <2>5, <2>6 DEF Attending
<1>. QED
  BY <1>13, <1>14 DEF Attends

\* A timer fires with the map of the player.
LEMMA FireAttends ==
  ASSUME ListInv, Attends, NEW who \in Players, FireRemoveEvent(who)
  PROVE  Attends'
<1>1. BgTypes /\ m_events \in [Players -> SUBSET Timers]
  BY DEF ListInv, BgTypes, WorldTypes
<1>2. /\ UNCHANGED <<online, away, bgInstanceID, m_bgBattleGroundQueueID, m_battleGrounds>>
      /\ m_queuedPlayers' = m_queuedPlayers /\ toQueue' = toQueue
  BY DEF FireRemoveEvent, queue
<1>3. PICK event \in m_events[who] :
         toWorld' = Append(toWorld, [type |-> "Timeout", player |-> who, instanceId |-> event.instanceId,
                                     removeInviteTime |-> event.removeInviteTime])
  BY DEF FireRemoveEvent
<1> DEFINE m == [type |-> "Timeout", player |-> who, instanceId |-> event.instanceId,
                 removeInviteTime |-> event.removeInviteTime]
<1>4. m \in ForWorld /\ m.type \notin Movings
  <2>1. event.instanceId \in Nat /\ event.removeInviteTime \in Nat
    BY <1>1 DEF Timers
  <2>. QED
    BY <2>1, WorldMembers DEF Movings
<1>5. toWorld' = Append(toWorld, m)
  BY <1>3
<1> HIDE DEF m
<1>6. \A p \in Players : Goes(p)
  BY <1>1, <1>4, <1>5, OneSent
<1>7. Created' = Created /\ \A j : Exists(j)' <=> Exists(j)
  BY <1>2 DEF Created, Exists, Status
<1>8. ASSUME NEW p \in Players PROVE Attending(p)'
  <2>1. Attending(p) /\ Seated(p)
    BY DEF Attends, Attending
  <2>2. Listens(p)' <=> Listens(p)
    BY <1>2 DEF Listens
  <2>3. Stays(p)
    BY <1>2, <1>7, <2>1, <2>2, Unmoved
  <2>4. Asks(p)
    BY <1>1, <1>2, QueueShift, NoneAsks
  <2>. QED
    BY <1>6, <2>1, <2>3, <2>4, StaysPut
<1>. QED
  BY <1>8 DEF Attends

\* A player logs out, from the queue or from a battleground.
LEMMA LogoutAttends ==
  ASSUME ListInv, Attends, NEW who \in Players, LogoutPlayer(who)
  PROVE  Attends'
<1>1. /\ BgTypes /\ online \in [Players -> BOOLEAN]
      /\ m_bgBattleGroundQueueID \in [Players -> [in : BOOLEAN, invitedToInstance : Nat]]
  BY DEF ListInv, BgTypes, WorldTypes
<1>2. /\ UNCHANGED <<away, bgInstanceID>> /\ m_queuedPlayers' = m_queuedPlayers /\ toWorld' = toWorld
      /\ away[who] = None
  BY DEF LogoutPlayer, queue, InWorld
<1>3. ~Listens(who)' /\ \A q \in Players : q # who => (Listens(q)' <=> Listens(q))
  <2>1. /\ online' = [online EXCEPT ![who] = FALSE]
        /\ m_bgBattleGroundQueueID' = [m_bgBattleGroundQueueID EXCEPT ![who] = NotQueued]
    BY DEF LogoutPlayer
  <2>. QED
    BY <1>1, <2>1 DEF Listens
<1> DEFINE m == [type |-> "LoggedOut", player |-> who]
<1>4. m \in ForQueue /\ m.type \in Askings \ {"AddGroup"} /\ m.player = who
  BY QueueMembers DEF Askings
<1>5. toQueue' = toQueue \o <<>> \/ (toQueue' = toQueue \o <<m>> /\ ~Listens(who)')
  BY <1>3 DEF LogoutPlayer, Send
<1> HIDE DEF m
<1>6. \A q \in Players : Asks(q)
  BY <1>1, <1>4, <1>5, AnswerSent
<1>7. /\ Created' = Created
      /\ \A j \in Created : /\ m_battleGrounds'[j].status = m_battleGrounds[j].status
                            /\ \A q \in m_battleGrounds'[j].players :
                                  q \in m_battleGrounds[j].players \/ (q = who /\ j = bgInstanceID[who])
  <2>1. \/ m_battleGrounds' = m_battleGrounds
        \/ /\ Exists(bgInstanceID[who])
           /\ m_battleGrounds' = [m_battleGrounds EXCEPT
                 ![bgInstanceID[who]].players = m_battleGrounds[bgInstanceID[who]].players \union {who}]
    BY DEF LogoutPlayer
  <2>. QED
    BY <1>1, <2>1, PlayerIn
<1>8. \A j \in Created : Exists(j)' <=> Exists(j)
  BY <1>7 DEF Exists, Status
<1>9. ASSUME NEW q \in Players PROVE Attending(q)'
  <2>1. Attending(q) /\ Seated(q)
    BY DEF Attends, Attending
  <2>2. Stays(q)
    <3>1. CASE q # who
      BY <1>2, <1>3, <1>7, <1>8, <2>1, <3>1, Unmoved
    <3>2. CASE q = who
      BY <1>2, <1>3, <1>7, <1>8, <2>1, <3>2 DEF Stays, Seated
    <3>. QED
      BY <3>1, <3>2
  <2>. QED
    BY <1>1, <1>2, <1>6, <2>1, <2>2, WorldMoves
<1>. QED
  BY <1>9 DEF Attends

\* A player leaves a map for another, or arrives.
LEMMA TravelAttends ==
  ASSUME ListInv, Attends, NEW who \in Players, TeleportFar(who) \/ WorldportAck(who)
  PROVE  Attends'
<1>1. /\ BgTypes /\ Created \subseteq Instances /\ i_MaxInstanceId \in Nat /\ Created \subseteq Nat
      /\ away \in [Players -> {None} \union 0..i_MaxInstanceId] /\ bgInstanceID \in [Players -> 0..i_MaxInstanceId]
  BY DEF ListInv, BgTypes, QueueTypes, WorldTypes, Instances
<1>2. /\ UNCHANGED <<online, m_bgBattleGroundQueueID>> /\ m_queuedPlayers' = m_queuedPlayers
      /\ toWorld' = toWorld /\ toQueue' = toQueue
  BY DEF TeleportFar, WorldportAck, queue
<1>3. \A q \in Players : Listens(q)' <=> Listens(q)
  BY <1>2 DEF Listens
<1>4. \A q \in Players : q # who => away'[q] = away[q] /\ bgInstanceID'[q] = bgInstanceID[q]
  <2>1. away' = [away EXCEPT ![who] = 0] \/ away' = [away EXCEPT ![who] = None]
    BY DEF TeleportFar, WorldportAck
  <2>2. bgInstanceID' = bgInstanceID
        \/ bgInstanceID' = [bgInstanceID EXCEPT ![who] = IF away[who] = 0 THEN 0 ELSE bgInstanceID[who]]
    BY DEF TeleportFar, WorldportAck
  <2>. QED
    BY <1>1, <2>1, <2>2
<1>5. /\ Created' = Created
      /\ \A j \in Created : /\ m_battleGrounds'[j].status = m_battleGrounds[j].status
                            /\ \A q \in m_battleGrounds'[j].players :
                                  q \in m_battleGrounds[j].players \/ (q = who /\ j = away[who])
  <2>1. \/ m_battleGrounds' = m_battleGrounds
        \/ /\ Exists(away[who])
           /\ m_battleGrounds' = [m_battleGrounds EXCEPT
                 ![away[who]].players = m_battleGrounds[away[who]].players \union {who}]
    BY DEF TeleportFar, WorldportAck
  <2>. QED
    BY <1>1, <2>1, PlayerIn
<1>6. \A j \in Created : Exists(j)' <=> Exists(j)
  BY <1>5 DEF Exists, Status
<1>7. Seated(who)
  BY DEF Attends, Attending
<1>8. Stays(who)
  <2>1. CASE TeleportFar(who)
    <3>1. /\ away'[who] = 0 /\ bgInstanceID' = bgInstanceID /\ ~Exists(bgInstanceID[who])
          /\ m_battleGrounds' = m_battleGrounds
      BY <1>1, <2>1 DEF TeleportFar
    <3>. QED
      BY <1>2, <1>3, <1>5, <1>6, <1>7, <3>1 DEF Stays, Seated
  <2>2. CASE WorldportAck(who)
    <3>1. away[who] # None /\ \A j \in Created : ~(Exists(j) /\ who \in m_battleGrounds[j].players)
      BY <1>7, <2>2 DEF WorldportAck, Seated
    <3>2. CASE away[who] # 0 /\ ~Exists(away[who])
      <4>1. away'[who] = 0 /\ bgInstanceID' = bgInstanceID /\ m_battleGrounds' = m_battleGrounds
        BY <1>1, <2>2, <3>2 DEF WorldportAck
      <4>. QED
        BY <1>2, <1>3, <1>5, <1>6, <3>1, <4>1 DEF Stays
    <3>3. CASE ~(away[who] # 0 /\ ~Exists(away[who]))
      <4>1. /\ away' = [away EXCEPT ![who] = None]
            /\ bgInstanceID' = [bgInstanceID EXCEPT ![who] = IF away[who] = 0 THEN 0 ELSE bgInstanceID[who]]
        BY <2>2, <3>3 DEF WorldportAck
      <4>2. /\ away'[who] = None /\ bgInstanceID'[who] \in {bgInstanceID[who], 0}
            /\ away[who] # 0 => bgInstanceID'[who] = bgInstanceID[who] /\ bgInstanceID[who] = away[who]
        BY <1>1, <1>7, <3>1, <4>1 DEF Seated
      <4>3. 0 \notin Created
        BY <1>1 DEF Instances
      <4>4. \A j \in Created' : Exists(j)' /\ who \in m_battleGrounds'[j].players =>
               bgInstanceID'[who] = j /\ away'[who] = None
        BY <1>5, <1>6, <3>1, <4>2, <4>3
      <4>. QED
        BY <1>2, <1>3, <4>2, <4>4 DEF Stays
    <3>. QED
      BY <3>2, <3>3
  <2>. QED
    BY <2>1, <2>2
<1>9. ASSUME NEW q \in Players PROVE Attending(q)'
  <2>1. Attending(q) /\ Seated(q)
    BY DEF Attends, Attending
  <2>2. Stays(q)
    <3>1. CASE q # who
      BY <1>2, <1>3, <1>4, <1>5, <1>6, <2>1, <3>1, Unmoved
    <3>. QED
      BY <1>8, <3>1
  <2>3. Asks(q)
    BY <1>1, <1>2, QueueShift, NoneAsks
  <2>. QED
    BY <1>1, <1>2, <2>1, <2>2, <2>3, WorldMoves
<1>. QED
  BY <1>9 DEF Attends

\* A player leaves his battleground: he was in no queue.
LEMMA LeaveAttends ==
  ASSUME ListInv, Attends, NEW who \in Players, NEW i, Exists(i), RemovePlayerAtLeave(who, i),
         bgInstanceID[who] = i \/ who \in m_battleGrounds[i].players
  PROVE  Attends'
<1>1. /\ BgTypes /\ Created \subseteq Instances /\ i_MaxInstanceId \in Nat
      /\ away \in [Players -> {None} \union 0..i_MaxInstanceId] /\ bgInstanceID \in [Players -> 0..i_MaxInstanceId]
      /\ m_bgBattleGroundQueueID \in [Players -> [in : BOOLEAN, invitedToInstance : Nat]]
  BY DEF ListInv, BgTypes, QueueTypes, WorldTypes, Instances
<1>2. /\ online' = online /\ m_queuedPlayers' = m_queuedPlayers /\ toWorld' = toWorld
      /\ \/ UNCHANGED <<bgInstanceID, away>>
         \/ bgInstanceID' = [bgInstanceID EXCEPT ![who] = 0] /\ away' = [away EXCEPT ![who] = 0]
      /\ \/ m_bgBattleGroundQueueID' = m_bgBattleGroundQueueID
         \/ m_bgBattleGroundQueueID' = [m_bgBattleGroundQueueID EXCEPT ![who] = NotQueued]
  BY DEF RemovePlayerAtLeave, queue
<1>3. /\ i \in Created /\ Created' = Created
      /\ \A j \in Created : j # i => m_battleGrounds'[j] = m_battleGrounds[j]
      /\ m_battleGrounds'[i].status = m_battleGrounds[i].status
      /\ m_battleGrounds'[i].players = m_battleGrounds[i].players \ {who}
  BY <1>1, LeaveFact
<1>4. \A j \in Created : Exists(j)' <=> Exists(j)
  BY <1>3 DEF Exists, Status
<1>5. \A q \in Players : Asks(q)
  <2>1. PICK ms \in Seq(ForQueue) : toQueue' = toQueue \o ms /\ \A m \in 1..Len(ms) : Reports(ms[m], who, i)
    BY <1>1, LeaveFact
  <2>2. \A m \in 1..Len(ms) : ms[m].type \notin Askings
    BY <2>1 DEF Reports, Askings
  <2>. QED
    BY <1>1, <2>1, <2>2, OtherSent
<1>6. ASSUME NEW q \in Players PROVE Attending(q)'
  <2>1. Attending(q) /\ Seated(q) /\ Moving(q)
    BY DEF Attends, Attending
  <2>2. Stays(q)
    <3>1. CASE q # who
      <4>1. bgInstanceID'[q] = bgInstanceID[q] /\ away'[q] = away[q] /\ m_bgBattleGroundQueueID'[q] = m_bgBattleGroundQueueID[q]
        BY <1>1, <1>2, <3>1
      <4>2. Listens(q)' <=> Listens(q)
        BY <1>2, <4>1 DEF Listens
      <4>3. \A j \in Created' : Exists(j)' /\ q \in m_battleGrounds'[j].players =>
               j \in Created /\ Exists(j) /\ q \in m_battleGrounds[j].players
        BY <1>3, <1>4
      <4>. QED
        BY <1>2, <2>1, <4>1, <4>2, <4>3, Unmoved
    <3>2. CASE q = who
      <4>1. bgInstanceID[who] = i /\ i # 0
        BY <1>1, <1>3, <2>1, <3>2 DEF Seated, Instances
      <4>2. Out(who) /\ \A k \in Nat : ~Moves(k, who)
        BY <2>1, <3>2, <4>1 DEF Seated, Moving
      <4>3. \A k \in Nat : ~Moves(k, who)'
        <5>1. \A k \in Nat : Moves(k, who)' => Moves(k, who)
          BY <1>2 DEF Moves, Enters, Leaves, Tells
        <5>. QED
          BY <4>2, <5>1
      <4>4. \A j \in Created' : ~(Exists(j)' /\ who \in m_battleGrounds'[j].players)
        BY <1>3, <1>4, <2>1, <3>2, <4>1 DEF Seated
      <4>5. /\ bgInstanceID'[who] \in {bgInstanceID[who], 0}
            /\ away'[who] \notin {None, 0} => away'[who] = away[who] /\ bgInstanceID'[who] = bgInstanceID[who]
        BY <1>1, <1>2
      <4>. QED
        BY <1>2, <3>2, <4>2, <4>3, <4>4, <4>5 DEF Stays
    <3>. QED
      BY <3>1, <3>2
  <2>. QED
    BY <1>1, <1>2, <1>5, <2>1, <2>2, WorldMoves
<1>. QED
  BY <1>6 DEF Attends

\* A battle begins or ends, or its battleground is deleted.
LEMMA BattleAttends ==
  ASSUME ListInv, Attends, NEW i, StartBattle(i) \/ EndBattleGround(i) \/ RemoveBattleGround(i)
  PROVE  Attends'
<1>1. BgTypes
  BY DEF ListInv
<1>2. /\ UNCHANGED <<queue, player, joins, toWorld>> /\ i \in Created /\ Created' = Created
      /\ \A j \in Created : j # i => m_battleGrounds'[j] = m_battleGrounds[j]
      /\ Exists(i) /\ m_battleGrounds'[i].players \subseteq m_battleGrounds[i].players
      /\ \E ms \in Seq(ForQueue) : toQueue' = toQueue \o ms /\ \A k \in 1..Len(ms) : Closing(ms[k], k, i)
  BY <1>1, BattleFact
<1>3. /\ UNCHANGED <<online, away, bgInstanceID, m_bgBattleGroundQueueID>> /\ m_queuedPlayers' = m_queuedPlayers
      /\ toWorld' = toWorld
  BY <1>2 DEF player, queue
<1>4. \A j \in Created' : Exists(j)' => Exists(j)
  BY <1>2 DEF Exists, Status
<1>5. \A q \in Players : Asks(q)
  <2>1. PICK ms \in Seq(ForQueue) : toQueue' = toQueue \o ms /\ \A k \in 1..Len(ms) : Closing(ms[k], k, i)
    BY <1>2
  <2>2. \A m \in 1..Len(ms) : ms[m].type \notin Askings
    BY <2>1 DEF Closing, Askings
  <2>. QED
    BY <1>1, <2>1, <2>2, OtherSent
<1>6. ASSUME NEW q \in Players PROVE Attending(q)'
  <2>1. Attending(q) /\ Seated(q)
    BY DEF Attends, Attending
  <2>2. Listens(q)' <=> Listens(q)
    BY <1>3 DEF Listens
  <2>3. \A j \in Created' : Exists(j)' /\ q \in m_battleGrounds'[j].players =>
           j \in Created /\ Exists(j) /\ q \in m_battleGrounds[j].players
    BY <1>2, <1>4
  <2>4. Stays(q)
    BY <1>3, <2>1, <2>2, <2>3, Unmoved
  <2>. QED
    BY <1>1, <1>3, <1>5, <2>1, <2>4, WorldMoves
<1>. QED
  BY <1>6 DEF Attends

\* At first nobody has asked for anything.
LEMMA StartsAttended == Init => Attends
<1> SUFFICES ASSUME Init PROVE Attends
  OBVIOUS
<1>1. /\ toQueue = <<>> /\ toWorld = <<>> /\ m_battleGrounds = <<>>
      /\ away = [p \in Players |-> None] /\ bgInstanceID = [p \in Players |-> 0]
  BY DEF Init
<1>2. \A k \in Nat, p \in Players : ~Answers(k, p) /\ ~Joins(k, p) /\ ~Moves(k, p)
  BY <1>1 DEF Answers, Joins, Moves, Enters, Leaves, Receives, Tells
<1>3. Created = {}
  BY <1>1 DEF Created
<1>4. \A p \in Players : Ordered(p) /\ Moving(p) /\ Seated(p)
  BY <1>1, <1>2, <1>3 DEF Ordered, Moving, Seated
<1>. QED
  BY <1>4 DEF Attends, Attending

\* Every step keeps where the players are.
LEMMA KeepsAttended == ListInv /\ Attends /\ [Next]_vars => Attends'
<1> SUFFICES ASSUME ListInv, Attends, [Next]_vars PROVE Attends'
  OBVIOUS
<1>1. CASE QueueMessage
  BY <1>1, JoinAttends, QuietAttends, AnswerAttends DEF QueueMessage
<1>2. CASE QueueUpdate
  BY <1>2, UpdateAttends DEF QueueUpdate
<1>3. CASE WorldMessage
  BY <1>3, OthersAttend, LeftAttends, EnterAttends, TimeoutAttends DEF WorldMessage
<1>4. ASSUME NEW p \in Players, Player(p) PROVE Attends'
  <2>1. CASE HandleLeaveBattlefield(p)
    BY <2>1, LeaveAttends DEF HandleLeaveBattlefield
  <2>. QED
    BY <1>4, <2>1, AskingAttends, PortAttends, LogoutAttends, TravelAttends DEF Player
<1>5. ASSUME NEW p \in Players, FireRemoveEvent(p) \/ WorldportAck(p) PROVE Attends'
  BY <1>5, FireAttends, TravelAttends
<1>6. ASSUME NEW i \in Created, BattleGround(i) PROVE Attends'
  <2>1. ASSUME NEW p \in Players, RemoveParticipant(p, i) PROVE Attends'
    BY <2>1, LeaveAttends DEF RemoveParticipant
  <2>. QED
    BY <1>6, <2>1, BattleAttends DEF BattleGround
<1>7. CASE UNCHANGED vars
  <2>1. /\ BgTypes /\ UNCHANGED <<world, m_queuedPlayers>> /\ toWorld' = toWorld /\ toQueue' = toQueue
    BY <1>7 DEF ListInv, vars, queue
  <2>2. ASSUME NEW q \in Players PROVE Attending(q)'
    <3>1. Attending(q) /\ Seated(q)
      BY DEF Attends, Attending
    <3>2. Stays(q)
      BY <2>1, <3>1, QueueStays
    <3>3. Asks(q)
      BY <2>1, QueueShift, NoneAsks
    <3>. QED
      BY <2>1, <3>1, <3>2, <3>3, WorldMoves
  <2>. QED
    BY <2>2 DEF Attends
<1>. QED
  BY <1>1, <1>2, <1>3, <1>4, <1>5, <1>6, <1>7 DEF Next

-----------------------------------------------------------------------------
(* How many are expected.  A battleground that somebody has left, or that  *)
(* is over, is stale: the queue may count its places wrongly.  Of every    *)
(* other the queue has one entry, it invites no more than fit, and nobody  *)
(* has sent it anything about the battleground.  So what a battleground    *)
(* tells the queue when the first of its participants leaves is that it    *)
(* has a place.                                                            *)

Stale(i) == i \in Created /\ (\/ m_battleGrounds[i].status \in {"wait_leave", "deleted"}
                              \/ m_battleGrounds[i].m_hasBgFreeSlotQueue)
StaleOnes == {i \in Instances : Stale(i)}
FreshOnes == Instances \ StaleOnes

About(m, D) == /\ m.type = "AddBgToFreeSlots" =>
                     m.info.instanceId \in D /\ m.info.playersInside < 2 * MaxPlayersPerTeam
               /\ m.type \in {"RemoveBgFromFreeSlots", "DecreaseInvitedCount"} => m.instanceId \in D
AboutStale == \A k \in 1..Len(toQueue) : About(toQueue[k], StaleOnes)
Roomy(slots) == \A k \in 1..Len(slots) : slots[k].playersInside < 2 * MaxPlayersPerTeam

Expected == /\ Single(m_bgFreeSlotQueue, FreshOnes)
            /\ Bounded(m_bgFreeSlotQueue, m_queuedGroups, FreshOnes)
            /\ Roomy(m_bgFreeSlotQueue)
            /\ AboutStale

\* What is about fewer is about more.
LEMMA AboutMore ==
  ASSUME NEW D, NEW E, D \subseteq E
  PROVE  \A m : About(m, D) => About(m, E)
BY DEF About

\* Messages of the world about stale battlegrounds.
LEMMA AboutSent ==
  ASSUME BgTypes, AboutStale, StaleOnes \subseteq StaleOnes', NEW ms \in Seq(ForQueue), toQueue' = toQueue \o ms,
         \A m \in 1..Len(ms) : About(ms[m], StaleOnes')
  PROVE  AboutStale'
<1>1. toQueue \in Seq(ForQueue)
  BY DEF BgTypes, MessageTypes
<1>2. \A k \in 1..Len(toQueue') : \/ k \in 1..Len(toQueue) /\ toQueue'[k] = toQueue[k]
                                  \/ k - Len(toQueue) \in 1..Len(ms) /\ toQueue'[k] = ms[k - Len(toQueue)]
  BY <1>1, Joined
<1>3. \A k \in 1..Len(toQueue) : About(toQueue[k], StaleOnes')
  BY AboutMore DEF AboutStale
<1>4. \A k \in 1..Len(toQueue') : About(toQueue'[k], StaleOnes')
  BY <1>2, <1>3
<1>. QED
  BY <1>4 DEF AboutStale

\* A message is executed.
LEMMA AboutPopped ==
  ASSUME BgTypes, AboutStale, StaleOnes \subseteq StaleOnes', toQueue # <<>>, toQueue' = Tail(toQueue)
  PROVE  AboutStale'
<1>1. \A k \in 1..Len(toQueue') : toQueue'[k] = toQueue[k + 1] /\ k + 1 \in 1..Len(toQueue)
  BY QueuePopped
<1>2. \A k \in 1..Len(toQueue') : About(toQueue'[k], StaleOnes')
  BY <1>1, AboutMore DEF AboutStale
<1>. QED
  BY <1>2 DEF AboutStale

\* Nothing is sent, or something about no battleground.
LEMMA AboutNothing ==
  ASSUME BgTypes, AboutStale, StaleOnes \subseteq StaleOnes', NEW m \in ForQueue,
         m.type \notin {"AddBgToFreeSlots", "RemoveBgFromFreeSlots", "DecreaseInvitedCount"},
         toQueue' = toQueue \/ toQueue' = toQueue \o <<>> \/ toQueue' = toQueue \o <<m>>
  PROVE  AboutStale'
<1> DEFINE ms == <<m>>
<1>1. ms \in Seq(ForQueue) /\ \A k \in 1..Len(ms) : ms[k] = m
  OBVIOUS
<1>2. toQueue' = toQueue \/ toQueue' = toQueue \o ms
  BY NothingSent DEF BgTypes, MessageTypes
<1> HIDE DEF ms
<1>3. CASE toQueue' = toQueue
  <2>1. \A k \in 1..Len(toQueue) : About(toQueue[k], StaleOnes')
    BY AboutMore DEF AboutStale
  <2>. QED
    BY <1>3, <2>1 DEF AboutStale
<1>4. CASE toQueue' = toQueue \o ms
  <2>1. \A k \in 1..Len(ms) : About(ms[k], StaleOnes')
    BY <1>1 DEF About
  <2>. QED
    BY <1>1, <1>4, <2>1, AboutSent
<1>. QED
  BY <1>2, <1>3, <1>4

\* The battlegrounds that are stale stay so.
LEMMA StaleStays ==
  ASSUME i_MaxInstanceId' = i_MaxInstanceId, Created \subseteq Created',
         \A j \in Created : /\ \/ m_battleGrounds[j].status \notin {"wait_leave", "deleted"}
                               \/ m_battleGrounds'[j].status \in {"wait_leave", "deleted"}
                            /\ \/ ~m_battleGrounds[j].m_hasBgFreeSlotQueue
                               \/ m_battleGrounds'[j].m_hasBgFreeSlotQueue
                               \/ m_battleGrounds'[j].status \in {"wait_leave", "deleted"}
  PROVE  StaleOnes \subseteq StaleOnes'
<1>1. Instances' = Instances
  BY DEF Instances
<1>2. \A j : Stale(j) => Stale(j)'
  BY DEF Stale
<1>. QED
  BY <1>1, <1>2 DEF StaleOnes

\* Fewer are expected by fewer battlegrounds.
LEMMA BoundedLess ==
  ASSUME NEW slots \in Seq(Infos), NEW groups \in Seq(Groups), NEW D, NEW E, E \subseteq D,
         Bounded(slots, groups, D), \A i, t : IsFiniteSet(Coming(i, t)),
         \A i \in E, t \in Teams : Coming(i, t)' \subseteq Coming(i, t)
  PROVE  \A k \in 1..Len(slots), t \in Teams : slots[k].instanceId \in E =>
            /\ Cardinality(Guests(groups, slots[k].instanceId, t)) + Cardinality(Coming(slots[k].instanceId, t)')
                  <= slots[k].invited[t]
            /\ slots[k].invited[t] <= MaxPlayersPerTeam
<1> SUFFICES ASSUME NEW k \in 1..Len(slots), NEW t \in Teams, slots[k].instanceId \in E
             PROVE  /\ Cardinality(Guests(groups, slots[k].instanceId, t))
                          + Cardinality(Coming(slots[k].instanceId, t)') <= slots[k].invited[t]
                    /\ slots[k].invited[t] <= MaxPlayersPerTeam
  OBVIOUS
<1>1. slots[k] \in Infos
  OBVIOUS
<1>2. slots[k].invited[t] \in Nat
  BY <1>1 DEF Infos, Counts
<1> DEFINE i == slots[k].instanceId
           g == Cardinality(Guests(groups, i, t))
           c == Cardinality(Coming(i, t))
           d == Cardinality(Coming(i, t)')
<1>3. g + c <= slots[k].invited[t] /\ slots[k].invited[t] <= MaxPlayersPerTeam
  BY DEF Bounded
<1>4. g \in Nat
  BY GuestsFinite, FS_CardinalityType
<1>5. Coming(i, t)' \subseteq Coming(i, t) /\ IsFiniteSet(Coming(i, t))
  OBVIOUS
<1>6. c \in Nat /\ d \in Nat /\ d <= c
  BY <1>5, FS_CardinalityType, FS_Subset
<1> HIDE DEF i, g, c, d
<1>7. g + d <= slots[k].invited[t]
  BY <1>2, <1>3, <1>4, <1>6
<1>. QED
  BY <1>3, <1>7 DEF i, g, d

\* A step of the world after which no more are expected.
LEMMA ExpectWorld ==
  ASSUME ListInv, Expected, UNCHANGED queue, StaleOnes \subseteq StaleOnes', AboutStale',
         \A i \in FreshOnes', t \in Teams : Coming(i, t)' \subseteq Coming(i, t)
  PROVE  Expected'
<1>1. /\ m_bgFreeSlotQueue' = m_bgFreeSlotQueue /\ m_queuedGroups' = m_queuedGroups
      /\ i_MaxInstanceId' = i_MaxInstanceId
  BY DEF queue
<1>2. FreshOnes' \subseteq FreshOnes
  BY <1>1 DEF FreshOnes, Instances
<1> PICK E : E = FreshOnes'
  OBVIOUS
<1> PICK slots : slots = m_bgFreeSlotQueue
  OBVIOUS
<1>3. BgTypes /\ Listed /\ slots \in Seq(Infos) /\ m_queuedGroups \in Seq(Groups)
  BY DEF ListInv, BgTypes, QueueTypes
<1>4. E \subseteq FreshOnes /\ Single(slots, E)
  BY <1>2 DEF Expected, Single
<1>5. \A i, t : IsFiniteSet(Coming(i, t))
  BY <1>3, BeforeUpdate
<1>6. Bounded(slots, m_queuedGroups, FreshOnes)
  BY DEF Expected
<1>7. \A k \in 1..Len(slots), t \in Teams : slots[k].instanceId \in E =>
         /\ Cardinality(Guests(m_queuedGroups, slots[k].instanceId, t)) + Cardinality(Coming(slots[k].instanceId, t)')
               <= slots[k].invited[t]
         /\ slots[k].invited[t] <= MaxPlayersPerTeam
  BY <1>3, <1>4, <1>5, <1>6, BoundedLess
<1>8. Single(m_bgFreeSlotQueue, FreshOnes)'
  BY <1>1, <1>4 DEF Single
<1>9. Bounded(m_bgFreeSlotQueue, m_queuedGroups, FreshOnes)'
  BY <1>1, <1>7 DEF Bounded, Guests
<1>10. Roomy(m_bgFreeSlotQueue)'
  BY <1>1 DEF Expected, Roomy
<1>. QED
  BY <1>8, <1>9, <1>10 DEF Expected

\* Nobody is expected who was not.
LEMMA ComingLess ==
  ASSUME \A p \in Players : bgInstanceID'[p] \in {bgInstanceID[p], 0},
         NEW w \in {0, 1}, WorldShifted({"Enter"}, w), NEW i \in Nat, i # 0, NEW t
  PROVE  Coming(i, t)' \subseteq Coming(i, t)
<1>1. \A p \in Players, k \in Nat : (Enters(k, p) /\ toWorld[k].instanceId = i)' =>
         Enters(k + w, p) /\ toWorld[k + w].instanceId = i /\ k + w \in Nat
  BY DEF Enters, Tells, WorldShifted
<1>2. ASSUME NEW p \in Coming(i, t)' PROVE p \in Coming(i, t)
  <2>1. p \in Players /\ Team(p) = t
    BY DEF Coming
  <2>2. CASE bgInstanceID'[p] = i
    BY <2>1, <2>2 DEF Coming
  <2>3. CASE \E k \in Nat : (Enters(k, p) /\ toWorld[k].instanceId = i)'
    <3>1. PICK k \in Nat : (Enters(k, p) /\ toWorld[k].instanceId = i)'
      BY <2>3
    <3>2. Enters(k + w, p) /\ toWorld[k + w].instanceId = i /\ k + w \in Nat
      BY <1>1, <2>1, <3>1
    <3>. QED
      BY <2>1, <3>2 DEF Coming
  <2>. QED
    BY <2>2, <2>3 DEF Coming
<1>. QED
  BY <1>2

\* One message is sent to the world.
LEMMA OneTold ==
  ASSUME BgTypes, NEW T, NEW m \in ForWorld, m.type \notin T, toWorld' = Append(toWorld, m)
  PROVE  WorldShifted(T, 0)
<1> DEFINE ms == <<m>>
<1>1. ms \in Seq(ForWorld) /\ (\A k \in 1..Len(ms) : ms[k] = m) /\ toWorld' = toWorld \o ms
  BY DEF BgTypes, MessageTypes
<1>2. \A k \in 1..Len(ms) : ms[k].type \notin T
  BY <1>1
<1> HIDE DEF ms
<1>. QED
  BY <1>1, <1>2, WorldSent

\* The queue's messages to the world that move nobody, and what players do.
LEMMA WorldExpects ==
  ASSUME ListInv, Expected, UNCHANGED queue, StaleOnes \subseteq StaleOnes', AboutStale',
         toWorld' = toWorld \/ (toWorld # <<>> /\ toWorld' = Tail(toWorld))
         \/ \E m \in ForWorld : m.type = "Timeout" /\ toWorld' = Append(toWorld, m),
         \A p \in Players : bgInstanceID'[p] \in {bgInstanceID[p], 0}
  PROVE  Expected'
<1>1. BgTypes /\ toWorld \in Seq(ForWorld)
  BY DEF ListInv, BgTypes, MessageTypes
<1>2. WorldShifted({"Enter"}, 0) \/ WorldShifted({"Enter"}, 1)
  <2>1. CASE toWorld' = toWorld \/ (toWorld # <<>> /\ toWorld' = Tail(toWorld))
    BY <1>1, <2>1, WorldShift
  <2>2. ASSUME NEW m \in ForWorld, m.type = "Timeout", toWorld' = Append(toWorld, m)
        PROVE  WorldShifted({"Enter"}, 0)
    BY <1>1, <2>2, OneTold
  <2>. QED
    BY <2>1, <2>2
<1>3. \A i \in FreshOnes' : i \in Nat /\ i # 0
  BY <1>1 DEF FreshOnes, Instances, queue, BgTypes, QueueTypes
<1>4. \A i \in FreshOnes', t \in Teams : Coming(i, t)' \subseteq Coming(i, t)
  BY <1>2, <1>3, ComingLess
<1>. QED
  BY <1>4, ExpectWorld

\* The messages that move nobody.
LEMMA OthersExpected ==
  ASSUME ListInv, Expected, Queued \/ Invite \/ Left \/ Timeout \/ SetInvitedCount \/ Create
  PROVE  Expected'
<1>1. BgTypes /\ OnItsWay /\ bgInstanceID' = bgInstanceID /\ AboutStale
      /\ UNCHANGED queue /\ toWorld # <<>> /\ toWorld' = Tail(toWorld)
  BY DEF ListInv, Listed, Expected, Queued, Invite, Left, Timeout, SetInvitedCount, Create, ToWorld, world, player
<1>2. i_MaxInstanceId' = i_MaxInstanceId
  BY <1>1 DEF queue
<1>3. StaleOnes \subseteq StaleOnes'
  <2>1. CASE Create
    BY <1>1, <1>2, <2>1, CreateFact, StaleStays
  <2>2. CASE SetInvitedCount
    BY <1>1, <1>2, <2>2, CountFact, StaleStays DEF SameBattle
  <2>3. CASE ~Create /\ ~SetInvitedCount
    <3>1. m_battleGrounds' = m_battleGrounds
      BY <2>3 DEF Queued, Invite, Left, Timeout, world
    <3>2. Created' = Created
      BY <3>1 DEF Created
    <3>. QED
      BY <1>2, <3>1, <3>2, StaleStays
  <2>. QED
    BY <2>1, <2>2, <2>3
<1>4. AboutStale'
  <2>1. [type |-> "ScheduleQueueUpdate"] \in ForQueue
    BY QueueMembers
  <2>2. CASE Queued \/ Invite \/ Left \/ SetInvitedCount
    <3>1. toQueue' = toQueue
      BY <2>2 DEF Queued, Invite, Left, SetInvitedCount
    <3>. QED
      BY <1>1, <1>3, <2>1, <3>1, AboutNothing
  <2>3. CASE Create
    <3>1. Sent.instanceId \in Nat
      BY <1>1, <2>3, CreateFact DEF BgTypes, QueueTypes, Instances
    <3>2. PICK m \in ForQueue : m = StatusMessage(Sent.instanceId, "wait_join")
      BY <3>1, QueueMembers DEF Statuses
    <3>3. m.type = "SetStatus" /\ toQueue' = toQueue \o <<m>>
      BY <2>3, <3>2 DEF Create, Send, StatusMessage
    <3>. QED
      BY <1>1, <1>3, <3>3, AboutNothing
  <2>4. CASE Timeout
    <3>1. Sent \in ForWorld /\ Sent.type = "Timeout"
      BY <1>1, <2>4, WorldPopped DEF Timeout, ToWorld, Sent
    <3>2. Sent.player \in Players /\ Sent.instanceId \in Nat /\ Sent.removeInviteTime \in Nat
      BY <3>1, WorldKinds
    <3> DEFINE run == Exists(Sent.instanceId) /\ Status(Sent.instanceId) # "wait_leave"
    <3>3. run \in BOOLEAN
      BY Zenon
    <3>4. PICK m \in ForQueue : m = [type |-> "Expired", player |-> Sent.player, instanceId |-> Sent.instanceId,
                                     removeInviteTime |-> Sent.removeInviteTime, running |-> run]
      <4> HIDE DEF run
      <4>. QED
        BY <3>2, <3>3, QueueMembers
    <3>5. toQueue' = toQueue \o <<>> \/ toQueue' = toQueue \o <<m>>
      BY <2>4, <3>4 DEF Timeout, Send
    <3>6. m.type = "Expired"
      BY <3>4
    <3>. QED
      BY <1>1, <1>3, <3>5, <3>6, AboutNothing
  <2>. QED
    BY <2>2, <2>3, <2>4
<1>. QED
  BY <1>1, <1>3, <1>4, WorldExpects

\* A player is sent to his battleground, where he was expected.
LEMMA EnterExpected ==
  ASSUME ListInv, Expected, Enter
  PROVE  Expected'
<1>1. /\ BgTypes /\ AboutStale /\ UNCHANGED <<queue, toQueue>> /\ m_battleGrounds' = m_battleGrounds
      /\ toWorld # <<>> /\ toWorld' = Tail(toWorld) /\ Sent.type = "Enter"
  BY DEF ListInv, Expected, Enter, ToWorld, Sent
<1>2. i_MaxInstanceId' = i_MaxInstanceId /\ Created' = Created /\ i_MaxInstanceId \in Nat
  BY <1>1 DEF queue, Created, BgTypes, QueueTypes
<1>3. StaleOnes \subseteq StaleOnes'
  BY <1>1, <1>2, StaleStays
<1>4. AboutStale'
  <2>1. [type |-> "ScheduleQueueUpdate"] \in ForQueue
    BY QueueMembers
  <2>. QED
    BY <1>1, <1>3, <2>1, AboutNothing
<1>5. Sent \in ForWorld /\ Sent = toWorld[1] /\ 1 \in 1..Len(toWorld)
  BY <1>1, WorldPopped DEF Sent
<1>6. PICK who \in Players, at \in Nat : who = Sent.player /\ at = Sent.instanceId
  BY <1>1, <1>5, WorldKinds
<1>7. Enters(1, who) /\ toWorld[1].instanceId = at
  BY <1>1, <1>5, <1>6 DEF Enters, Tells
<1>8. \A q \in Players : bgInstanceID'[q] = bgInstanceID[q] \/ (q = who /\ bgInstanceID'[q] = at)
  BY <1>1, <1>6 DEF Enter, BgTypes, WorldTypes
<1>9. WorldShifted({"Enter"}, 1)
  BY <1>1, WorldShift
<1>10. ASSUME NEW i \in FreshOnes', NEW t \in Teams PROVE Coming(i, t)' \subseteq Coming(i, t)
  <2>1. \A q \in Players, k \in Nat : (Enters(k, q) /\ toWorld[k].instanceId = i)' =>
           Enters(k + 1, q) /\ toWorld[k + 1].instanceId = i /\ k + 1 \in Nat
    BY <1>9 DEF Enters, Tells, WorldShifted
  <2>2. ASSUME NEW q \in Coming(i, t)' PROVE q \in Coming(i, t)
    <3>1. q \in Players /\ Team(q) = t
      BY DEF Coming
    <3>2. CASE bgInstanceID'[q] = i
      BY <1>7, <1>8, <3>1, <3>2 DEF Coming
    <3>3. CASE \E k \in Nat : (Enters(k, q) /\ toWorld[k].instanceId = i)'
      <4>1. PICK k \in Nat : (Enters(k, q) /\ toWorld[k].instanceId = i)'
        BY <3>3
      <4>2. Enters(k + 1, q) /\ toWorld[k + 1].instanceId = i /\ k + 1 \in Nat
        BY <2>1, <3>1, <4>1
      <4>. QED
        BY <3>1, <4>2 DEF Coming
    <3>. QED
      BY <3>2, <3>3 DEF Coming
  <2>. QED
    BY <2>2
<1>. QED
  BY <1>1, <1>3, <1>4, <1>10, ExpectWorld

\* What players do, but for leaving a battleground.
LEMMA PlayersExpected ==
  ASSUME ListInv, Expected, NEW who \in Players,
         \/ HandleBattlemasterJoin(who) \/ HandleBattlefieldPort(who) \/ FireRemoveEvent(who)
         \/ TeleportFar(who) \/ WorldportAck(who) \/ LogoutPlayer(who)
  PROVE  Expected'
<1>1. BgTypes /\ AboutStale /\ UNCHANGED queue
  BY DEF ListInv, Expected, HandleBattlemasterJoin, HandleBattlefieldPort, FireRemoveEvent, TeleportFar, WorldportAck,
         LogoutPlayer
<1>2. i_MaxInstanceId' = i_MaxInstanceId
  BY <1>1 DEF queue
<1>3. \A q \in Players : bgInstanceID'[q] \in {bgInstanceID[q], 0}
  <2>1. \/ bgInstanceID' = bgInstanceID
        \/ bgInstanceID' = [bgInstanceID EXCEPT ![who] = IF away[who] = 0 THEN 0 ELSE bgInstanceID[who]]
    BY DEF HandleBattlemasterJoin, HandleBattlefieldPort, FireRemoveEvent, TeleportFar, WorldportAck,
           LogoutPlayer, world, player
  <2>2. bgInstanceID \in [Players -> 0..i_MaxInstanceId]
    BY <1>1 DEF BgTypes, WorldTypes
  <2>. QED
    BY <2>1, <2>2
<1>4. StaleOnes \subseteq StaleOnes'
  <2>1. \E i : \/ m_battleGrounds' = m_battleGrounds
               \/ /\ Exists(i)
                  /\ m_battleGrounds' = [m_battleGrounds EXCEPT ![i].players = m_battleGrounds[i].players \union {who}]
    BY DEF HandleBattlemasterJoin, HandleBattlefieldPort, FireRemoveEvent, TeleportFar, WorldportAck,
           LogoutPlayer, world
  <2>2. PICK i : \/ m_battleGrounds' = m_battleGrounds
                 \/ /\ Exists(i)
                    /\ m_battleGrounds' = [m_battleGrounds EXCEPT ![i].players = m_battleGrounds[i].players \union {who}]
    BY <2>1
  <2>3. /\ Created' = Created
        /\ \A j \in Created : /\ m_battleGrounds'[j].status = m_battleGrounds[j].status
                              /\ m_battleGrounds'[j].m_hasBgFreeSlotQueue = m_battleGrounds[j].m_hasBgFreeSlotQueue
    BY <1>1, <2>2, PlayerIn
  <2>. QED
    BY <1>2, <2>3, StaleStays
<1>5. AboutStale'
  <2>1. CASE FireRemoveEvent(who) \/ TeleportFar(who) \/ WorldportAck(who)
    <3>1. toQueue' = toQueue /\ [type |-> "ScheduleQueueUpdate"] \in ForQueue
      BY <2>1, QueueMembers DEF FireRemoveEvent, TeleportFar, WorldportAck
    <3>. QED
      BY <1>1, <1>4, <3>1, AboutNothing
  <2>2. CASE HandleBattlemasterJoin(who)
    <3>1. joins'[who] \in Nat
      BY <1>1, <2>2 DEF HandleBattlemasterJoin, BgTypes, WorldTypes
    <3>2. PICK m \in ForQueue : m = [type |-> "AddGroup", player |-> who, number |-> joins'[who]]
      BY <3>1, QueueMembers
    <3>3. m.type = "AddGroup" /\ toQueue' = toQueue \o <<m>>
      BY <2>2, <3>2 DEF HandleBattlemasterJoin, Send
    <3>. QED
      BY <1>1, <1>4, <3>3, AboutNothing
  <2>3. CASE HandleBattlefieldPort(who)
    <3>1. PICK enter \in BOOLEAN : toQueue' = toQueue \o <<[type |-> "Port", player |-> who, enter |-> enter]>>
      BY <2>3 DEF HandleBattlefieldPort, Send
    <3>2. PICK m \in ForQueue : m = [type |-> "Port", player |-> who, enter |-> enter]
      BY QueueMembers
    <3>3. m.type = "Port" /\ toQueue' = toQueue \o <<m>>
      BY <3>1, <3>2
    <3>. QED
      BY <1>1, <1>4, <3>3, AboutNothing
  <2>4. CASE LogoutPlayer(who)
    <3>1. PICK m \in ForQueue : m = [type |-> "LoggedOut", player |-> who]
      BY QueueMembers
    <3>2. m.type = "LoggedOut" /\ (toQueue' = toQueue \o <<>> \/ toQueue' = toQueue \o <<m>>)
      BY <2>4, <3>1 DEF LogoutPlayer, Send
    <3>. QED
      BY <1>1, <1>4, <3>2, AboutNothing
  <2>. QED
    BY <2>1, <2>2, <2>3, <2>4
<1>6. toWorld' = toWorld \/ \E m \in ForWorld : m.type = "Timeout" /\ toWorld' = Append(toWorld, m)
  <2>1. CASE FireRemoveEvent(who)
    <3>1. PICK event \in m_events[who] :
             toWorld' = Append(toWorld, [type |-> "Timeout", player |-> who, instanceId |-> event.instanceId,
                                         removeInviteTime |-> event.removeInviteTime])
      BY <2>1 DEF FireRemoveEvent
    <3>2. event.instanceId \in Nat /\ event.removeInviteTime \in Nat
      BY <1>1, <3>1 DEF BgTypes, WorldTypes, Timers
    <3>3. PICK m \in ForWorld : m = [type |-> "Timeout", player |-> who, instanceId |-> event.instanceId,
                                     removeInviteTime |-> event.removeInviteTime]
      BY <3>2, WorldMembers
    <3>. QED
      BY <3>1, <3>3
  <2>2. CASE ~FireRemoveEvent(who)
    BY <2>2 DEF HandleBattlemasterJoin, HandleBattlefieldPort, TeleportFar, WorldportAck, LogoutPlayer
  <2>. QED
    BY <2>1, <2>2
<1>. QED
  BY <1>1, <1>3, <1>4, <1>5, <1>6, WorldExpects

\* A participant of a battleground nobody has left: when he leaves there is a place.
LEMMA InsideFact ==
  ASSUME ListInv, Attends, Expected, NEW i \in FreshOnes, i \in Created, Exists(i),
         NEW p \in m_battleGrounds[i].players
  PROVE  /\ IsFiniteSet(m_battleGrounds[i].players \ {p})
         /\ Cardinality(m_battleGrounds[i].players \ {p}) < 2 * MaxPlayersPerTeam
<1>1. /\ BgTypes /\ Listed /\ m_bgFreeSlotQueue \in Seq(Infos) /\ m_queuedGroups \in Seq(Groups)
      /\ i \in Instances /\ i \in Nat /\ MaxPlayersPerTeam \in Nat
  BY BgBoundsAssumption DEF ListInv, BgTypes, QueueTypes, FreshOnes, Instances
<1>2. \A q \in m_battleGrounds[i].players : q \in Players /\ bgInstanceID[q] = i
  BY <1>1 DEF BgTypes, WorldTypes, Battles, Attends, Attending, Seated
<1>3. m_battleGrounds[i].players \subseteq Coming(i, "ALLIANCE") \union Coming(i, "HORDE")
  BY <1>2, TeamFact DEF Coming, Teams
<1>4. PICK k \in 1..Len(m_bgFreeSlotQueue) : m_bgFreeSlotQueue[k].instanceId = i
  <2>1. Entries(m_bgFreeSlotQueue, i) # {}
    BY <1>1 DEF Listed, InQueue
  <2>. QED
    BY <1>1, <2>1, FirstEntry
<1>5. ASSUME NEW t \in Teams
      PROVE  IsFiniteSet(Coming(i, t)) /\ Cardinality(Coming(i, t)) \in Nat /\ Cardinality(Coming(i, t)) <= MaxPlayersPerTeam
  <2>1. IsFiniteSet(Coming(i, t)) /\ IsFiniteSet(Guests(m_queuedGroups, i, t))
    BY <1>1, BeforeUpdate, GuestsFinite
  <2> DEFINE c == Cardinality(Coming(i, t))
             g == Cardinality(Guests(m_queuedGroups, i, t))
             n == m_bgFreeSlotQueue[k].invited[t]
  <2>2. c \in Nat /\ g \in Nat
    BY <2>1, FS_CardinalityType
  <2>3. m_bgFreeSlotQueue[k] \in Infos
    BY <1>1
  <2>4. n \in Nat
    BY <2>3 DEF Infos, Counts
  <2>5. Bounded(m_bgFreeSlotQueue, m_queuedGroups, FreshOnes)
    BY DEF Expected
  <2>6. g + c <= n /\ n <= MaxPlayersPerTeam
    BY <1>4, <2>5 DEF Bounded
  <2> HIDE DEF c, g, n
  <2>7. c <= MaxPlayersPerTeam
    BY <1>1, <2>2, <2>4, <2>6
  <2>. QED
    BY <2>1, <2>2, <2>7 DEF c
<1> DEFINE A == Coming(i, "ALLIANCE")
           B == Coming(i, "HORDE")
           P == m_battleGrounds[i].players
<1>6. /\ IsFiniteSet(A) /\ Cardinality(A) \in Nat /\ Cardinality(A) <= MaxPlayersPerTeam
      /\ IsFiniteSet(B) /\ Cardinality(B) \in Nat /\ Cardinality(B) <= MaxPlayersPerTeam
      /\ P \subseteq A \union B /\ p \in P
  BY <1>3, <1>5 DEF Teams
<1> HIDE DEF A, B, P
<1>7. /\ IsFiniteSet(A \union B) /\ Cardinality(A \union B) \in Nat
      /\ Cardinality(A \union B) <= Cardinality(A) + Cardinality(B)
  <2>1. /\ IsFiniteSet(A \union B) /\ IsFiniteSet(A \intersect B)
        /\ Cardinality(A \union B) = Cardinality(A) + Cardinality(B) - Cardinality(A \intersect B)
    BY <1>6, FS_Union, FS_Intersection
  <2>2. Cardinality(A \intersect B) \in Nat /\ Cardinality(A \union B) \in Nat
    BY <2>1, FS_CardinalityType
  <2>. QED
    BY <1>6, <2>1, <2>2
<1>8. IsFiniteSet(P) /\ Cardinality(P) \in Nat /\ Cardinality(P) <= Cardinality(A \union B)
  BY <1>6, <1>7, FS_Subset, FS_CardinalityType
<1>9. IsFiniteSet(P \ {p}) /\ Cardinality(P \ {p}) = Cardinality(P) - 1
  BY <1>6, <1>8, FS_RemoveElement
<1>10. Cardinality(P \ {p}) < 2 * MaxPlayersPerTeam
  BY <1>1, <1>6, <1>7, <1>8, <1>9
<1>. QED
  BY <1>9, <1>10 DEF P

\* A player leaves his battleground.
LEMMA LeaveExpected ==
  ASSUME ListInv, Attends, Expected, NEW who \in Players, NEW i, Exists(i), RemovePlayerAtLeave(who, i)
  PROVE  Expected'
<1>1. /\ BgTypes /\ AboutStale /\ UNCHANGED queue /\ toWorld' = toWorld
      /\ Created \subseteq Instances /\ bgInstanceID \in [Players -> 0..i_MaxInstanceId]
  BY DEF ListInv, Expected, RemovePlayerAtLeave, BgTypes, WorldTypes, Instances
<1>2. /\ i \in Created /\ Created' = Created
      /\ \A j \in Created : j # i => m_battleGrounds'[j] = m_battleGrounds[j]
      /\ m_battleGrounds'[i].status = m_battleGrounds[i].status
      /\ m_battleGrounds'[i].m_hasBgFreeSlotQueue = (m_battleGrounds[i].m_hasBgFreeSlotQueue \/ IsOpen(who, i))
  BY <1>1, LeaveFact
<1>3. i_MaxInstanceId' = i_MaxInstanceId
  BY <1>1 DEF queue
<1>4. StaleOnes \subseteq StaleOnes'
  BY <1>2, <1>3, StaleStays
<1>5. i \in Instances /\ (IsOpen(who, i) => i \in StaleOnes')
  BY <1>1, <1>2, <1>3 DEF StaleOnes, Stale, Instances
<1>6. /\ IsOpen(who, i) /\ ~m_battleGrounds[i].m_hasBgFreeSlotQueue =>
            Cardinality(m_battleGrounds[i].players \ {who}) < 2 * MaxPlayersPerTeam
  <2> SUFFICES ASSUME IsOpen(who, i), ~m_battleGrounds[i].m_hasBgFreeSlotQueue
               PROVE  Cardinality(m_battleGrounds[i].players \ {who}) < 2 * MaxPlayersPerTeam
    OBVIOUS
  <2>1. i \in FreshOnes
    BY <1>2, <1>5 DEF FreshOnes, StaleOnes, Stale, Exists, Status, IsOpen
  <2>. QED
    BY <1>2, <2>1, InsideFact DEF IsOpen
<1>7. AboutStale'
  <2>1. PICK ms \in Seq(ForQueue) : toQueue' = toQueue \o ms /\ \A m \in 1..Len(ms) : Reports(ms[m], who, i)
    BY <1>1, LeaveFact
  <2>2. ASSUME NEW m \in 1..Len(ms) PROVE About(ms[m], StaleOnes')
    <3>1. Reports(ms[m], who, i)
      BY <2>1
    <3>. QED
      BY <1>5, <1>6, <3>1 DEF Reports, About
  <2>. QED
    BY <1>1, <1>4, <2>1, <2>2, AboutSent
<1>8. \A q \in Players : bgInstanceID'[q] \in {bgInstanceID[q], 0}
  BY <1>1 DEF RemovePlayerAtLeave
<1>. QED
  BY <1>1, <1>4, <1>7, <1>8, WorldExpects

\* A battle begins or ends, or its battleground is deleted.
LEMMA BattleExpected ==
  ASSUME ListInv, Expected, NEW i, StartBattle(i) \/ EndBattleGround(i) \/ RemoveBattleGround(i)
  PROVE  Expected'
<1>1. BgTypes /\ AboutStale /\ Created \subseteq Instances
  BY DEF ListInv, Expected, BgTypes, WorldTypes, Instances
<1>2. /\ UNCHANGED <<queue, player, joins, toWorld>> /\ i \in Created /\ Created' = Created
      /\ \A j \in Created : j # i => m_battleGrounds'[j] = m_battleGrounds[j]
      /\ \/ m_battleGrounds'[i].status \in {"wait_leave", "deleted"}
         \/ /\ m_battleGrounds[i].status = "wait_join"
            /\ m_battleGrounds'[i].m_hasBgFreeSlotQueue = m_battleGrounds[i].m_hasBgFreeSlotQueue
      /\ \E ms \in Seq(ForQueue) : toQueue' = toQueue \o ms /\ \A k \in 1..Len(ms) : Closing(ms[k], k, i)
  BY <1>1, BattleFact
<1>3. i_MaxInstanceId' = i_MaxInstanceId /\ bgInstanceID' = bgInstanceID
  BY <1>2 DEF queue, player
<1>4. StaleOnes \subseteq StaleOnes'
  BY <1>2, <1>3, StaleStays
<1>5. m_battleGrounds[i].m_hasBgFreeSlotQueue => i \in StaleOnes'
  BY <1>1, <1>2, <1>4 DEF StaleOnes, Stale
<1>6. AboutStale'
  <2>1. PICK ms \in Seq(ForQueue) : toQueue' = toQueue \o ms /\ \A k \in 1..Len(ms) : Closing(ms[k], k, i)
    BY <1>2
  <2>2. \A k \in 1..Len(ms) : About(ms[k], StaleOnes')
    BY <1>5, <2>1 DEF Closing, About
  <2>. QED
    BY <1>1, <1>4, <2>1, <2>2, AboutSent
<1>. QED
  BY <1>1, <1>2, <1>3, <1>4, <1>6, WorldExpects

\* Two sets that shrink still fit.
LEMMA FewerFact ==
  ASSUME NEW A, NEW B, IsFiniteSet(B), A \subseteq B, NEW C, NEW D, IsFiniteSet(D), C \subseteq D,
         NEW n \in Nat, Cardinality(B) + Cardinality(D) <= n
  PROVE  Cardinality(A) + Cardinality(C) <= n
<1>1. /\ IsFiniteSet(A) /\ Cardinality(A) <= Cardinality(B)
      /\ IsFiniteSet(C) /\ Cardinality(C) <= Cardinality(D)
  BY FS_Subset
<1>2. Cardinality(A) \in Nat /\ Cardinality(B) \in Nat /\ Cardinality(C) \in Nat /\ Cardinality(D) \in Nat
  BY <1>1, FS_CardinalityType
<1>. QED
  BY <1>1, <1>2

\* The queue's thread makes no battleground stale.
LEMMA QueueFresh ==
  ASSUME ListInv, Expected, UNCHANGED world, toQueue # <<>>, toQueue' = Tail(toQueue), i_MaxInstanceId' = i_MaxInstanceId
  PROVE  StaleOnes' = StaleOnes /\ FreshOnes' = FreshOnes /\ AboutStale'
<1>1. m_battleGrounds' = m_battleGrounds /\ Instances' = Instances /\ Created' = Created
  BY DEF world, Instances, Created
<1>2. StaleOnes' = StaleOnes
  BY <1>1 DEF StaleOnes, Stale
<1>3. AboutStale'
  BY <1>2, AboutPopped DEF ListInv, Expected
<1>. QED
  BY <1>1, <1>2, <1>3 DEF FreshOnes

\* An entry as it was, or of a stale battleground.
Entered(e, slots) ==
    \/ e.instanceId \in StaleOnes /\ e.playersInside < 2 * MaxPlayersPerTeam
    \/ \E l \in 1..Len(slots) : /\ e.instanceId = slots[l].instanceId /\ e.playersInside = slots[l].playersInside
                                /\ e.instanceId \in FreshOnes => e.invited = slots[l].invited

\* A message after which the queue expects no more, and counts those who leave to the stale ones only.
LEMMA SlotsExpected ==
  ASSUME ListInv, Expected, UNCHANGED <<world, i_MaxInstanceId>>, toQueue # <<>>, toQueue' = Tail(toQueue),
         WorldShifted({"Enter"}, 0),
         \A i \in FreshOnes, t \in Teams : Guests(m_queuedGroups', i, t) \subseteq Guests(m_queuedGroups, i, t),
         Single(m_bgFreeSlotQueue', FreshOnes),
         \A k \in 1..Len(m_bgFreeSlotQueue') : Entered(m_bgFreeSlotQueue'[k], m_bgFreeSlotQueue)
  PROVE  Expected'
<1> PICK slots, groups, D : slots = m_bgFreeSlotQueue' /\ groups = m_queuedGroups' /\ D = FreshOnes
  OBVIOUS
<1>1. /\ BgTypes /\ Listed /\ m_bgFreeSlotQueue \in Seq(Infos) /\ m_queuedGroups \in Seq(Groups)
      /\ \A p \in Players : bgInstanceID'[p] \in {bgInstanceID[p], 0}
      /\ \A i \in D : i \in Nat /\ i # 0
  BY DEF ListInv, BgTypes, QueueTypes, world, player, FreshOnes, Instances
<1>2. FreshOnes' = D /\ AboutStale'
  BY QueueFresh
<1>3. /\ \A i, t : IsFiniteSet(Coming(i, t)) /\ IsFiniteSet(Guests(m_queuedGroups, i, t))
      /\ \A i \in D, t \in Teams : Coming(i, t)' \subseteq Coming(i, t)
  BY <1>1, BeforeUpdate, GuestsFinite, ComingLess
<1>4. Bounded(m_bgFreeSlotQueue, m_queuedGroups, D) /\ Roomy(m_bgFreeSlotQueue)
  BY DEF Expected
<1>5. ASSUME NEW k \in 1..Len(slots), NEW t \in Teams, slots[k].instanceId \in D
      PROVE  /\ Cardinality(Guests(groups, slots[k].instanceId, t)) + Cardinality(Coming(slots[k].instanceId, t)')
                   <= slots[k].invited[t]
             /\ slots[k].invited[t] <= MaxPlayersPerTeam
  <2>1. Entered(slots[k], m_bgFreeSlotQueue) /\ slots[k].instanceId \notin StaleOnes
    BY <1>5 DEF FreshOnes
  <2>2. PICK l \in 1..Len(m_bgFreeSlotQueue) : /\ slots[k].instanceId = m_bgFreeSlotQueue[l].instanceId
                                               /\ slots[k].invited = m_bgFreeSlotQueue[l].invited
    BY <1>5, <2>1 DEF Entered
  <2> PICK i : i = slots[k].instanceId
    OBVIOUS
  <2>3. /\ Cardinality(Guests(m_queuedGroups, i, t)) + Cardinality(Coming(i, t)) <= slots[k].invited[t]
        /\ slots[k].invited[t] <= MaxPlayersPerTeam
    BY <1>4, <1>5, <2>2 DEF Bounded
  <2>4. m_bgFreeSlotQueue[l] \in Infos
    BY <1>1
  <2>5. slots[k].invited[t] \in Nat
    BY <2>2, <2>4 DEF Infos, Counts
  <2>6. Guests(groups, i, t) \subseteq Guests(m_queuedGroups, i, t) /\ Coming(i, t)' \subseteq Coming(i, t)
    BY <1>3, <1>5
  <2>7. Cardinality(Guests(groups, i, t)) + Cardinality(Coming(i, t)') <= slots[k].invited[t]
    BY <1>3, <2>3, <2>5, <2>6, FewerFact
  <2>. QED
    BY <2>3, <2>7
<1>6. ASSUME NEW k \in 1..Len(slots) PROVE slots[k].playersInside < 2 * MaxPlayersPerTeam
  <2>1. Entered(slots[k], m_bgFreeSlotQueue)
    OBVIOUS
  <2>. QED
    BY <1>4, <2>1 DEF Entered, Roomy
<1>7. Single(m_bgFreeSlotQueue, FreshOnes)'
  BY <1>2 DEF Single
<1>8. Bounded(m_bgFreeSlotQueue, m_queuedGroups, FreshOnes)'
  BY <1>2, <1>5 DEF Bounded, Guests
<1>9. Roomy(m_bgFreeSlotQueue)'
  BY <1>6 DEF Roomy
<1>. QED
  BY <1>2, <1>7, <1>8, <1>9 DEF Expected

\* A group joins the queue: it has no invitation.
LEMMA JoinExpected ==
  ASSUME ListInv, Expected, AddGroup, UNCHANGED i_MaxInstanceId
  PROVE  Expected'
<1>1. /\ BgTypes /\ UNCHANGED <<world, i_MaxInstanceId>> /\ toQueue # <<>> /\ toQueue' = Tail(toQueue)
      /\ m_bgFreeSlotQueue' = m_bgFreeSlotQueue /\ m_queuedGroups \in Seq(Groups) /\ m_bgFreeSlotQueue \in Seq(Infos)
  BY DEF ListInv, AddGroup, ToQueue, BgTypes, QueueTypes
<1>2. Received \in ForQueue /\ Received.type = "AddGroup"
  BY <1>1, QueuePopped DEF AddGroup, ToQueue, Received
<1>3. PICK p \in Players, n \in Nat : p = Received.player /\ n = Received.number
  BY <1>2, QueueKinds
<1>4. WorldShifted({"Enter"}, 0)
  <2>1. PICK m \in ForWorld : m = [type |-> "Queued", player |-> p]
    BY WorldMembers
  <2>2. m.type = "Queued" /\ toWorld' = Append(toWorld, m)
    BY <1>3, <2>1 DEF AddGroup
  <2>. QED
    BY <1>1, <2>2, OneTold
<1>5. \A i \in FreshOnes, t \in Teams : Guests(m_queuedGroups', i, t) \subseteq Guests(m_queuedGroups, i, t)
  <2>1. PICK new : new = [number |-> n, player |-> p, invitedTo |-> 0]
    OBVIOUS
  <2>2. new.invitedTo = 0 /\ m_queuedGroups' = Append(m_queuedGroups, new)
    BY <1>3, <2>1 DEF AddGroup
  <2>3. \A g \in ToSet(m_queuedGroups') : g = new \/ g \in ToSet(m_queuedGroups)
    BY <1>1, <2>2 DEF ToSet
  <2>4. 0 \notin FreshOnes
    BY <1>1 DEF FreshOnes, Instances
  <2>. QED
    BY <2>2, <2>3, <2>4 DEF Guests
<1>6. Single(m_bgFreeSlotQueue', FreshOnes)
  BY <1>1 DEF Expected
<1>7. \A k \in 1..Len(m_bgFreeSlotQueue') : Entered(m_bgFreeSlotQueue'[k], m_bgFreeSlotQueue)
  BY <1>1 DEF Entered
<1>. QED
  BY <1>1, <1>4, <1>5, <1>6, <1>7, SlotsExpected

\* The first entry of a battleground is told of a status, or that somebody has left a stale one.
LEMMA TellsEntry ==
  ASSUME BgTypes, AboutStale, SetStatusInQueue \/ DecreaseInvitedCount
  PROVE  /\ m_bgFreeSlotQueue' \in Seq(Infos) /\ SameSlots(m_bgFreeSlotQueue', m_bgFreeSlotQueue)
         /\ \A k \in 1..Len(m_bgFreeSlotQueue) : m_bgFreeSlotQueue[k].instanceId \in FreshOnes =>
               m_bgFreeSlotQueue'[k].invited = m_bgFreeSlotQueue[k].invited
<1> DEFINE slots == m_bgFreeSlotQueue
<1>1. /\ toQueue # <<>> /\ toQueue' = Tail(toQueue) /\ slots \in Seq(Infos)
  BY DEF BgTypes, QueueTypes, SetStatusInQueue, DecreaseInvitedCount, ToQueue
<1>2. Received \in ForQueue /\ Received = toQueue[1] /\ 1 \in 1..Len(toQueue)
  BY <1>1, QueuePopped DEF Received
<1>3. CASE SetStatusInQueue
  <2>1. Received.status \in Statuses
    BY <1>2, <1>3, QueueKinds DEF SetStatusInQueue, ToQueue, Received
  <2> DEFINE c(k) == Entries(slots, Received.instanceId) # {} /\ k = GetFreeSlotInstance(slots, Received.instanceId)
             new(k) == IF c(k) THEN [slots[k] EXCEPT !.status = Received.status] ELSE slots[k]
  <2>2. slots' = [k \in 1..Len(slots) |-> new(k)]
    BY <1>1, <1>3 DEF SetStatusInQueue
  <2> HIDE DEF c
  <2>3. \A k \in 1..Len(slots) : /\ new(k) \in Infos /\ new(k).instanceId = slots[k].instanceId
                                 /\ new(k).playersInside = slots[k].playersInside /\ new(k).invited = slots[k].invited
    <3> TAKE k \in 1..Len(slots)
    <3>1. slots[k] \in Infos
      BY <1>1
    <3>. QED
      BY <2>1, <3>1 DEF Infos
  <2> HIDE DEF new
  <2>4. slots' \in Seq(Infos) /\ Len(slots') = Len(slots) /\ \A k \in 1..Len(slots) : slots'[k] = new(k)
    BY <1>1, <2>2, <2>3
  <2>. QED
    BY <2>3, <2>4 DEF SameSlots
<1>4. CASE DecreaseInvitedCount
  <2> DEFINE i == Received.instanceId
             k == GetFreeSlotInstance(slots, i)
             t == Received.team
             count == Minus(slots[k].invited[t])
  <2>1. CASE Entries(slots, i) = {}
    BY <1>1, <1>4, <2>1 DEF DecreaseInvitedCount, SameSlots
  <2>2. CASE Entries(slots, i) # {}
    <3>1. Received.type = "DecreaseInvitedCount"
      BY <1>4 DEF DecreaseInvitedCount, ToQueue, Received
    <3>2. t \in Teams /\ i \in StaleOnes
      BY <1>2, <3>1, QueueKinds DEF AboutStale, About
    <3>3. slots' = [slots EXCEPT ![k].invited[t] = count]
      BY <1>4, <2>2 DEF DecreaseInvitedCount
    <3>4. k \in 1..Len(slots) /\ slots[k].instanceId = i
      BY <1>1, <2>2, FirstEntry
    <3> HIDE DEF k, i, t
    <3>5. slots[k] \in Infos
      BY <1>1, <3>4
    <3>6. count \in 0..MaxCount
      BY <3>2, <3>5, MinusFact DEF Infos, Counts
    <3> HIDE DEF count
    <3>7. /\ slots' \in Seq(Infos) /\ SameSlots(slots', slots)
      BY <1>1, <3>2, <3>3, <3>4, <3>6, CountChanged
    <3>8. ASSUME NEW l \in 1..Len(slots), slots[l].instanceId \in FreshOnes
          PROVE  slots'[l].invited = slots[l].invited
      <4>1. l # k
        BY <3>2, <3>4, <3>8 DEF FreshOnes
      <4>2. slots'[l] = slots[l]
        BY <1>1, <3>3, <3>4, <4>1
      <4>. QED
        BY <4>2
    <3>. QED
      BY <3>7, <3>8
  <2>. QED
    BY <2>1, <2>2
<1>. QED
  BY <1>3, <1>4

\* The queue executes a message that changes no entry of a battleground nobody has left.
LEMMA QuietExpected ==
  ASSUME ListInv, Expected, PortRefused \/ SetStatusInQueue \/ DecreaseInvitedCount \/ ScheduleQueueUpdate,
         UNCHANGED i_MaxInstanceId
  PROVE  Expected'
<1>1. /\ BgTypes /\ AboutStale /\ m_bgFreeSlotQueue \in Seq(Infos) /\ Single(m_bgFreeSlotQueue, FreshOnes)
  BY DEF ListInv, Expected, BgTypes, QueueTypes
<1>2. /\ UNCHANGED <<world, i_MaxInstanceId>> /\ m_queuedGroups' = m_queuedGroups
      /\ toQueue # <<>> /\ toQueue' = Tail(toQueue)
      /\ toWorld' = toWorld \/ \E m \in ForWorld : m.type = "SetInvitedCount" /\ toWorld' = Append(toWorld, m)
  BY <1>1, CountSent
<1>3. WorldShifted({"Enter"}, 0)
  <2>1. ASSUME NEW m \in ForWorld, m.type = "SetInvitedCount", toWorld' = Append(toWorld, m)
        PROVE  WorldShifted({"Enter"}, 0)
    BY <1>1, <2>1, OneTold
  <2>. QED
    BY <1>1, <1>2, <2>1, WorldShift
<1>4. /\ m_bgFreeSlotQueue' \in Seq(Infos) /\ SameSlots(m_bgFreeSlotQueue', m_bgFreeSlotQueue)
      /\ \A k \in 1..Len(m_bgFreeSlotQueue) : m_bgFreeSlotQueue[k].instanceId \in FreshOnes =>
            m_bgFreeSlotQueue'[k].invited = m_bgFreeSlotQueue[k].invited
  <2>1. CASE PortRefused \/ ScheduleQueueUpdate
    <3>1. m_bgFreeSlotQueue' = m_bgFreeSlotQueue
      BY <2>1 DEF PortRefused, ScheduleQueueUpdate, queue
    <3>. QED
      BY <1>1, <3>1 DEF SameSlots
  <2>. QED
    BY <1>1, <2>1, TellsEntry
<1>5. Single(m_bgFreeSlotQueue', FreshOnes)
  BY <1>1, <1>4 DEF Single, SameSlots
<1>6. \A k \in 1..Len(m_bgFreeSlotQueue') : Entered(m_bgFreeSlotQueue'[k], m_bgFreeSlotQueue)
  BY <1>4 DEF Entered, SameSlots
<1>7. \A i \in FreshOnes, t \in Teams : Guests(m_queuedGroups', i, t) \subseteq Guests(m_queuedGroups, i, t)
  BY <1>2
<1>. QED
  BY <1>2, <1>3, <1>5, <1>6, <1>7, SlotsExpected

\* The queue makes an entry of a stale battleground, or takes it off.
LEMMA ListExpected ==
  ASSUME ListInv, Expected, AddBgToFreeSlots \/ RemoveBgFromFreeSlots, UNCHANGED i_MaxInstanceId
  PROVE  Expected'
<1> PICK slots, D : slots = m_bgFreeSlotQueue /\ D = FreshOnes
  OBVIOUS
<1>1. BgTypes /\ AboutStale /\ slots \in Seq(Infos) /\ Single(slots, D)
  BY DEF ListInv, Expected, BgTypes, QueueTypes
<1>2. /\ UNCHANGED <<world, i_MaxInstanceId>> /\ m_queuedGroups' = m_queuedGroups /\ toWorld' = toWorld
      /\ toQueue # <<>> /\ toQueue' = Tail(toQueue)
  BY DEF AddBgToFreeSlots, RemoveBgFromFreeSlots, ToQueue
<1>3. WorldShifted({"Enter"}, 0)
  BY <1>1, <1>2, WorldShift
<1>4. Received \in ForQueue /\ Received = toQueue[1] /\ 1 \in 1..Len(toQueue)
  BY <1>1, <1>2, QueuePopped DEF Received
<1>5. About(Received, StaleOnes)
  BY <1>1, <1>4 DEF AboutStale
<1>6. Single(m_bgFreeSlotQueue', D) /\ \A k \in 1..Len(m_bgFreeSlotQueue') : Entered(m_bgFreeSlotQueue'[k], slots)
  <2>1. CASE AddBgToFreeSlots
    <3>1. Received.type = "AddBgToFreeSlots"
      BY <2>1 DEF AddBgToFreeSlots, ToQueue, Received
    <3>2. PICK info \in Infos : info = Received.info
      BY <1>4, <3>1, QueueKinds
    <3>3. info.instanceId \in StaleOnes /\ info.playersInside < 2 * MaxPlayersPerTeam
      BY <1>5, <3>1, <3>2 DEF About
    <3>4. m_bgFreeSlotQueue' = <<info>> \o slots
      BY <2>1, <3>2 DEF AddBgToFreeSlots
    <3> PICK S : S = <<info>> \o slots
      OBVIOUS
    <3>5. /\ Len(S) = Len(slots) + 1 /\ S[1] = info
          /\ \A k \in 2..(Len(slots) + 1) : S[k] = slots[k - 1]
      BY <1>1, EntryAdded
    <3>6. \A k \in 1..Len(S) : S[k] = info \/ (k - 1 \in 1..Len(slots) /\ S[k] = slots[k - 1])
      BY <1>1, <3>5
    <3>7. info.instanceId \notin D
      BY <3>3 DEF FreshOnes
    <3>8. Single(S, D)
      <4> SUFFICES ASSUME NEW k \in 1..Len(S), NEW l \in 1..Len(S),
                          S[k].instanceId = S[l].instanceId, S[k].instanceId \in D
                   PROVE  k = l
        BY DEF Single
      <4>1. /\ k - 1 \in 1..Len(slots) /\ S[k] = slots[k - 1]
            /\ l - 1 \in 1..Len(slots) /\ S[l] = slots[l - 1]
        BY <3>6, <3>7
      <4>2. k - 1 = l - 1
        BY <1>1, <4>1 DEF Single
      <4>. QED
        BY <4>2
    <3>9. \A k \in 1..Len(S) : Entered(S[k], slots)
      BY <3>3, <3>6 DEF Entered
    <3>. QED
      BY <3>4, <3>8, <3>9
  <2>2. CASE RemoveBgFromFreeSlots
    <3> PICK i : i = Received.instanceId
      OBVIOUS
    <3>1. CASE Entries(slots, i) = {}
      <4>1. m_bgFreeSlotQueue' = slots
        BY <2>2, <3>1 DEF RemoveBgFromFreeSlots
      <4>. QED
        BY <1>1, <4>1 DEF Entered
    <3>2. CASE Entries(slots, i) # {}
      <4> PICK at, S : at = GetFreeSlotInstance(slots, i) /\ S = RemoveAt(slots, at)
        OBVIOUS
      <4>1. m_bgFreeSlotQueue' = S
        BY <2>2, <3>2 DEF RemoveBgFromFreeSlots
      <4>2. at \in 1..Len(slots)
        BY <1>1, <3>2, FirstEntry
      <4>3. Len(S) = Len(slots) - 1 /\ \A k \in 1..(Len(slots) - 1) : S[k] = IF k < at THEN slots[k] ELSE slots[k + 1]
        <5>1. /\ Len(RemoveAt(slots, at)) = Len(slots) - 1
              /\ \A k \in 1..(Len(slots) - 1) : RemoveAt(slots, at)[k] = IF k < at THEN slots[k] ELSE slots[k + 1]
          BY <1>1, <4>2, RemoveAtFact
        <5>. QED
          BY <5>1
      <4>4. \A k \in 1..Len(S) : Skip(at, k) \in 1..Len(slots) /\ S[k] = slots[Skip(at, k)]
        BY <1>1, <4>2, <4>3 DEF Skip
      <4>5. \A k, l \in 1..Len(S) : Skip(at, k) = Skip(at, l) => k = l
        BY <1>1, <4>2, <4>3 DEF Skip
      <4>6. Single(S, D)
        BY <1>1, <4>4, <4>5 DEF Single
      <4>7. \A k \in 1..Len(S) : Entered(S[k], slots)
        BY <4>4 DEF Entered
      <4>. QED
        BY <4>1, <4>6, <4>7
    <3>. QED
      BY <3>1, <3>2
  <2>. QED
    BY <2>1, <2>2
<1>7. \A i \in FreshOnes, t \in Teams : Guests(m_queuedGroups', i, t) \subseteq Guests(m_queuedGroups, i, t)
  BY <1>2
<1>8. Single(m_bgFreeSlotQueue', FreshOnes)
  BY <1>6
<1>9. \A k \in 1..Len(m_bgFreeSlotQueue') : Entered(m_bgFreeSlotQueue'[k], m_bgFreeSlotQueue)
  BY <1>6
<1>. QED
  BY <1>2, <1>3, <1>7, <1>8, <1>9, SlotsExpected

\* The group of a player taken out of the queue is no guest any more: it was the only one of its number.
LEMMA GuestLeaves ==
  ASSUME BgTypes, Grouped, TimerInv, NEW p \in Players, m_queuedPlayers[p] # None,
         m_queuedGroups' = RemoveAt(m_queuedGroups, Place(p))
  PROVE  /\ \A i, t : Guests(m_queuedGroups', i, t) \subseteq Guests(m_queuedGroups, i, t)
         /\ Group(p) \in Guests(m_queuedGroups, Group(p).invitedTo, Team(p))
         /\ Group(p) \notin ToSet(m_queuedGroups')
<1> PICK at, S : at = Place(p) /\ S = m_queuedGroups'
  OBVIOUS
<1>1. /\ m_queuedGroups \in Seq(Groups) /\ at \in 1..Len(m_queuedGroups) /\ Group(p) = m_queuedGroups[at]
      /\ Group(p).player = p /\ Group(p).number = m_queuedPlayers[p] /\ m_queuedPlayers[p] \in Nat
  BY PlaceFact DEF BgTypes, QueueTypes, Group
<1>2. /\ Len(S) = Len(m_queuedGroups) - 1 /\ S \in Seq(Groups)
      /\ \A j \in 1..(Len(m_queuedGroups) - 1) : S[j] = IF j < at THEN m_queuedGroups[j] ELSE m_queuedGroups[j + 1]
  <2>1. /\ Len(RemoveAt(m_queuedGroups, at)) = Len(m_queuedGroups) - 1 /\ RemoveAt(m_queuedGroups, at) \in Seq(Groups)
        /\ \A j \in 1..(Len(m_queuedGroups) - 1) :
              RemoveAt(m_queuedGroups, at)[j] = IF j < at THEN m_queuedGroups[j] ELSE m_queuedGroups[j + 1]
    BY <1>1, RemoveAtFact
  <2>. QED
    BY <2>1
<1>3. \A j \in 1..Len(S) : /\ Skip(at, j) \in 1..Len(m_queuedGroups) /\ S[j] = m_queuedGroups[Skip(at, j)]
                           /\ Skip(at, j) # at
  BY <1>1, <1>2 DEF Skip
<1>4. ToSet(S) \subseteq ToSet(m_queuedGroups)
  BY <1>1, <1>2, <1>3 DEF ToSet
<1>5. Group(p) \notin ToSet(S)
  <2> SUFFICES ASSUME NEW j \in 1..Len(S), S[j] = Group(p) PROVE FALSE
    BY <1>2 DEF ToSet
  <2>1. /\ HasGroup(Skip(at, j), p, m_queuedPlayers[p]) /\ Skip(at, j) \in Nat
        /\ HasGroup(at, p, m_queuedPlayers[p]) /\ at \in Nat
    BY <1>1, <1>3 DEF HasGroup
  <2>2. OneGroup(p, m_queuedPlayers[p])
    BY <1>1 DEF TimerInv, Timing
  <2>. QED
    BY <1>3, <2>1, <2>2 DEF OneGroup
<1>6. Group(p) \in Guests(m_queuedGroups, Group(p).invitedTo, Team(p))
  BY <1>1 DEF Guests, ToSet
<1>7. \A i, t : Guests(S, i, t) \subseteq Guests(m_queuedGroups, i, t)
  BY <1>4 DEF Guests
<1>. QED
  BY <1>5, <1>6, <1>7

\* The count of the entry of his battleground is lowered, or none is.
LEMMA CountLowered ==
  ASSUME BgTypes, Grouped, NEW p \in Players, m_queuedPlayers[p] # None,
         NEW decrease \in BOOLEAN, NEW messages \in Seq(ForWorld), RemovePlayer(p, decrease, messages),
         NEW l \in 1..Len(m_bgFreeSlotQueue), NEW t \in Teams
  PROVE  \/ m_bgFreeSlotQueue'[l].invited[t] = m_bgFreeSlotQueue[l].invited[t]
         \/ /\ decrease /\ m_bgFreeSlotQueue[l].instanceId = Group(p).invitedTo /\ t = Team(p)
            /\ m_bgFreeSlotQueue'[l].invited[t] = Minus(m_bgFreeSlotQueue[l].invited[t])
<1> DEFINE i == Group(p).invitedTo
           slots == m_bgFreeSlotQueue
           k == GetFreeSlotInstance(slots, i)
           count == Minus(slots[k].invited[Team(p)])
           dec == decrease /\ i # 0 /\ Entries(slots, i) # {}
<1>1. slots \in Seq(Infos) /\ Team(p) \in Teams
  BY TeamFact DEF BgTypes, QueueTypes
<1>2. slots' = IF dec THEN [slots EXCEPT ![k].invited[Team(p)] = count] ELSE slots
  BY DEF RemovePlayer
<1>3. CASE ~dec
  BY <1>2, <1>3
<1>4. CASE dec
  <2>1. k \in 1..Len(slots) /\ slots[k].instanceId = i
    BY <1>1, <1>4, FirstEntry
  <2>2. slots[k] \in Infos
    BY <1>1, <2>1
  <2>3. count \in 0..MaxCount
    <3> HIDE DEF k
    <3>. QED
      BY <1>1, <2>2, MinusFact DEF Infos, Counts
  <2>4. slots' = [slots EXCEPT ![k].invited[Team(p)] = count]
    BY <1>2, <1>4
  <2>5. slots'[l].invited[t] = IF l = k /\ t = Team(p) THEN count ELSE slots[l].invited[t]
    <3> DEFINE u == Team(p)
    <3>1. u \in Teams /\ k \in 1..Len(slots) /\ slots' = [slots EXCEPT ![k].invited[u] = count]
      BY <1>1, <2>1, <2>4
    <3> HIDE DEF k, count, u
    <3>2. Counted(slots, k, u, count, slots')
      BY <1>1, <2>3, <3>1, CountChanged
    <3>. QED
      BY <3>2 DEF Counted, u
  <2>. QED
    BY <1>4, <2>1, <2>5
<1>. QED
  BY <1>3, <1>4

\* Leaving the queue for a battleground makes a guest one who comes: the message that says so.
EnterOf(m) == m.type = "Enter"
ComesToo(p, at, messages) ==
    \A i, t : \A q \in Coming(i, t)' :
       \/ q \in Coming(i, t)
       \/ q = p /\ i = at /\ t = Team(p) /\ \E m \in 1..Len(messages) : EnterOf(messages[m])

\* A player who is told to enter is expected where he was invited.
LEMMA ComingAfter ==
  ASSUME BgTypes, UNCHANGED world, NEW messages \in Seq(ForWorld), Sends(messages), NEW p, NEW at,
         \A m \in 1..Len(messages) : EnterOf(messages[m]) => messages[m].player = p /\ messages[m].instanceId = at
  PROVE  ComesToo(p, at, messages)
<1> SUFFICES ASSUME NEW i, NEW t, NEW q \in Coming(i, t)'
             PROVE  \/ q \in Coming(i, t)
                    \/ q = p /\ i = at /\ t = Team(p) /\ \E m \in 1..Len(messages) : EnterOf(messages[m])
  BY DEF ComesToo
<1>1. toWorld \in Seq(ForWorld) /\ bgInstanceID' = bgInstanceID
  BY DEF BgTypes, MessageTypes, world, player
<1>2. q \in Players /\ Team(q) = t
  BY DEF Coming
<1>3. CASE bgInstanceID'[q] = i
  BY <1>1, <1>2, <1>3 DEF Coming
<1>4. CASE \E k \in Nat : (Enters(k, q) /\ toWorld[k].instanceId = i)'
  <2>1. PICK k \in Nat : (Enters(k, q) /\ toWorld[k].instanceId = i)'
    BY <1>4
  <2>2. /\ k \in 1..Len(toWorld') /\ toWorld'[k].type = "Enter" /\ toWorld'[k].player = q
        /\ toWorld'[k].instanceId = i
    BY <2>1 DEF Enters, Tells
  <2>3. PICK all \in Seq(ForWorld) :
           /\ toWorld' = toWorld \o all
           /\ \A m \in 1..Len(all) : all[m].type = "SetInvitedCount" \/ \E l \in 1..Len(messages) : all[m] = messages[l]
    BY DEF Sends
  <2>4. \/ k \in 1..Len(toWorld) /\ toWorld'[k] = toWorld[k]
        \/ k - Len(toWorld) \in 1..Len(all) /\ toWorld'[k] = all[k - Len(toWorld)]
    BY <1>1, <2>2, <2>3, Joined
  <2>5. CASE k \in 1..Len(toWorld) /\ toWorld'[k] = toWorld[k]
    <3>1. Enters(k, q) /\ toWorld[k].instanceId = i
      BY <2>2, <2>5 DEF Enters, Tells
    <3>. QED
      BY <1>2, <3>1 DEF Coming
  <2>6. ASSUME NEW m \in 1..Len(all), toWorld'[k] = all[m]
        PROVE  q = p /\ i = at /\ t = Team(p) /\ \E l \in 1..Len(messages) : EnterOf(messages[l])
    <3>1. PICK l \in 1..Len(messages) : all[m] = messages[l]
      BY <2>2, <2>3, <2>6
    <3>. QED
      BY <1>2, <2>2, <2>6, <3>1 DEF EnterOf
  <2>. QED
    BY <2>4, <2>5, <2>6
<1>. QED
  BY <1>3, <1>4 DEF Coming

\* A player taken out of the queue: he is expected no more, or he is told to enter and expected instead.
LEMMA OutExpected ==
  ASSUME ListInv, TimerInv, Expected, UNCHANGED <<world, i_MaxInstanceId>>, toQueue # <<>>, toQueue' = Tail(toQueue),
         NEW p \in Players, m_queuedPlayers[p] # None,
         NEW decrease \in BOOLEAN, NEW messages \in Seq(ForWorld), RemovePlayer(p, decrease, messages),
         \A m \in 1..Len(messages) : EnterOf(messages[m]) =>
            ~decrease /\ messages[m].player = p /\ messages[m].instanceId = Group(p).invitedTo
  PROVE  Expected'
<1> PICK slots, groups, D, at, g :
       /\ slots = m_bgFreeSlotQueue' /\ groups = m_queuedGroups' /\ D = FreshOnes
       /\ at = Group(p).invitedTo /\ g = Group(p)
  OBVIOUS
<1>1. /\ BgTypes /\ Listed /\ InQueue /\ Grouped /\ m_bgFreeSlotQueue \in Seq(Infos) /\ m_queuedGroups \in Seq(Groups)
      /\ MaxPlayersPerTeam \in Nat
  BY BgBoundsAssumption DEF ListInv, Listed, BgTypes, QueueTypes
<1>2. FreshOnes' = D /\ AboutStale'
  BY QueueFresh
<1>3. \A i, t : IsFiniteSet(Coming(i, t)) /\ IsFiniteSet(Guests(m_queuedGroups, i, t))
  BY <1>1, BeforeUpdate, GuestsFinite
<1>4. Bounded(m_bgFreeSlotQueue, m_queuedGroups, D) /\ Roomy(m_bgFreeSlotQueue) /\ Single(m_bgFreeSlotQueue, D)
  BY DEF Expected
<1>5. /\ groups = RemoveAt(m_queuedGroups, Place(p))
      /\ slots \in Seq(Infos) /\ SameSlots(slots, m_bgFreeSlotQueue) /\ Sends(messages)
  BY <1>1, RemovePlayerFact
<1>6. /\ \A i, t : Guests(groups, i, t) \subseteq Guests(m_queuedGroups, i, t)
      /\ g \in Guests(m_queuedGroups, at, Team(p)) /\ g \notin Guests(groups, at, Team(p))
  <2>1. m_queuedGroups' = RemoveAt(m_queuedGroups, Place(p))
    BY <1>5
  <2>2. /\ \A i, t : Guests(m_queuedGroups', i, t) \subseteq Guests(m_queuedGroups, i, t)
        /\ Group(p) \in Guests(m_queuedGroups, Group(p).invitedTo, Team(p))
        /\ Group(p) \notin ToSet(m_queuedGroups')
    BY <1>1, <2>1, GuestLeaves
  <2>3. g \notin ToSet(groups)
    BY <2>2
  <2>4. g \notin Guests(groups, at, Team(p))
    BY <2>3 DEF Guests
  <2>. QED
    BY <2>2, <2>4
<1>7. \A i, t, q : q \in Coming(i, t)' => q \in Coming(i, t) \/ (~decrease /\ q = p /\ i = at /\ t = Team(p))
  <2>1. UNCHANGED world
    OBVIOUS
  <2>2. \A m \in 1..Len(messages) : EnterOf(messages[m]) => messages[m].player = p /\ messages[m].instanceId = at
    OBVIOUS
  <2>3. BgTypes /\ Sends(messages)
    BY <1>1, <1>5
  <2>4. ComesToo(p, at, messages)
    BY <2>1, <2>2, <2>3, ComingAfter
  <2>. QED
    BY <2>4 DEF ComesToo
<1>8. ASSUME NEW k \in 1..Len(slots), NEW t \in Teams, slots[k].instanceId \in D
      PROVE  /\ Cardinality(Guests(groups, slots[k].instanceId, t)) + Cardinality(Coming(slots[k].instanceId, t)')
                   <= slots[k].invited[t]
             /\ slots[k].invited[t] <= MaxPlayersPerTeam
  <2> PICK i, old, new, A, B, C, E :
         /\ i = slots[k].instanceId /\ old = m_bgFreeSlotQueue[k].invited[t] /\ new = slots[k].invited[t]
         /\ A = Guests(groups, i, t) /\ B = Guests(m_queuedGroups, i, t)
         /\ C = Coming(i, t)' /\ E = Coming(i, t)
    OBVIOUS
  <2>1. k \in 1..Len(m_bgFreeSlotQueue) /\ m_bgFreeSlotQueue[k].instanceId = i /\ i \in D
    BY <1>5, <1>8 DEF SameSlots
  <2>2. m_bgFreeSlotQueue[k] \in Infos
    BY <1>1, <2>1
  <2>3. old \in 0..MaxCount /\ old \in Nat
    BY <2>2 DEF Infos, Counts
  <2>4. Cardinality(B) + Cardinality(E) <= old /\ old <= MaxPlayersPerTeam
    BY <1>4, <2>1 DEF Bounded
  <2>5. IsFiniteSet(B) /\ IsFiniteSet(E) /\ A \subseteq B
    BY <1>3, <1>6
  <2>6. \/ new = old
        \/ decrease /\ i = at /\ t = Team(p) /\ new = Minus(old)
    <3>1. \/ m_bgFreeSlotQueue'[k].invited[t] = m_bgFreeSlotQueue[k].invited[t]
          \/ /\ decrease /\ m_bgFreeSlotQueue[k].instanceId = Group(p).invitedTo /\ t = Team(p)
             /\ m_bgFreeSlotQueue'[k].invited[t] = Minus(m_bgFreeSlotQueue[k].invited[t])
      BY <1>1, <2>1, CountLowered
    <3>. QED
      BY <2>1, <3>1
  <2>7. IsFiniteSet(A) /\ Cardinality(A) \in Nat /\ Cardinality(B) \in Nat /\ Cardinality(E) \in Nat
    BY <2>5, FS_Subset, FS_CardinalityType
  <2> DEFINE a == Cardinality(A)
             b == Cardinality(B)
             c == Cardinality(C)
             e == Cardinality(E)
  <2>8. CASE i = at /\ t = Team(p)
    <3>1. g \in B /\ g \notin A
      BY <1>6, <2>8
    <3>2. IsFiniteSet(B \ {g}) /\ Cardinality(B \ {g}) = Cardinality(B) - 1 /\ A \subseteq B \ {g}
      BY <2>5, <3>1, FS_RemoveElement
    <3>3. Cardinality(A) <= Cardinality(B \ {g})
      BY <3>2, FS_Subset
    <3>4. Cardinality(A) <= Cardinality(B) - 1
      BY <3>2, <3>3
    <3>5. CASE decrease
      <4>1. C \subseteq E
        BY <1>7, <3>5
      <4>2. Cardinality(C) <= Cardinality(E) /\ Cardinality(C) \in Nat
        BY <2>5, <4>1, FS_Subset, FS_CardinalityType
      <4>3. old # 0
        BY <2>3, <2>4, <2>7, <3>4
      <4>4. new = old \/ new = old - 1
        BY <2>3, <2>6, <4>3, MinusFact
      <4>5. Cardinality(A) + Cardinality(C) <= new /\ new <= MaxPlayersPerTeam
        <5>1. /\ a \in Nat /\ b \in Nat /\ c \in Nat /\ e \in Nat /\ old \in Nat
              /\ b + e <= old /\ old <= MaxPlayersPerTeam /\ a <= b - 1 /\ c <= e
          BY <2>3, <2>4, <2>7, <3>4, <4>2
        <5> HIDE DEF a, b, c, e
        <5>2. a + c <= new /\ new <= MaxPlayersPerTeam
          <6>1. a + c <= old - 1
            BY <5>1
          <6>2. CASE new = old
            BY <5>1, <6>1, <6>2
          <6>3. CASE new = old - 1
            <7>1. MaxPlayersPerTeam \in Nat
              BY BgBoundsAssumption
            <7>2. new <= old
              BY <5>1, <6>3
            <7>3. a + c <= new
              BY <6>1, <6>3
            <7>. QED
              BY <5>1, <6>3, <7>1, <7>2, <7>3
          <6>. QED
            BY <4>4, <6>2, <6>3
        <5>. QED
          BY <5>2 DEF a, c
      <4>. QED
        BY <4>5
    <3>6. CASE ~decrease
      <4>1. C \subseteq E \union {p}
        BY <1>7
      <4>2. Cardinality(C) <= Cardinality(E) + 1 /\ Cardinality(C) \in Nat
        BY <2>5, <4>1, OneMore
      <4>3. new = old
        BY <2>6, <3>6
      <4>4. Cardinality(A) + Cardinality(C) <= new /\ new <= MaxPlayersPerTeam
        <5>1. /\ a \in Nat /\ b \in Nat /\ c \in Nat /\ e \in Nat /\ old \in Nat
              /\ b + e <= old /\ old <= MaxPlayersPerTeam /\ a <= b - 1 /\ c <= e + 1
          BY <2>3, <2>4, <2>7, <3>4, <4>2
        <5> HIDE DEF a, b, c, e
        <5>2. a + c <= new /\ new <= MaxPlayersPerTeam
          BY <1>1, <4>3, <5>1
        <5>. QED
          BY <5>2 DEF a, c
      <4>. QED
        BY <4>4
    <3>. QED
      BY <3>5, <3>6
  <2>9. CASE ~(i = at /\ t = Team(p))
    <3>1. C \subseteq E
      BY <1>7, <2>9
    <3>2. Cardinality(A) + Cardinality(C) <= old
      BY <2>3, <2>4, <2>5, <3>1, FewerFact
    <3>3. new = old
      BY <2>6, <2>9
    <3>. QED
      BY <2>4, <3>2, <3>3
  <2>. QED
    BY <2>8, <2>9
<1>9. Single(m_bgFreeSlotQueue, FreshOnes)'
  BY <1>2, <1>4, <1>5 DEF Single, SameSlots
<1>10. Bounded(m_bgFreeSlotQueue, m_queuedGroups, FreshOnes)'
  BY <1>2, <1>8 DEF Bounded, Guests
<1>11. Roomy(m_bgFreeSlotQueue)'
  BY <1>4, <1>5 DEF Roomy, SameSlots
<1>. QED
  BY <1>2, <1>9, <1>10, <1>11 DEF Expected

\* A player answers, logs out or does not answer in time.
LEMMA AnswerExpected ==
  ASSUME ListInv, TimerInv, Expected, PortEnter \/ PortLeave \/ LoggedOut \/ Expired, UNCHANGED i_MaxInstanceId
  PROVE  Expected'
<1>1. BgTypes /\ Grouped /\ m_bgFreeSlotQueue \in Seq(Infos)
  BY DEF ListInv, BgTypes, QueueTypes
<1>2. /\ UNCHANGED <<world, i_MaxInstanceId>> /\ toQueue # <<>> /\ toQueue' = Tail(toQueue)
      /\ Received.type \in {"Port", "LoggedOut", "Expired"}
  BY DEF PortEnter, PortLeave, LoggedOut, Expired, ToQueue, Received
<1>3. PICK p \in Players : p = Received.player
  BY <1>1, <1>2, QueuePopped, QueueKinds DEF Received
<1> DEFINE at == Group(p).invitedTo
           enter == <<[type |-> "Enter", player |-> p, instanceId |-> at]>>
           left == <<[type |-> "Left", player |-> p]>>
<1>4. \/ m_queuedPlayers[p] # None /\ RemovePlayer(p, FALSE, enter)
      \/ m_queuedPlayers[p] # None /\ RemovePlayer(p, TRUE, left)
      \/ m_queuedPlayers[p] # None /\ RemovePlayer(p, TRUE, <<>>)
      \/ UNCHANGED <<m_queuedGroups, m_bgFreeSlotQueue, toWorld>>
  BY <1>3 DEF PortEnter, PortLeave, LoggedOut, Expired, IsInvited, IsPlayerInvited, queue
<1>5. CASE UNCHANGED <<m_queuedGroups, m_bgFreeSlotQueue, toWorld>>
  <2>1. WorldShifted({"Enter"}, 0)
    BY <1>1, <1>5, WorldShift
  <2>2. \A i \in FreshOnes, t \in Teams : Guests(m_queuedGroups', i, t) \subseteq Guests(m_queuedGroups, i, t)
    BY <1>5
  <2>3. Single(m_bgFreeSlotQueue', FreshOnes)
    BY <1>5 DEF Expected
  <2>4. \A k \in 1..Len(m_bgFreeSlotQueue') : Entered(m_bgFreeSlotQueue'[k], m_bgFreeSlotQueue)
    BY <1>5 DEF Entered
  <2>. QED
    BY <1>2, <2>1, <2>2, <2>3, <2>4, SlotsExpected
<1>6. CASE m_queuedPlayers[p] # None /\ RemovePlayer(p, FALSE, enter)
  <2>1. at \in Nat
    BY <1>1, <1>6, PlaceFact DEF Groups
  <2> HIDE DEF at
  <2>2. [type |-> "Enter", player |-> p, instanceId |-> at] \in ForWorld
    BY <2>1, WorldMembers
  <2>3. enter \in Seq(ForWorld) /\ Len(enter) = 1 /\ enter[1].player = p /\ enter[1].instanceId = at
    BY <2>2
  <2> HIDE DEF enter
  <2>4. \A m \in 1..Len(enter) : EnterOf(enter[m]) =>
           ~FALSE /\ enter[m].player = p /\ enter[m].instanceId = Group(p).invitedTo
    BY <2>3 DEF at
  <2>. QED
    BY <1>2, <1>6, <2>3, <2>4, OutExpected
<1>7. CASE m_queuedPlayers[p] # None /\ RemovePlayer(p, TRUE, left)
  <2>1. [type |-> "Left", player |-> p] \in ForWorld
    BY WorldMembers
  <2>2. left \in Seq(ForWorld) /\ Len(left) = 1 /\ left[1].type = "Left"
    BY <2>1
  <2> HIDE DEF left
  <2>3. \A m \in 1..Len(left) : EnterOf(left[m]) =>
           ~TRUE /\ left[m].player = p /\ left[m].instanceId = Group(p).invitedTo
    BY <2>2 DEF EnterOf
  <2>. QED
    BY <1>2, <1>7, <2>2, <2>3, OutExpected
<1>8. CASE m_queuedPlayers[p] # None /\ RemovePlayer(p, TRUE, <<>>)
  <2> DEFINE none == <<>>
  <2>1. RemovePlayer(p, TRUE, none)
    BY <1>8
  <2>3. none \in Seq(ForWorld) /\ Len(none) = 0
    OBVIOUS
  <2> HIDE DEF none
  <2>2. \A m \in 1..Len(none) : EnterOf(none[m]) =>
           ~TRUE /\ none[m].player = p /\ none[m].instanceId = Group(p).invitedTo
    BY <2>3
  <2>. QED
    BY <1>2, <1>8, <2>1, <2>2, <2>3, OutExpected
<1>. QED
  BY <1>4, <1>5, <1>6, <1>7, <1>8

\* An update invites no more than fit; a new battleground is fresh, and has an entry of its own.
LEMMA UpdateExpected ==
  ASSUME ListInv, Expected, Update
  PROVE  Expected'
<1> PICK slots, groups, D, E, max :
       /\ slots = m_bgFreeSlotQueue' /\ groups = m_queuedGroups' /\ D = FreshOnes /\ E = FreshOnes'
       /\ max = i_MaxInstanceId
  OBVIOUS
<1>1. /\ BgTypes /\ Listed /\ m_bgFreeSlotQueue \in Seq(Infos) /\ toWorld \in Seq(ForWorld)
      /\ max \in Nat /\ Created \subseteq Instances /\ 0 < 2 * MaxPlayersPerTeam
      /\ \A k \in 1..Len(m_bgFreeSlotQueue) : m_bgFreeSlotQueue[k].instanceId \in 1..max
  <2>1. BgTypes /\ Listed
    BY DEF ListInv
  <2>2. m_bgFreeSlotQueue \in Seq(Infos) /\ max \in Nat
    BY <2>1 DEF BgTypes, QueueTypes
  <2>5. toWorld \in Seq(ForWorld)
    BY <2>1 DEF BgTypes, MessageTypes
  <2>6. Created \subseteq Instances
    BY <2>1 DEF BgTypes, WorldTypes, Instances
  <2>3. 0 < 2 * MaxPlayersPerTeam
    BY BgBoundsAssumption
  <2>4. \A k \in 1..Len(m_bgFreeSlotQueue) : m_bgFreeSlotQueue[k].instanceId \in 1..max
    BY <2>1 DEF Listed, InQueue, Instances
  <2>. QED
    BY <2>1, <2>2, <2>3, <2>4, <2>5, <2>6
<1>2. UNCHANGED world /\ toQueue' = toQueue /\ m_battleGrounds' = m_battleGrounds /\ Created' = Created
  BY DEF Update, world, Created
<1>3. /\ Single(m_bgFreeSlotQueue, D) /\ Bounded(m_bgFreeSlotQueue, m_queuedGroups, D) /\ Roomy(m_bgFreeSlotQueue)
      /\ AboutStale
  BY DEF Expected
<1>4. Updated(D)
  BY <1>1, <1>3, UpdateFact
<1>5. StaleOnes' = StaleOnes /\ i_MaxInstanceId' \in {max, max + 1}
  <2>1. i_MaxInstanceId' \in {max, max + 1}
    BY <1>4 DEF Updated
  <2>2. \A i : Stale(i)' <=> Stale(i)
    BY <1>2 DEF Stale
  <2>3. Created \subseteq Instances'
    BY <1>1, <2>1 DEF Instances
  <2>4. StaleOnes = {i \in Created : Stale(i)} /\ StaleOnes' = {i \in Created : Stale(i)}
    BY <1>1, <2>2, <2>3 DEF StaleOnes, Stale
  <2>. QED
    BY <2>1, <2>4
<1>6. AboutStale'
  BY <1>2, <1>3, <1>5 DEF AboutStale
<1>7. \A i \in E : i \in Nat /\ i # 0
  BY <1>1, <1>5 DEF FreshOnes, Instances
<1>8. ASSUME NEW i \in E, NEW t \in Teams PROVE Coming(i, t)' \subseteq Coming(i, t)
  <2>1. PICK ms \in Seq(ForWorld) :
           toWorld' = toWorld \o ms /\ \A m \in 1..Len(ms) : ms[m].type \in {"Invite", "SetInvitedCount", "Create"}
    BY <1>1, <1>4, UpdateTells
  <2>2. \A m \in 1..Len(ms) : ms[m].type \notin {"Enter"}
    BY <2>1
  <2>3. WorldShifted({"Enter"}, 0)
    BY <1>1, <2>1, <2>2, WorldSent
  <2>4. \A p \in Players : bgInstanceID'[p] \in {bgInstanceID[p], 0}
    BY <1>2 DEF world, player
  <2>5. i \in Nat /\ i # 0
    BY <1>7
  <2>. QED
    BY <2>3, <2>4, <2>5, ComingLess
<1>9. PICK F, old :
         /\ slots \in Seq(Infos) /\ groups \in Seq(Groups) /\ SameSlots(slots, old)
         /\ E \subseteq F /\ Bounded(slots, groups, F) /\ Single(old, F) /\ Roomy(old)
  <2>1. PICK old \in Seq(Infos) :
           /\ slots \in Seq(Infos) /\ groups \in Seq(Groups) /\ SameSlots(slots, old)
           /\ \/ old = m_bgFreeSlotQueue /\ i_MaxInstanceId' = max /\ Bounded(slots, groups, D)
              \/ /\ i_MaxInstanceId' = max + 1 /\ Bounded(slots, groups, D \union {max + 1})
                 /\ \E new \in Infos : new.instanceId = max + 1 /\ new.playersInside = 0
                                       /\ old = <<new>> \o m_bgFreeSlotQueue
    BY <1>4 DEF Updated
  <2>2. CASE old = m_bgFreeSlotQueue /\ i_MaxInstanceId' = max /\ Bounded(slots, groups, D)
    <3>1. E \subseteq D
      BY <1>5, <2>2 DEF FreshOnes, Instances
    <3>. QED
      BY <1>3, <2>1, <2>2, <3>1
  <2>3. ASSUME i_MaxInstanceId' = max + 1, Bounded(slots, groups, D \union {max + 1}), NEW new \in Infos,
               new.instanceId = max + 1, new.playersInside = 0, old = <<new>> \o m_bgFreeSlotQueue
        PROVE  E \subseteq D \union {max + 1} /\ Single(old, D \union {max + 1}) /\ Roomy(old)
    <3>1. E \subseteq D \union {max + 1}
      BY <1>1, <1>5, <2>3 DEF FreshOnes, Instances
    <3>2. /\ Len(old) = Len(m_bgFreeSlotQueue) + 1 /\ old[1] = new
          /\ \A k \in 2..(Len(m_bgFreeSlotQueue) + 1) : old[k] = m_bgFreeSlotQueue[k - 1]
      BY <1>1, <2>3, EntryAdded
    <3>3. \A k \in 1..Len(old) : \/ k = 1 /\ old[k] = new
                                 \/ k - 1 \in 1..Len(m_bgFreeSlotQueue) /\ old[k] = m_bgFreeSlotQueue[k - 1]
      BY <1>1, <3>2
    <3>4. max + 1 \notin 1..max
      BY <1>1
    <3>5. Single(old, D \union {max + 1})
      <4> SUFFICES ASSUME NEW k \in 1..Len(old), NEW l \in 1..Len(old),
                          old[k].instanceId = old[l].instanceId, old[k].instanceId \in D \union {max + 1}
                   PROVE  k = l
        BY DEF Single
      <4>1. CASE k = 1 \/ l = 1
        <5>1. \A n \in 1..Len(old) : n # 1 => old[n].instanceId # max + 1
          <6> SUFFICES ASSUME NEW n \in 1..Len(old), n # 1 PROVE old[n].instanceId # max + 1
            OBVIOUS
          <6>1. n - 1 \in 1..Len(m_bgFreeSlotQueue) /\ old[n] = m_bgFreeSlotQueue[n - 1]
            BY <3>3
          <6>2. old[n].instanceId \in 1..max
            BY <1>1, <6>1
          <6>. QED
            BY <3>4, <6>2
        <5>2. old[1].instanceId = max + 1
          BY <2>3, <3>2
        <5>. QED
          BY <4>1, <5>1, <5>2
      <4>2. CASE ~(k = 1 \/ l = 1)
        <5>1. /\ k - 1 \in 1..Len(m_bgFreeSlotQueue) /\ old[k] = m_bgFreeSlotQueue[k - 1]
              /\ l - 1 \in 1..Len(m_bgFreeSlotQueue) /\ old[l] = m_bgFreeSlotQueue[l - 1]
          BY <3>3, <4>2
        <5>2. old[k].instanceId \in D
          BY <1>1, <3>4, <5>1
        <5>3. k - 1 = l - 1
          BY <1>3, <5>1, <5>2 DEF Single
        <5>. QED
          BY <5>3
      <4>. QED
        BY <4>1, <4>2
    <3>6. Roomy(old)
      BY <1>1, <1>3, <2>3, <3>3 DEF Roomy
    <3>. QED
      BY <3>1, <3>5, <3>6
  <2>. QED
    BY <2>1, <2>2, <2>3
<1>10. Single(m_bgFreeSlotQueue, FreshOnes)'
  BY <1>9 DEF Single, SameSlots
<1>11. Roomy(m_bgFreeSlotQueue)'
  BY <1>9 DEF Roomy, SameSlots
<1>12. \A k \in 1..Len(slots), t \in Teams : slots[k].instanceId \in E =>
          /\ Cardinality(Guests(groups, slots[k].instanceId, t)) + Cardinality(Coming(slots[k].instanceId, t)')
                <= slots[k].invited[t]
          /\ slots[k].invited[t] <= MaxPlayersPerTeam
  <2>1. \A i, t : IsFiniteSet(Coming(i, t))
    BY <1>1, BeforeUpdate
  <2>. QED
    BY <1>8, <1>9, <2>1, BoundedLess
<1>13. Bounded(m_bgFreeSlotQueue, m_queuedGroups, FreshOnes)'
  BY <1>12 DEF Bounded, Guests
<1>. QED
  BY <1>6, <1>10, <1>11, <1>13 DEF Expected

\* At first there is nothing to expect.
LEMMA StartsExpected == Init => Expected
<1> SUFFICES ASSUME Init PROVE Expected
  OBVIOUS
<1>1. m_bgFreeSlotQueue = <<>> /\ toQueue = <<>>
  BY DEF Init
<1>. QED
  BY <1>1 DEF Expected, Single, Bounded, Roomy, AboutStale

\* Every step keeps what is expected.
LEMMA KeepsExpected == ListInv /\ TimerInv /\ Attends /\ Expected /\ [Next]_vars => Expected'
<1> SUFFICES ASSUME ListInv, TimerInv, Attends, Expected, [Next]_vars PROVE Expected'
  OBVIOUS
<1>1. CASE QueueMessage
  BY <1>1, JoinExpected, QuietExpected, ListExpected, AnswerExpected DEF QueueMessage
<1>2. CASE QueueUpdate
  BY <1>2, UpdateExpected DEF QueueUpdate
<1>3. CASE WorldMessage
  BY <1>3, OthersExpected, EnterExpected DEF WorldMessage
<1>4. ASSUME NEW p \in Players, Player(p) PROVE Expected'
  <2>1. CASE HandleLeaveBattlefield(p)
    BY <2>1, LeaveExpected DEF HandleLeaveBattlefield
  <2>. QED
    BY <1>4, <2>1, PlayersExpected DEF Player
<1>5. ASSUME NEW p \in Players, FireRemoveEvent(p) \/ WorldportAck(p) PROVE Expected'
  BY <1>5, PlayersExpected
<1>6. ASSUME NEW i \in Created, BattleGround(i) PROVE Expected'
  <2>1. ASSUME NEW p \in Players, RemoveParticipant(p, i) PROVE Expected'
    BY <2>1, LeaveExpected DEF RemoveParticipant
  <2>. QED
    BY <1>6, <2>1, BattleExpected DEF BattleGround
<1>7. CASE UNCHANGED vars
  <2>1. UNCHANGED <<queue, world>> /\ toWorld' = toWorld /\ toQueue' = toQueue
    BY <1>7 DEF vars
  <2>2. /\ bgInstanceID' = bgInstanceID /\ m_battleGrounds' = m_battleGrounds /\ Created' = Created
        /\ i_MaxInstanceId' = i_MaxInstanceId
    BY <2>1 DEF world, player, queue, Created
  <2>3. StaleOnes \subseteq StaleOnes'
    BY <2>2, StaleStays
  <2>4. AboutStale'
    <3>1. BgTypes /\ AboutStale /\ [type |-> "ScheduleQueueUpdate"] \in ForQueue
      BY QueueMembers DEF ListInv, Expected
    <3>. QED
      BY <2>1, <2>3, <3>1, AboutNothing
  <2>. QED
    BY <2>1, <2>2, <2>3, <2>4, WorldExpects
<1>. QED
  BY <1>1, <1>2, <1>3, <1>4, <1>5, <1>6, <1>7 DEF Next

(***************************************************************************)
(* Every behaviour keeps the list of battlegrounds whole, gives a number   *)
(* one timer, lets a player be in the queue, on his way to a battleground  *)
(* or inside it but not in two of these at once, and never expects more    *)
(* players in a battleground than fit, for any number of players and of    *)
(* messages on their way between the two threads.                          *)
(***************************************************************************)
THEOREM BgHolds == Spec => [](ListInv /\ TimerInv /\ Attends /\ Expected)
<1>1. Init => ListInv /\ TimerInv /\ Attends /\ Expected
  BY StartsListed, StartsTimed, StartsAttended, StartsExpected
<1>2. ListInv /\ TimerInv /\ Attends /\ Expected /\ [Next]_vars => (ListInv /\ TimerInv /\ Attends /\ Expected)'
  BY KeepsListed, KeepsTimed, KeepsAttended, KeepsExpected
<1>. QED
  BY <1>1, <1>2, PTL DEF Spec

(***************************************************************************)
(* The types of the queue and of the world, and what ties them together: a *)
(* queued player has his group, is in no battleground and on his way to    *)
(* none; an entry always has a free place; a battleground holds nobody who *)
(* is registered in another.  For all values of the constants.             *)
(***************************************************************************)
THEOREM BgTypesHold == Spec => []BgQueueTypeOK
<1>1. ASSUME ListInv, Attends, Expected PROVE BgQueueTypeOK
  <2>1. BgTypes /\ Grouped /\ QueueTypes /\ WorldTypes
    BY <1>1 DEF ListInv, BgTypes
  <2>2. ASSUME NEW p \in Players, m_queuedPlayers[p] # None
        PROVE  \E g \in ToSet(m_queuedGroups) : g.number = m_queuedPlayers[p] /\ g.player = p
    <3>1. PICK j \in Nat : HasGroup(j, p, m_queuedPlayers[p])
      BY <2>1, <2>2 DEF Grouped
    <3>2. m_queuedGroups[j] \in ToSet(m_queuedGroups)
      BY <2>1, <3>1 DEF HasGroup, ToSet, QueueTypes
    <3>. QED
      BY <3>1, <3>2 DEF HasGroup
  <2>3. ASSUME NEW k \in DOMAIN m_bgFreeSlotQueue
        PROVE  /\ m_bgFreeSlotQueue[k].playersInside < 2 * MaxPlayersPerTeam
               /\ \A t \in Teams : m_bgFreeSlotQueue[k].invited[t] \in 0..MaxCount
    <3>1. k \in 1..Len(m_bgFreeSlotQueue) /\ m_bgFreeSlotQueue[k] \in Infos
      BY <2>1 DEF QueueTypes
    <3>2. m_bgFreeSlotQueue[k].playersInside < 2 * MaxPlayersPerTeam
      BY <1>1, <3>1 DEF Expected, Roomy
    <3>3. m_bgFreeSlotQueue[k].invited \in Counts
      BY <3>1 DEF Infos
    <3>. QED
      BY <3>2, <3>3 DEF Counts
  <2>4. m_queueUpdateScheduler \in BOOLEAN /\ Created \subseteq 1..i_MaxInstanceId
    BY <2>1 DEF QueueTypes, WorldTypes
  <2>5. ASSUME NEW i \in Created, Exists(i)
        PROVE  m_battleGrounds[i].players \subseteq {p \in Players : bgInstanceID[p] = i}
    <3>1. m_battleGrounds[i] \in Battles
      BY <2>1 DEF WorldTypes
    <3>2. m_battleGrounds[i].players \subseteq Players
      BY <3>1 DEF Battles
    <3>3. \A p \in Players : Seated(p)
      BY <1>1 DEF Attends, Attending
    <3>. QED
      BY <2>5, <3>2, <3>3 DEF Seated
  <2>6. ASSUME NEW p \in Players
        PROVE  /\ away[p] \in {None} \union 0..i_MaxInstanceId
               /\ bgInstanceID[p] \in 0..i_MaxInstanceId
               /\ m_queuedPlayers[p] # None => bgInstanceID[p] = 0
    <3>1. away[p] \in {None} \union 0..i_MaxInstanceId /\ bgInstanceID[p] \in 0..i_MaxInstanceId
      BY <2>1 DEF WorldTypes
    <3>2. bgInstanceID[p] # 0 => m_queuedPlayers[p] = None
      BY <1>1 DEF Attends, Attending, Seated, Out
    <3>. QED
      BY <3>1, <3>2
  <2>. QED
    BY <2>2, <2>3, <2>4, <2>5, <2>6 DEF BgQueueTypeOK
<1>. QED
  BY <1>1, BgHolds, PTL

(***************************************************************************)
(* Nobody who accepts loses his place before he is inside: until somebody  *)
(* leaves a battleground or it ends, its entries count all who are         *)
(* invited, on their way or inside, and no more than a team, for any       *)
(* number of players and any messages between the threads.                 *)
(***************************************************************************)
THEOREM PlacesHold == Spec => []PlacesCounted
<1>1. ASSUME ListInv, Expected PROVE PlacesCounted
  <2>1. /\ BgTypes /\ Listed /\ m_bgFreeSlotQueue \in Seq(Infos) /\ toWorld \in Seq(ForWorld)
    BY <1>1 DEF ListInv, BgTypes, QueueTypes, MessageTypes
  <2>2. ASSUME NEW i, NEW t PROVE Accepted(i, t) = Coming(i, t)
    <3>1. \A p \in Players : (\E k \in DOMAIN toWorld : toWorld[k].type = "Enter" /\ toWorld[k].player = p
                                                        /\ toWorld[k].instanceId = i)
                              <=> \E k \in Nat : Enters(k, p) /\ toWorld[k].instanceId = i
      BY <2>1 DEF Enters, Tells
    <3>. QED
      BY <3>1 DEF Accepted, Coming
  <2>3. SUFFICES ASSUME NEW k \in 1..Len(m_bgFreeSlotQueue), NEW t \in Teams, Fresh(m_bgFreeSlotQueue[k].instanceId)
                 PROVE  /\ Cardinality(Guests(m_queuedGroups, m_bgFreeSlotQueue[k].instanceId, t))
                               + Cardinality(Accepted(m_bgFreeSlotQueue[k].instanceId, t))
                              <= m_bgFreeSlotQueue[k].invited[t]
                        /\ m_bgFreeSlotQueue[k].invited[t] <= MaxPlayersPerTeam
    BY <2>1 DEF PlacesCounted
  <2> DEFINE i == m_bgFreeSlotQueue[k].instanceId
  <2>4. i \in Instances
    BY <2>1 DEF Listed, InQueue
  <2> HIDE DEF i
  <2>5. ~Stale(i)
    BY <2>3 DEF Fresh, Stale, Status, i
  <2>6. i \in FreshOnes
    BY <2>4, <2>5 DEF FreshOnes, StaleOnes
  <2>7. Bounded(m_bgFreeSlotQueue, m_queuedGroups, FreshOnes)
    BY <1>1 DEF Expected
  <2>8. /\ Cardinality(Guests(m_queuedGroups, i, t)) + Cardinality(Coming(i, t)) <= m_bgFreeSlotQueue[k].invited[t]
        /\ m_bgFreeSlotQueue[k].invited[t] <= MaxPlayersPerTeam
    BY <2>6, <2>7 DEF Bounded, i
  <2>. QED
    BY <2>2, <2>8 DEF i
<1>. QED
  BY <1>1, BgHolds, PTL

(***************************************************************************)
(* Who has accepted is sent to one battleground once: until he is, he is   *)
(* in none, in no queue, and no other acceptance of his is under way, for  *)
(* any number of players, requests to join and messages.                   *)
(***************************************************************************)
THEOREM OnceHolds == Spec => []AcceptsOnce
<1>1. ASSUME ListInv, Attends PROVE AcceptsOnce
  <2>1. toWorld \in Seq(ForWorld)
    BY <1>1 DEF ListInv, BgTypes, MessageTypes
  <2> SUFFICES ASSUME NEW k \in 1..Len(toWorld), toWorld[k].type = "Enter"
               PROVE  /\ m_queuedPlayers[toWorld[k].player] = None
                      /\ bgInstanceID[toWorld[k].player] = 0
                      /\ \A l \in 1..Len(toWorld) :
                            toWorld[l].type = "Enter" /\ toWorld[l].player = toWorld[k].player => k = l
    BY <2>1 DEF AcceptsOnce
  <2>2. PICK p : p = toWorld[k].player
    OBVIOUS
  <2>3. toWorld[k] \in ForWorld
    BY <2>1
  <2>4. p \in Players
    BY <2>2, <2>3, WorldKinds
  <2>5. Moving(p)
    BY <1>1, <2>4 DEF Attends, Attending
  <2>6. k \in Nat /\ Moves(k, p)
    BY <2>2 DEF Moves, Enters, Tells
  <2>7. Out(p) /\ bgInstanceID[p] = 0 /\ \A l \in Nat : Moves(l, p) => k = l
    BY <2>5, <2>6 DEF Moving
  <2>8. \A l \in 1..Len(toWorld) : toWorld[l].type = "Enter" /\ toWorld[l].player = p => l \in Nat /\ Moves(l, p)
    BY DEF Moves, Enters, Tells
  <2>. QED
    BY <2>2, <2>7, <2>8 DEF Out
<1>. QED
  BY <1>1, BgHolds, PTL
=============================================================================
