------------------------- MODULE SessionQueueProofs -------------------------
(***************************************************************************)
(* The login queue for any accounts and limits: nobody waits for a place   *)
(* that is free, nobody is let in above the limit or out of turn, and      *)
(* those who wait are told their right place.                              *)
(***************************************************************************)
EXTENDS SessionQueue, FiniteSetTheorems, SequenceTheorems, TLAPS

\* What is remembered of the limit is about those who wait now.
Remembers == raised => m_QueuedSessions # <<>>

\* Nothing was told to an account without a session.
Untold == \A a \in Accounts : a \notin Sessions => told[a] = None

\* Who is in the queue knows it.
Waiters == \A i \in 1..Len(m_QueuedSessions) : m_inQueue[m_QueuedSessions[i]]

IInv == SessionQueueTypeOK /\ Remembers /\ Untold /\ Waiters /\ WaitsOnlyWhenFull /\ ToldPlace

-----------------------------------------------------------------------------
(* Places in a queue without repetitions.                                  *)

LEMMA Position ==
  ASSUME NEW S, NEW queue \in Seq(S), IsInjective(queue), NEW a
  PROVE  /\ GetQueuedSessionPos(queue, a) \in 0..Len(queue)
         /\ GetQueuedSessionPos(queue, a) = 0 <=> \A i \in 1..Len(queue) : queue[i] # a
         /\ \A i \in 1..Len(queue) : queue[i] = a <=> GetQueuedSessionPos(queue, a) = i
<1> DEFINE at == {i \in DOMAIN queue : queue[i] = a}
<1>1. DOMAIN queue = 1..Len(queue) /\ Len(queue) \in Nat
  OBVIOUS
<1>2. CASE at = {}
  BY <1>1, <1>2 DEF GetQueuedSessionPos
<1>3. ASSUME NEW i \in at PROVE at = {i} /\ GetQueuedSessionPos(queue, a) = i /\ i \in 1..Len(queue)
  <2>1. at = {i}
    BY DEF IsInjective
  <2>2. GetQueuedSessionPos(queue, a) = CHOOSE k \in at : \A j \in at : k <= j
    BY <2>1 DEF GetQueuedSessionPos
  <2>. QED
    BY <1>1, <2>1, <2>2
<1>4. CASE at # {}
  BY <1>1, <1>3, <1>4
<1>. QED
  BY <1>2, <1>4

LEMMA PositionAppended ==
  ASSUME NEW S, NEW queue \in Seq(S), IsInjective(queue), NEW a \in S,
         \A i \in 1..Len(queue) : queue[i] # a
  PROVE  /\ Append(queue, a) \in Seq(S) /\ IsInjective(Append(queue, a))
         /\ Len(Append(queue, a)) = Len(queue) + 1
         /\ ToSet(Append(queue, a)) = ToSet(queue) \union {a}
         /\ \A b : b # a => GetQueuedSessionPos(Append(queue, a), b) = GetQueuedSessionPos(queue, b)
<1> DEFINE q == Append(queue, a)
<1>1. /\ q \in Seq(S) /\ Len(q) = Len(queue) + 1 /\ Len(queue) \in Nat
      /\ DOMAIN q = 1..Len(q) /\ DOMAIN queue = 1..Len(queue)
      /\ \A i \in 1..Len(queue) : q[i] = queue[i]
      /\ q[Len(queue) + 1] = a
  OBVIOUS
<1> HIDE DEF q
<1>2. IsInjective(q)
  BY <1>1 DEF IsInjective
<1>3. ToSet(q) = ToSet(queue) \union {a}
  <2>1. \A i \in 1..Len(q) : i \in 1..Len(queue) \/ i = Len(queue) + 1
    BY <1>1
  <2>2. \A x : x \in ToSet(q) <=> \E i \in 1..Len(q) : q[i] = x
    BY <1>1 DEF ToSet
  <2>3. \A x : x \in ToSet(queue) <=> \E i \in 1..Len(queue) : queue[i] = x
    BY <1>1 DEF ToSet
  <2>4. 1..Len(queue) \subseteq 1..Len(q) /\ Len(queue) + 1 \in 1..Len(q)
    BY <1>1
  <2>5. \A x : x \in ToSet(q) <=> x \in ToSet(queue) \/ x = a
    BY <1>1, <2>1, <2>2, <2>3, <2>4
  <2>. QED
    BY <2>5
<1>4. ASSUME NEW b, b # a PROVE GetQueuedSessionPos(q, b) = GetQueuedSessionPos(queue, b)
  <2>1. /\ GetQueuedSessionPos(q, b) \in 0..Len(q)
        /\ \A i \in 1..Len(q) : q[i] = b <=> GetQueuedSessionPos(q, b) = i
    BY <1>1, <1>2, Position
  <2>2. /\ GetQueuedSessionPos(queue, b) \in 0..Len(queue)
        /\ \A i \in 1..Len(queue) : queue[i] = b <=> GetQueuedSessionPos(queue, b) = i
    BY Position
  <2>. QED
    BY <1>1, <1>4, <2>1, <2>2
<1>. QED
  BY <1>1, <1>2, <1>3, <1>4 DEF q

\* A queue from which the one at a place was taken: the others keep their order.
Without(queue, at, rest) == /\ Len(rest) = Len(queue) - 1
                            /\ \A i \in 1..Len(rest) : rest[i] = queue[IF i < at THEN i ELSE i + 1]

LEMMA PositionWithout ==
  ASSUME NEW S, NEW queue \in Seq(S), IsInjective(queue), NEW at \in 1..Len(queue),
         NEW rest \in Seq(S), Without(queue, at, rest)
  PROVE  /\ IsInjective(rest)
         /\ ToSet(rest) = ToSet(queue) \ {queue[at]}
         /\ \A b : b # queue[at] =>
               GetQueuedSessionPos(rest, b) = IF GetQueuedSessionPos(queue, b) > at
                                              THEN GetQueuedSessionPos(queue, b) - 1
                                              ELSE GetQueuedSessionPos(queue, b)
<1>1. /\ Len(queue) \in Nat /\ at \in Nat /\ Len(rest) = Len(queue) - 1 /\ Len(rest) \in Nat
      /\ DOMAIN queue = 1..Len(queue) /\ DOMAIN rest = 1..Len(rest)
  BY DEF Without
<1>2. \A i \in 1..Len(rest) : /\ i < at => i \in 1..Len(queue) /\ i # at /\ rest[i] = queue[i]
                              /\ ~(i < at) => i + 1 \in 1..Len(queue) /\ i + 1 # at /\ rest[i] = queue[i + 1]
  BY <1>1 DEF Without
<1>3. \A i \in 1..Len(queue) : /\ i < at => i \in 1..Len(rest) /\ queue[i] = rest[i]
                               /\ i > at => i - 1 \in 1..Len(rest) /\ queue[i] = rest[i - 1]
  BY <1>1, <1>2
<1>4. \A i, j \in 1..Len(queue) : queue[i] = queue[j] => i = j
  BY <1>1 DEF IsInjective
<1>5. IsInjective(rest)
  <2> SUFFICES ASSUME NEW i \in 1..Len(rest), NEW j \in 1..Len(rest), rest[i] = rest[j] PROVE i = j
    BY <1>1 DEF IsInjective
  <2>. QED
    BY <1>1, <1>2, <1>4
<1>6. ToSet(rest) = ToSet(queue) \ {queue[at]}
  <2>1. \A x : x \in ToSet(rest) <=> \E i \in 1..Len(rest) : rest[i] = x
    BY <1>1 DEF ToSet
  <2>2. \A x : x \in ToSet(queue) <=> \E i \in 1..Len(queue) : queue[i] = x
    BY <1>1 DEF ToSet
  <2>3. ASSUME NEW x \in ToSet(rest) PROVE x \in ToSet(queue) /\ x # queue[at]
    BY <1>1, <1>2, <1>4, <2>1, <2>2
  <2>4. ASSUME NEW x \in ToSet(queue), x # queue[at] PROVE x \in ToSet(rest)
    <3>1. PICK i \in 1..Len(queue) : queue[i] = x
      BY <2>2
    <3>2. i < at \/ i > at
      BY <1>1, <2>4, <3>1
    <3>. QED
      BY <1>3, <2>1, <3>1, <3>2
  <2>. QED
    BY <2>3, <2>4
<1>7. ASSUME NEW b, b # queue[at]
      PROVE  GetQueuedSessionPos(rest, b) = IF GetQueuedSessionPos(queue, b) > at
                                            THEN GetQueuedSessionPos(queue, b) - 1
                                            ELSE GetQueuedSessionPos(queue, b)
  <2> DEFINE old == GetQueuedSessionPos(queue, b)
             new == GetQueuedSessionPos(rest, b)
  <2>1. /\ new \in 0..Len(rest)
        /\ new = 0 <=> \A i \in 1..Len(rest) : rest[i] # b
        /\ \A i \in 1..Len(rest) : rest[i] = b <=> new = i
    BY <1>5, Position
  <2>2. /\ old \in 0..Len(queue)
        /\ old = 0 <=> \A i \in 1..Len(queue) : queue[i] # b
        /\ \A i \in 1..Len(queue) : queue[i] = b <=> old = i
    BY Position
  <2> HIDE DEF old, new
  <2>3. old # at
    BY <1>7, <2>2
  <2>4. CASE old = 0
    <3>1. \A i \in 1..Len(rest) : rest[i] # b
      BY <1>2, <2>2, <2>4
    <3>. QED
      BY <1>1, <2>1, <2>4, <3>1 DEF old, new
  <2>5. CASE old \in 1..Len(queue) /\ old < at
    BY <1>1, <1>3, <2>1, <2>2, <2>5 DEF old, new
  <2>6. CASE old \in 1..Len(queue) /\ old > at
    BY <1>1, <1>3, <2>1, <2>2, <2>6 DEF old, new
  <2>. QED
    BY <1>1, <2>2, <2>3, <2>4, <2>5, <2>6
<1>. QED
  BY <1>5, <1>6, <1>7

LEMMA RemoveAtWithout ==
  ASSUME NEW S, NEW queue \in Seq(S), NEW at \in 1..Len(queue)
  PROVE  RemoveAt(queue, at) \in Seq(S) /\ Without(queue, at, RemoveAt(queue, at))
<1> DEFINE front == SubSeq(queue, 1, at - 1)
           back == SubSeq(queue, at + 1, Len(queue))
<1>1. Len(queue) \in Nat /\ at \in Nat /\ \A i \in 1..Len(queue) : queue[i] \in S
  OBVIOUS
<1>2. /\ front \in Seq(S) /\ Len(front) = at - 1
      /\ \A i \in 1..(at - 1) : front[i] = queue[i]
  <2>1. \A i \in 1..(at - 1) : queue[i] \in S
    BY <1>1
  <2>. QED
    BY <1>1, <2>1, SubSeqProperties
<1>3. /\ back \in Seq(S) /\ Len(back) = Len(queue) - at
      /\ \A i \in 1..(Len(queue) - at) : back[i] = queue[at + i]
  <2>1. \A i \in (at + 1)..Len(queue) : queue[i] \in S
    BY <1>1
  <2>. QED
    BY <1>1, <2>1, SubSeqProperties
<1>4. RemoveAt(queue, at) = front \o back
  BY DEF RemoveAt
<1> HIDE DEF front, back
<1>5. /\ front \o back \in Seq(S) /\ Len(front \o back) = Len(front) + Len(back)
      /\ \A i \in 1..(Len(front) + Len(back)) :
            (front \o back)[i] = IF i <= Len(front) THEN front[i] ELSE back[i - Len(front)]
  BY <1>2, <1>3, ConcatProperties
<1>6. Len(front) + Len(back) = Len(queue) - 1
  BY <1>1, <1>2, <1>3
<1>7. ASSUME NEW i \in 1..(Len(queue) - 1)
      PROVE  (front \o back)[i] = queue[IF i < at THEN i ELSE i + 1]
  <2>1. CASE i < at
    <3>1. i \in 1..(at - 1) /\ i <= Len(front)
      BY <1>1, <1>2, <2>1
    <3>. QED
      BY <1>2, <1>5, <1>6, <2>1, <3>1
  <2>2. CASE ~(i < at)
    <3>1. i - (at - 1) \in 1..(Len(queue) - at) /\ at + (i - (at - 1)) = i + 1 /\ ~(i <= Len(front))
      BY <1>1, <1>2, <2>2
    <3>2. back[i - (at - 1)] = queue[i + 1]
      BY <1>3, <3>1
    <3>. QED
      BY <1>2, <1>5, <1>6, <2>2, <3>1, <3>2
  <2>. QED
    BY <2>1, <2>2
<1>. QED
  BY <1>4, <1>5, <1>6, <1>7 DEF Without

LEMMA TailWithout ==
  ASSUME NEW S, NEW queue \in Seq(S), queue # <<>>
  PROVE  /\ Tail(queue) \in Seq(S) /\ 1 \in 1..Len(queue) /\ Head(queue) = queue[1]
         /\ Without(queue, 1, Tail(queue))
  BY DEF Without

\* A queue without repetitions is not longer than the set it is of.
LEMMA LengthBound ==
  ASSUME NEW S, NEW queue \in Seq(S), IsInjective(queue), IsFiniteSet(S)
  PROVE  Len(queue) <= Cardinality(S)
<1>1. queue \in Injection(1..Len(queue), S) /\ Len(queue) \in Nat
  BY DEF Injection
<1>2. Cardinality(1..Len(queue)) = Len(queue)
  <2>1. 1 \in Int /\ Len(queue) \in Int
    BY <1>1
  <2>2. Cardinality(1..Len(queue)) = IF 1 > Len(queue) THEN 0 ELSE Len(queue) - 1 + 1
    BY <2>1, FS_Interval
  <2>. QED
    BY <1>1, <2>2
<1>. QED
  BY <1>1, <1>2, FS_Injection

LEMMA SeqOfItsElements ==
  ASSUME NEW S, NEW T, NEW queue \in Seq(S), ToSet(queue) \subseteq T
  PROVE  queue \in Seq(T)
<1>1. Len(queue) \in Nat /\ queue \in [1..Len(queue) -> T]
  BY DEF ToSet
<1>. QED
  BY <1>1, SeqDef

-----------------------------------------------------------------------------
(* The steps.                                                              *)

LEMMA Sizes ==
  ASSUME SessionQueueTypeOK
  PROVE  /\ IsFiniteSet(Sessions) /\ Cardinality(Sessions) \in Nat
         /\ m_QueuedSessions \in Seq(Accounts) /\ IsInjective(m_QueuedSessions)
         /\ ToSet(m_QueuedSessions) \subseteq Sessions \ GameMasters
         /\ Len(m_QueuedSessions) \in Nat
         /\ Len(m_QueuedSessions) <= Cardinality(Sessions)
         /\ Cardinality(Accounts) \in Nat
         /\ Len(m_QueuedSessions) <= Cardinality(Accounts)
         /\ GetActiveSessionCount \in Nat
         /\ m_playerLimit \in Int
<1>1. Sessions \subseteq Accounts
  BY DEF Sessions
<1>2. IsFiniteSet(Sessions) /\ Cardinality(Sessions) \in Nat
      /\ Cardinality(Accounts) \in Nat /\ Cardinality(Sessions) <= Cardinality(Accounts)
  BY <1>1, QueueSetsAssumption, FS_Subset, FS_CardinalityType
<1>3. m_QueuedSessions \in Seq(Sessions \ GameMasters) /\ IsInjective(m_QueuedSessions)
  BY DEF SessionQueueTypeOK
<1>4. m_QueuedSessions \in Seq(Sessions) /\ m_QueuedSessions \in Seq(Accounts)
  BY <1>1, <1>3, SeqMonotonic
<1>5. ToSet(m_QueuedSessions) \subseteq Sessions \ GameMasters
  BY <1>3 DEF ToSet
<1>6. Len(m_QueuedSessions) \in Nat /\ Len(m_QueuedSessions) <= Cardinality(Sessions)
  BY <1>2, <1>3, <1>4, LengthBound
<1>7. m_playerLimit \in Int
  BY QueueBoundsAssumption DEF SessionQueueTypeOK
<1>. QED
  BY <1>2, <1>3, <1>4, <1>5, <1>6, <1>7 DEF GetActiveSessionCount

\* A session that comes: it waits behind those who wait, or plays.
LEMMA AddSessionFact == ASSUME IInv, NEW a \in Accounts, AddSession(a) PROVE IInv'
<1> DEFINE wait == IsFull(a) /\ a \notin GameMasters
           queue == m_QueuedSessions
<1>1. /\ a \notin Sessions
      /\ m_sessions' = [m_sessions EXCEPT ![a] = "created"]
      /\ m_inQueue' = [m_inQueue EXCEPT ![a] = wait]
      /\ queue' = IF wait THEN Append(queue, a) ELSE queue
      /\ raised' = (raised /\ queue' # <<>>)
      /\ UNCHANGED <<told, m_playerLimit, changes, stopping>>
  BY DEF AddSession, Forget
<1>2. SessionQueueTypeOK
  BY DEF IInv
<1>3. Sessions' = Sessions \union {a}
  BY <1>1, <1>2, QueueBoundsAssumption DEF Sessions, SessionQueueTypeOK
<1>4. queue \in Seq(Accounts) /\ IsInjective(queue) /\ Len(queue) \in Nat
      /\ ToSet(queue) \subseteq Sessions \ GameMasters
  BY <1>2, Sizes
<1>5. \A i \in 1..Len(queue) : queue[i] # a
  BY <1>1, <1>4 DEF ToSet
<1>6. /\ queue' \in Seq(Accounts) /\ IsInjective(queue')
      /\ Len(queue') = Len(queue) + (IF wait THEN 1 ELSE 0)
      /\ ToSet(queue') = ToSet(queue) \union (IF wait THEN {a} ELSE {})
      /\ \A b : b # a => GetQueuedSessionPos(queue', b) = GetQueuedSessionPos(queue, b)
  BY <1>1, <1>4, <1>5, PositionAppended
<1> HIDE DEF wait, queue
<1>7. /\ m_inQueue' \in [Accounts -> BOOLEAN]
      /\ m_inQueue'[a] <=> wait
      /\ \A b \in Accounts \ {a} : m_inQueue'[b] = m_inQueue[b]
  BY <1>1, <1>2 DEF SessionQueueTypeOK, wait
<1>8. wait => a \notin GameMasters
  BY DEF wait
<1>9. SessionQueueTypeOK'
  <2>1. queue' \in Seq((Sessions \ GameMasters)')
    <3>1. ToSet(queue') \subseteq Sessions' \ GameMasters
      BY <1>3, <1>4, <1>6, <1>8
    <3>. QED
      BY <1>6, <3>1, SeqOfItsElements
  <2>2. m_sessions' \in [Accounts -> {"created", "selection", None}]
    BY <1>1, <1>2 DEF SessionQueueTypeOK
  <2>3. \A b \in Accounts : m_inQueue'[b] => b \in Sessions'
    BY <1>2, <1>3, <1>7 DEF SessionQueueTypeOK
  <2>4. ~stopping => ToSet(queue') = {b \in Accounts : m_inQueue'[b]}
    <3> SUFFICES ASSUME ~stopping, NEW b PROVE b \in ToSet(queue') <=> b \in Accounts /\ m_inQueue'[b]
      OBVIOUS
    <3>1. b \in ToSet(queue) <=> b \in Accounts /\ m_inQueue[b]
      BY <1>2 DEF SessionQueueTypeOK, queue
    <3>. QED
      BY <1>1, <1>4, <1>6, <1>7, <3>1
  <2>5. raised' \in BOOLEAN
    BY <1>1
  <2>. QED
    BY <1>1, <1>2, <1>6, <1>7, <2>1, <2>2, <2>3, <2>4, <2>5 DEF SessionQueueTypeOK, queue
<1>10. Remembers' /\ Untold'
  BY <1>1, <1>3 DEF IInv, Remembers, Untold, queue
<1>11. Waiters'
  <2>1. \A b \in ToSet(queue) : b \in Accounts /\ m_inQueue[b] /\ b # a
    BY <1>4, <1>5 DEF IInv, Waiters, ToSet, queue
  <2>2. \A b \in ToSet(queue') : m_inQueue'[b]
    BY <1>6, <1>7, <2>1
  <2>. QED
    BY <1>6, <2>2 DEF Waiters, ToSet, queue
<1>12. WaitsOnlyWhenFull'
  <2>1. Cardinality(Sessions') = Cardinality(Sessions) + 1
    BY <1>1, <1>2, <1>3, Sizes, FS_AddElement
  <2>2. GetActiveSessionCount' = GetActiveSessionCount + (IF wait THEN 0 ELSE 1)
    BY <1>2, <1>4, <1>6, <2>1, Sizes DEF GetActiveSessionCount, queue
  <2>3. wait /\ queue = <<>> => m_playerLimit > 0 /\ GetActiveSessionCount >= m_playerLimit
    <3>1. Sessions \ {a} = Sessions
      BY <1>1
    <3>2. GetActiveSessionCount = Cardinality(Sessions) - Len(queue)
      BY DEF GetActiveSessionCount, queue
    <3>3. queue = <<>> => Len(queue) = 0
      OBVIOUS
    <3>4. wait => m_playerLimit > 0 /\ Cardinality(Sessions) >= m_playerLimit
      <4>1. m_playerLimit \in Int /\ Cardinality(Sessions) \in Nat
        BY <1>2, Sizes
      <4>2. wait => GetPlayerAmountLimit > 0 /\ Cardinality(Sessions) >= GetPlayerAmountLimit
        BY <3>1 DEF wait, IsFull
      <4>. QED
        BY <4>1, <4>2 DEF GetPlayerAmountLimit
    <3>. QED
      BY <1>2, <3>2, <3>3, <3>4, Sizes
  <2>4. queue # <<>> => queue' # <<>>
    BY <1>4, <1>6
  <2>5. WaitsOnlyWhenFull
    BY DEF IInv
  <2> SUFFICES ASSUME queue' # <<>>, ~raised'
               PROVE  m_playerLimit' > 0 /\ GetActiveSessionCount' >= m_playerLimit'
    BY DEF WaitsOnlyWhenFull, queue
  <2>6. ~raised
    BY <1>1
  <2>7. queue # <<>> => m_playerLimit > 0 /\ GetActiveSessionCount >= m_playerLimit
    BY <2>5, <2>6 DEF WaitsOnlyWhenFull, queue
  <2>8. queue = <<>> => wait
    BY <1>1
  <2>9. m_playerLimit > 0 /\ GetActiveSessionCount >= m_playerLimit
    BY <2>3, <2>7, <2>8
  <2>10. m_playerLimit' = m_playerLimit /\ m_playerLimit \in Int /\ GetActiveSessionCount \in Nat
    BY <1>1, <1>2, Sizes
  <2>. QED
    BY <2>2, <2>9, <2>10
<1>13. ToldPlace'
  <2>1. told[a] = None
    BY <1>1 DEF IInv, Untold
  <2>. QED
    BY <1>1, <1>6, <2>1 DEF IInv, ToldPlace, queue
<1>. QED
  BY <1>9, <1>10, <1>11, <1>12, <1>13 DEF IInv

LEMMA FirstUpdateFact == ASSUME IInv, NEW a \in Accounts, FirstUpdate(a) PROVE IInv'
<1> DEFINE place == IF m_inQueue[a] THEN GetQueuedSessionPos(m_QueuedSessions, a) ELSE 0
<1>1. /\ m_sessions[a] = "created"
      /\ m_sessions' = [m_sessions EXCEPT ![a] = "selection"]
      /\ told' = [told EXCEPT ![a] = place]
      /\ UNCHANGED <<m_QueuedSessions, m_inQueue, m_playerLimit, changes, raised, stopping>>
  BY DEF FirstUpdate
<1>2. SessionQueueTypeOK
  BY DEF IInv
<1>3. Sessions' = Sessions /\ a \in Sessions
  BY <1>1, <1>2, QueueBoundsAssumption DEF Sessions, SessionQueueTypeOK
<1>4. GetQueuedSessionPos(m_QueuedSessions, a) \in 0..Len(m_QueuedSessions)
      /\ (GetQueuedSessionPos(m_QueuedSessions, a) = 0 <=> a \notin ToSet(m_QueuedSessions))
  BY <1>2, Sizes, Position DEF ToSet
<1>5. place \in 0..Cardinality(Accounts)
  BY <1>2, <1>4, Sizes
<1>6. ~stopping => place = GetQueuedSessionPos(m_QueuedSessions, a)
  BY <1>2, <1>4 DEF SessionQueueTypeOK
<1> HIDE DEF place
<1>7. told'[a] = place /\ \A b \in Accounts \ {a} : told'[b] = told[b]
  BY <1>1, <1>2 DEF SessionQueueTypeOK
<1>8. SessionQueueTypeOK'
  BY <1>1, <1>2, <1>3, <1>5 DEF SessionQueueTypeOK
<1>9. Untold' /\ ToldPlace'
  BY <1>1, <1>3, <1>6, <1>7 DEF IInv, Untold, ToldPlace
<1>10. GetActiveSessionCount' = GetActiveSessionCount
  BY <1>1, <1>3 DEF GetActiveSessionCount
<1>. QED
  BY <1>1, <1>8, <1>9, <1>10 DEF IInv, Remembers, Waiters, WaitsOnlyWhenFull

LEMMA SetPlayerLimitFact == ASSUME IInv, NEW limit \in Limits, SetPlayerLimit(limit) PROVE IInv'
<1>1. /\ changes < MaxChanges /\ changes' = changes + 1
      /\ m_playerLimit' = limit
      /\ raised' = (raised \/ (m_QueuedSessions # <<>> /\ (limit > m_playerLimit \/ limit <= 0)))
      /\ UNCHANGED <<m_sessions, m_QueuedSessions, m_inQueue, told, stopping>>
  BY DEF SetPlayerLimit
<1>2. SessionQueueTypeOK
  BY DEF IInv
<1>3. Sessions' = Sessions /\ GetActiveSessionCount' = GetActiveSessionCount
  BY <1>1 DEF Sessions, GetActiveSessionCount
<1>4. limit \in Int /\ m_playerLimit \in Int /\ GetActiveSessionCount \in Nat
  BY <1>2, Sizes, QueueBoundsAssumption
<1>5. changes' \in 0..MaxChanges /\ raised' \in BOOLEAN
  BY <1>1, <1>2, QueueBoundsAssumption DEF SessionQueueTypeOK
<1>6. SessionQueueTypeOK'
  BY <1>1, <1>2, <1>3, <1>5 DEF SessionQueueTypeOK
<1>7. WaitsOnlyWhenFull'
  <2> SUFFICES ASSUME m_QueuedSessions' # <<>>, ~raised'
               PROVE  m_playerLimit' > 0 /\ GetActiveSessionCount' >= m_playerLimit'
    BY DEF WaitsOnlyWhenFull
  <2>1. m_QueuedSessions # <<>> /\ ~raised /\ ~(limit > m_playerLimit) /\ ~(limit <= 0)
    BY <1>1
  <2>2. m_playerLimit > 0 /\ GetActiveSessionCount >= m_playerLimit
    BY <2>1 DEF IInv, WaitsOnlyWhenFull
  <2>. QED
    BY <1>1, <1>3, <1>4, <2>1, <2>2
<1>. QED
  BY <1>1, <1>3, <1>6, <1>7 DEF IInv, Remembers, Untold, Waiters, ToldPlace

LEMMA KickAllFact == ASSUME IInv, KickAll PROVE IInv'
<1>1. /\ stopping' = TRUE /\ m_QueuedSessions' = <<>>
      /\ raised' = (raised /\ m_QueuedSessions' # <<>>)
      /\ UNCHANGED <<m_sessions, m_inQueue, told, m_playerLimit, changes>>
  BY DEF KickAll, Forget
<1>2. Sessions' = Sessions
  BY <1>1 DEF Sessions
<1>3. m_QueuedSessions' \in Seq(Sessions' \ GameMasters) /\ IsInjective(m_QueuedSessions')
  BY <1>1 DEF IsInjective
<1>4. SessionQueueTypeOK'
  BY <1>1, <1>2, <1>3 DEF IInv, SessionQueueTypeOK
<1>5. Len(m_QueuedSessions') = 0 /\ ~raised'
  BY <1>1
<1>6. Remembers' /\ WaitsOnlyWhenFull'
  BY <1>1, <1>5 DEF Remembers, WaitsOnlyWhenFull
<1>7. Untold'
  BY <1>1, <1>2 DEF IInv, Untold
<1>8. Waiters'
  BY <1>5 DEF Waiters
<1>9. ToldPlace'
  BY <1>1 DEF ToldPlace
<1>. QED
  BY <1>4, <1>6, <1>7, <1>8, <1>9 DEF IInv

\* What EndSession computes: the queue without the session that ends, and who is let in.
At(a) == GetQueuedSessionPos(m_QueuedSessions, a)
Rest(a) == IF At(a) > 0 THEN RemoveAt(m_QueuedSessions, At(a)) ELSE m_QueuedSessions
Letting(a) == Rest(a) # <<>> /\ Admits(GetActiveSessionCount, At(a) > 0)
Entering(a) == IF Letting(a) THEN {Head(Rest(a))} ELSE {}

\* By how much the queue gets shorter: 1 for the session that ends, 1 for the one let in.
Leaves(a) == IF At(a) > 0 THEN 1 ELSE 0
Enters(a) == IF Entering(a) # {} THEN 1 ELSE 0

LEMMA Shortens == ASSUME NEW a
                  PROVE  /\ Leaves(a) \in 0..1 /\ (Leaves(a) = 1 <=> At(a) > 0)
                         /\ Enters(a) \in 0..1 /\ (Enters(a) = 1 <=> Entering(a) # {})
  BY DEF Leaves, Enters

\* The queue after the end of a session: its places, its length and its members.
LEMMA EndSessionQueue ==
  ASSUME SessionQueueTypeOK, NEW a \in Accounts, EndSession(a)
  PROVE  /\ m_QueuedSessions' \in Seq(Accounts) /\ IsInjective(m_QueuedSessions')
         /\ At(a) \in 0..Len(m_QueuedSessions)
         /\ At(a) = 0 <=> a \notin ToSet(m_QueuedSessions)
         /\ At(a) > 0 => m_QueuedSessions[At(a)] = a
         /\ Len(Rest(a)) = Len(m_QueuedSessions) - Leaves(a)
         /\ Len(m_QueuedSessions') = Len(Rest(a)) - Enters(a)
         /\ ToSet(Rest(a)) = ToSet(m_QueuedSessions) \ {a}
         /\ Entering(a) \subseteq ToSet(Rest(a))
         /\ ToSet(m_QueuedSessions') = ToSet(Rest(a)) \ Entering(a)
         /\ \A b : b # a =>
               GetQueuedSessionPos(Rest(a), b) =
                  IF At(a) > 0 /\ GetQueuedSessionPos(m_QueuedSessions, b) > At(a)
                  THEN GetQueuedSessionPos(m_QueuedSessions, b) - 1
                  ELSE GetQueuedSessionPos(m_QueuedSessions, b)
         /\ \A b : b \in Entering(a) => GetQueuedSessionPos(Rest(a), b) = 1
         /\ \A b : b \notin Entering(a) =>
               GetQueuedSessionPos(m_QueuedSessions', b) =
                  IF Entering(a) # {} /\ GetQueuedSessionPos(Rest(a), b) > 1
                  THEN GetQueuedSessionPos(Rest(a), b) - 1
                  ELSE GetQueuedSessionPos(Rest(a), b)
<1> DEFINE old == m_QueuedSessions
           rest == Rest(a)
           new == IF Letting(a) THEN Tail(rest) ELSE rest
<1>1. m_QueuedSessions' = new
  BY DEF EndSession, At, Rest, Letting
<1>2. old \in Seq(Accounts) /\ IsInjective(old) /\ Len(old) \in Nat
  BY Sizes
<1>3. /\ At(a) \in 0..Len(old)
      /\ At(a) = 0 <=> a \notin ToSet(old)
      /\ At(a) > 0 => old[At(a)] = a /\ At(a) \in 1..Len(old)
  <2>1. /\ At(a) \in 0..Len(old)
        /\ At(a) = 0 <=> \A i \in 1..Len(old) : old[i] # a
        /\ \A i \in 1..Len(old) : old[i] = a <=> At(a) = i
    BY <1>2, Position DEF At
  <2>2. a \in ToSet(old) <=> \E i \in 1..Len(old) : old[i] = a
    BY <1>2 DEF ToSet
  <2>. QED
    BY <1>2, <2>1, <2>2
<1>4. /\ rest \in Seq(Accounts) /\ IsInjective(rest)
      /\ Len(rest) = Len(old) - Leaves(a)
      /\ ToSet(rest) = ToSet(old) \ {a}
      /\ \A b : b # a => GetQueuedSessionPos(rest, b) =
                            IF At(a) > 0 /\ GetQueuedSessionPos(old, b) > At(a)
                            THEN GetQueuedSessionPos(old, b) - 1
                            ELSE GetQueuedSessionPos(old, b)
  <2>1. CASE At(a) > 0
    <3>1. rest = RemoveAt(old, At(a))
      BY <2>1 DEF Rest
    <3>2. rest \in Seq(Accounts) /\ Without(old, At(a), rest)
      BY <1>2, <1>3, <2>1, <3>1, RemoveAtWithout
    <3>3. /\ IsInjective(rest)
          /\ ToSet(rest) = ToSet(old) \ {old[At(a)]}
          /\ \A b : b # old[At(a)] =>
                GetQueuedSessionPos(rest, b) = IF GetQueuedSessionPos(old, b) > At(a)
                                               THEN GetQueuedSessionPos(old, b) - 1
                                               ELSE GetQueuedSessionPos(old, b)
      BY <1>2, <1>3, <2>1, <3>2, PositionWithout
    <3> HIDE DEF old, rest
    <3>. QED
      BY <1>3, <2>1, <3>2, <3>3 DEF Without, Leaves
  <2>2. CASE ~(At(a) > 0)
    <3>1. rest = old
      BY <2>2 DEF Rest
    <3>2. a \notin ToSet(old)
      BY <1>2, <1>3, <2>2
    <3> HIDE DEF old, rest
    <3>. QED
      BY <1>2, <2>2, <3>1, <3>2 DEF Leaves
  <2>. QED
    BY <2>1, <2>2
<1>5. /\ new \in Seq(Accounts) /\ IsInjective(new)
      /\ Len(new) = Len(rest) - Enters(a)
      /\ Entering(a) \subseteq ToSet(rest)
      /\ ToSet(new) = ToSet(rest) \ Entering(a)
      /\ \A b : b \in Entering(a) => GetQueuedSessionPos(rest, b) = 1
      /\ \A b : b \notin Entering(a) => GetQueuedSessionPos(new, b) =
                                           IF Entering(a) # {} /\ GetQueuedSessionPos(rest, b) > 1
                                           THEN GetQueuedSessionPos(rest, b) - 1
                                           ELSE GetQueuedSessionPos(rest, b)
  <2>1. CASE Letting(a)
    <3>1. rest # <<>> /\ new = Tail(rest) /\ Entering(a) = {Head(rest)} /\ Entering(a) # {}
      BY <2>1 DEF Letting, Entering
    <3>2. /\ new \in Seq(Accounts) /\ 1 \in 1..Len(rest) /\ Head(rest) = rest[1]
          /\ Without(rest, 1, new)
      BY <1>4, <3>1, TailWithout
    <3> HIDE DEF rest, new
    <3>3. /\ IsInjective(new)
          /\ ToSet(new) = ToSet(rest) \ {rest[1]}
          /\ \A b : b # rest[1] =>
                GetQueuedSessionPos(new, b) = IF GetQueuedSessionPos(rest, b) > 1
                                              THEN GetQueuedSessionPos(rest, b) - 1
                                              ELSE GetQueuedSessionPos(rest, b)
      BY <1>4, <3>2, PositionWithout
    <3>4. rest[1] \in ToSet(rest)
      BY <1>4, <3>2 DEF ToSet
    <3>5. GetQueuedSessionPos(rest, rest[1]) = 1
      BY <1>4, <3>2, Position
    <3>. QED
      BY <3>1, <3>2, <3>3, <3>4, <3>5 DEF Without, Enters
  <2>2. CASE ~Letting(a)
    <3>1. new = rest /\ Entering(a) = {}
      BY <2>2 DEF Entering
    <3> HIDE DEF rest, new
    <3>. QED
      BY <1>4, <3>1 DEF Enters
  <2>. QED
    BY <2>1, <2>2
<1> HIDE DEF rest, new
<1>. QED
  BY <1>1, <1>3, <1>4, <1>5 DEF rest

\* How the players that do not wait change in number when a session ends.
LEMMA EndSessionCount ==
  ASSUME SessionQueueTypeOK, NEW a \in Accounts, EndSession(a)
  PROVE  GetActiveSessionCount' = GetActiveSessionCount - 1 + Leaves(a) + Enters(a)
<1>1. m_sessions[a] = "selection" /\ m_sessions' = [m_sessions EXCEPT ![a] = None]
  BY DEF EndSession
<1>2. Sessions' = Sessions \ {a} /\ a \in Sessions
  BY <1>1, QueueBoundsAssumption DEF Sessions, SessionQueueTypeOK
<1>3. Cardinality(Sessions') = Cardinality(Sessions) - 1 /\ Cardinality(Sessions) \in Nat
  BY <1>2, Sizes, FS_RemoveElement
<1>4. /\ Len(Rest(a)) = Len(m_QueuedSessions) - Leaves(a)
      /\ Len(m_QueuedSessions') = Len(Rest(a)) - Enters(a)
  BY EndSessionQueue
<1>5. Len(m_QueuedSessions) \in Nat
  BY Sizes
<1>6. GetActiveSessionCount' = Cardinality(Sessions') - Len(m_QueuedSessions')
  BY DEF GetActiveSessionCount
<1>7. GetActiveSessionCount = Cardinality(Sessions) - Len(m_QueuedSessions)
  BY DEF GetActiveSessionCount
<1>. QED
  <2>1. \A c, l \in Nat, x, y \in 0..1 : (c - 1) - (l - x - y) = (c - l) - 1 + x + y
    OBVIOUS
  <2>2. Len(m_QueuedSessions') = Len(m_QueuedSessions) - Leaves(a) - Enters(a)
    BY <1>4
  <2>3. Leaves(a) \in 0..1 /\ Enters(a) \in 0..1
    BY Shortens
  <2>4. GetActiveSessionCount' = (Cardinality(Sessions) - 1) - (Len(m_QueuedSessions) - Leaves(a) - Enters(a))
    BY <1>3, <1>6, <2>2, Zenon
  <2>5. (Cardinality(Sessions) - 1) - (Len(m_QueuedSessions) - Leaves(a) - Enters(a))
        = (Cardinality(Sessions) - Len(m_QueuedSessions)) - 1 + Leaves(a) + Enters(a)
    BY <1>3, <1>5, <2>1, <2>3, Zenon
  <2>. QED
    BY <1>7, <2>4, <2>5, Zenon

\* A session that ends, of one who played or who waited.
LEMMA EndSessionFact == ASSUME IInv, NEW a \in Accounts, EndSession(a) PROVE IInv'
<1> DEFINE old == m_QueuedSessions
           new == m_QueuedSessions'
           place(b) == GetQueuedSessionPos(new, b)
           first == FirstTold(At(a), Letting(a))
<1>1. SessionQueueTypeOK
  BY DEF IInv
<1>2. /\ m_sessions[a] = "selection"
      /\ m_sessions' = [m_sessions EXCEPT ![a] = None]
      /\ m_inQueue' = [b \in Accounts |-> m_inQueue[b] /\ b \notin {a} \union Entering(a)]
      /\ raised' = (raised /\ new # <<>>)
      /\ UNCHANGED <<m_playerLimit, changes, stopping>>
  BY DEF EndSession, Forget, At, Rest, Letting, Entering
<1>3. told' = [b \in Accounts |->
                 IF b = a THEN None
                 ELSE IF b \in Entering(a) THEN 0
                 ELSE IF place(b) >= first THEN place(b) ELSE told[b]]
  BY DEF EndSession, At, Rest, Letting, Entering
<1>4. Sessions' = Sessions \ {a} /\ a \in Sessions
  BY <1>1, <1>2, QueueBoundsAssumption DEF Sessions, SessionQueueTypeOK
<1>5. old \in Seq(Accounts) /\ IsInjective(old) /\ ToSet(old) \subseteq Sessions \ GameMasters
      /\ Len(old) \in Nat
  BY <1>1, Sizes
<1>6. /\ new \in Seq(Accounts) /\ IsInjective(new)
      /\ At(a) \in 0..Len(old)
      /\ Len(new) = Len(old) - Leaves(a) - Enters(a)
      /\ ToSet(Rest(a)) = ToSet(old) \ {a}
      /\ Entering(a) \subseteq ToSet(old) \ {a}
      /\ ToSet(new) = (ToSet(old) \ {a}) \ Entering(a)
  <2>1. /\ new \in Seq(Accounts) /\ IsInjective(new)
        /\ At(a) \in 0..Len(old)
        /\ Len(Rest(a)) = Len(old) - Leaves(a)
        /\ Len(new) = Len(Rest(a)) - Enters(a)
        /\ ToSet(Rest(a)) = ToSet(old) \ {a}
        /\ Entering(a) \subseteq ToSet(Rest(a))
        /\ ToSet(new) = ToSet(Rest(a)) \ Entering(a)
    BY <1>1, EndSessionQueue
  <2> HIDE DEF old, new
  <2>. QED
    BY <2>1
<1>7. /\ m_inQueue' \in [Accounts -> BOOLEAN]
      /\ \A b \in Accounts : m_inQueue'[b] <=> m_inQueue[b] /\ b # a /\ b \notin Entering(a)
  BY <1>2
<1>8. \A b : place(b) \in 0..Len(new) /\ (place(b) = 0 <=> b \notin ToSet(new))
  <2> TAKE b
  <2>1. /\ place(b) \in 0..Len(new)
        /\ place(b) = 0 <=> \A i \in 1..Len(new) : new[i] # b
    BY <1>6, Position
  <2>2. b \in ToSet(new) <=> \E i \in 1..Len(new) : new[i] = b
    BY <1>6 DEF ToSet
  <2>. QED
    BY <2>1, <2>2
<1>9. /\ Len(new) \in Nat /\ Len(new) <= Len(old)
      /\ Len(new) <= Cardinality(Accounts) /\ Cardinality(Accounts) \in Nat
  <2>1. Len(old) <= Cardinality(Accounts) /\ Cardinality(Accounts) \in Nat
    BY <1>1, Sizes
  <2>2. Len(new) \in Nat
    BY <1>6
  <2> HIDE DEF old, new
  <2>3. Len(new) <= Len(old)
    BY <1>5, <1>6, <2>2, Shortens
  <2>. QED
    BY <1>5, <2>1, <2>2, <2>3
<1>10. /\ first = IF Entering(a) # {} THEN 1 ELSE IF At(a) > 0 THEN At(a) ELSE Len(old) + 1
       /\ first \in Nat /\ first >= 1
  <2>1. Letting(a) <=> Entering(a) # {}
    BY DEF Entering
  <2>2. first = IF Entering(a) # {} THEN 1 ELSE IF At(a) > 0 THEN At(a) ELSE Len(old) + 1
    BY <2>1 DEF FirstTold
  <2>. QED
    BY <1>5, <1>6, <2>2
<1>11. /\ told'[a] = None
       /\ \A b \in Accounts \ {a} :
            told'[b] = IF b \in Entering(a) THEN 0
                       ELSE IF place(b) >= first THEN place(b) ELSE told[b]
  BY <1>3
<1> HIDE DEF place, first
<1>12. SessionQueueTypeOK'
  <2>1. new \in Seq((Sessions \ GameMasters)')
    <3>1. ToSet(new) \subseteq Sessions' \ GameMasters
      BY <1>4, <1>5, <1>6
    <3>. QED
      BY <1>6, <3>1, SeqOfItsElements
  <2>2. m_sessions' \in [Accounts -> {"created", "selection", None}]
    BY <1>1, <1>2 DEF SessionQueueTypeOK
  <2>3. \A b \in Accounts : m_inQueue'[b] => b \in Sessions'
    BY <1>1, <1>4, <1>7 DEF SessionQueueTypeOK
  <2>4. told' \in [Accounts -> 0..Cardinality(Accounts) \union {None}]
    <3>1. \A b \in Accounts : told[b] \in 0..Cardinality(Accounts) \union {None}
      BY <1>1 DEF SessionQueueTypeOK
    <3>2. \A b : place(b) \in 0..Cardinality(Accounts)
      BY <1>8, <1>9
    <3>3. \A b \in Accounts : told'[b] \in 0..Cardinality(Accounts) \union {None}
      BY <1>9, <1>11, <3>1, <3>2
    <3>. QED
      BY <1>3, <3>3
  <2>5. ~stopping => ToSet(new) = {b \in Accounts : m_inQueue'[b]}
    <3> SUFFICES ASSUME ~stopping, NEW b PROVE b \in ToSet(new) <=> b \in Accounts /\ m_inQueue'[b]
      OBVIOUS
    <3>1. b \in ToSet(old) <=> b \in Accounts /\ m_inQueue[b]
      BY <1>1 DEF SessionQueueTypeOK
    <3>2. b \in ToSet(new) <=> b \in ToSet(old) /\ b # a /\ b \notin Entering(a)
      BY <1>6
    <3>. QED
      BY <1>7, <3>1, <3>2
  <2>6. raised' \in BOOLEAN
    BY <1>2
  <2>. QED
    BY <1>1, <1>2, <1>6, <1>7, <2>1, <2>2, <2>3, <2>4, <2>5, <2>6 DEF SessionQueueTypeOK
<1>13. Remembers'
  BY <1>2 DEF Remembers
<1>14. Untold'
  <2> SUFFICES ASSUME NEW b \in Accounts, b \notin Sessions' PROVE told'[b] = None
    BY DEF Untold
  <2>1. CASE b = a
    BY <1>11, <2>1
  <2>2. CASE b # a
    <3>1. b \notin Sessions /\ told[b] = None
      BY <1>4, <2>2 DEF IInv, Untold
    <3>2. b \notin ToSet(old) /\ b \notin Entering(a) /\ b \notin ToSet(new)
      BY <1>5, <1>6, <3>1
    <3>3. place(b) = 0
      BY <1>8, <3>2
    <3>. QED
      BY <1>10, <1>11, <2>2, <3>1, <3>2, <3>3
  <2>. QED
    BY <2>1, <2>2
<1>15. Waiters'
  <2>1. \A b \in ToSet(old) : b \in Accounts /\ m_inQueue[b]
    BY <1>5 DEF IInv, Waiters, ToSet
  <2>2. \A b \in ToSet(new) : m_inQueue'[b]
    BY <1>6, <1>7, <2>1
  <2>3. \A i \in 1..Len(new) : new[i] \in ToSet(new)
    BY <1>6 DEF ToSet
  <2>. QED
    BY <2>2, <2>3 DEF Waiters
<1>16. WaitsOnlyWhenFull'
  <2> SUFFICES ASSUME new # <<>>, ~raised'
               PROVE  m_playerLimit' > 0 /\ GetActiveSessionCount' >= m_playerLimit'
    BY DEF WaitsOnlyWhenFull
  <2>1. ~raised
    BY <1>2
  <2>2. Len(old) # 0
    <3>1. Len(new) # 0
      BY <1>6
    <3>. QED
      BY <1>5, <1>9, <3>1
  <2>3. m_playerLimit > 0 /\ GetActiveSessionCount >= m_playerLimit
    BY <2>1, <2>2 DEF IInv, WaitsOnlyWhenFull
  <2>4. m_playerLimit' = m_playerLimit /\ m_playerLimit \in Int /\ GetActiveSessionCount \in Nat
    BY <1>1, <1>2, Sizes
  <2>5. GetActiveSessionCount' = GetActiveSessionCount - 1 + Leaves(a) + Enters(a)
    BY <1>1, EndSessionCount
  <2>6. CASE At(a) > 0
    BY <2>3, <2>4, <2>5, <2>6, Shortens
  <2>7. CASE ~(At(a) > 0)
    <3>1. Rest(a) = old /\ old # <<>>
      BY <2>2, <2>7 DEF Rest
    <3>2. Entering(a) = {} => ~Admits(GetActiveSessionCount, At(a) > 0)
      BY <3>1 DEF Letting, Entering
    <3>3. Entering(a) = {} => ~(GetActiveSessionCount - 1 < m_playerLimit)
      BY <2>3, <2>4, <2>7, <3>2 DEF Admits
    <3>. QED
      BY <2>3, <2>4, <2>5, <2>7, <3>3, Shortens
  <2>. QED
    BY <2>6, <2>7
<1>17. ToldPlace'
  <2> SUFFICES ASSUME ~stopping, NEW b \in Accounts, told'[b] # None PROVE told'[b] = place(b)
    BY <1>2 DEF ToldPlace, place
  <2>1. b # a
    BY <1>11
  <2>2. CASE b \in Entering(a)
    BY <1>6, <1>8, <1>11, <2>1, <2>2
  <2>3. CASE b \notin Entering(a) /\ ~(place(b) >= first)
    <3> DEFINE was == GetQueuedSessionPos(old, b)
               mid == GetQueuedSessionPos(Rest(a), b)
    <3>1. told'[b] = told[b] /\ told[b] = was
      BY <1>11, <2>1, <2>3 DEF IInv, ToldPlace
    <3>2. was \in 0..Len(old) /\ (was = 0 <=> b \notin ToSet(old))
      BY <1>5, Position DEF ToSet
    <3>3. /\ mid = IF At(a) > 0 /\ was > At(a) THEN was - 1 ELSE was
          /\ place(b) = IF Entering(a) # {} /\ mid > 1 THEN mid - 1 ELSE mid
      BY <1>1, <2>1, <2>3, EndSessionQueue DEF place
    <3>4. place(b) = 0 => was = 0
      BY <1>6, <1>8, <2>1, <2>3, <3>2
    <3> HIDE DEF was, mid
    <3>5. place(b) \in 0..Len(new)
      BY <1>8
    <3>6. CASE Entering(a) # {}
      <4>1. place(b) = 0
        BY <1>9, <1>10, <2>3, <3>5, <3>6
      <4>. QED
        BY <3>1, <3>4, <4>1
    <3>7. CASE Entering(a) = {}
      <4>1. place(b) = mid
        BY <3>3, <3>7
      <4>2. At(a) > 0 => ~(place(b) >= At(a))
        BY <1>10, <2>3, <3>7
      <4>3. mid = was
        BY <1>5, <1>6, <3>2, <3>3, <4>1, <4>2
      <4>. QED
        BY <3>1, <4>1, <4>3
    <3>. QED
      BY <3>6, <3>7
  <2>. QED
    BY <1>11, <2>1, <2>2, <2>3
<1>. QED
  BY <1>12, <1>13, <1>14, <1>15, <1>16, <1>17 DEF IInv

-----------------------------------------------------------------------------

LEMMA InitFact == Init => IInv
<1> SUFFICES ASSUME Init PROVE IInv
  OBVIOUS
<1>1. /\ m_sessions = [a \in Accounts |-> None]
      /\ m_QueuedSessions = <<>>
      /\ m_inQueue = [a \in Accounts |-> FALSE]
      /\ told = [a \in Accounts |-> None]
      /\ m_playerLimit \in Limits
      /\ changes = 0 /\ raised = FALSE /\ stopping = FALSE
  BY DEF Init
<1>2. m_QueuedSessions \in Seq(Sessions \ GameMasters) /\ IsInjective(m_QueuedSessions)
      /\ Len(m_QueuedSessions) = 0 /\ ToSet(m_QueuedSessions) = {}
  BY <1>1 DEF IsInjective, ToSet
<1>3. SessionQueueTypeOK
  <2>1. Cardinality(Accounts) \in Nat
    BY QueueSetsAssumption, FS_CardinalityType
  <2>2. m_sessions \in [Accounts -> {"created", "selection", None}]
        /\ m_inQueue \in [Accounts -> BOOLEAN]
        /\ told \in [Accounts -> 0..Cardinality(Accounts) \union {None}]
    BY <1>1
  <2>3. changes \in 0..MaxChanges
    BY <1>1, QueueBoundsAssumption
  <2>4. raised \in BOOLEAN /\ stopping \in BOOLEAN /\ \A a \in Accounts : ~m_inQueue[a]
    BY <1>1
  <2>5. ToSet(m_QueuedSessions) = {a \in Accounts : m_inQueue[a]}
    BY <1>2, <2>4
  <2>. QED
    BY <1>1, <1>2, <2>2, <2>3, <2>4, <2>5 DEF SessionQueueTypeOK
<1>. QED
  BY <1>1, <1>2, <1>3 DEF IInv, Remembers, Untold, Waiters, WaitsOnlyWhenFull, ToldPlace

LEMMA StepFact == IInv /\ [Next]_vars => IInv'
<1> SUFFICES ASSUME IInv, [Next]_vars PROVE IInv'
  OBVIOUS
<1>1. ASSUME NEW a \in Accounts, AddSession(a) PROVE IInv'
  BY <1>1, AddSessionFact
<1>2. ASSUME NEW a \in Accounts, FirstUpdate(a) PROVE IInv'
  BY <1>2, FirstUpdateFact
<1>3. ASSUME NEW a \in Accounts, EndSession(a) PROVE IInv'
  BY <1>3, EndSessionFact
<1>4. ASSUME NEW limit \in Limits, SetPlayerLimit(limit) PROVE IInv'
  BY <1>4, SetPlayerLimitFact
<1>5. CASE KickAll
  BY <1>5, KickAllFact
<1>6. CASE UNCHANGED vars
  <2>1. Sessions' = Sessions
    BY <1>6 DEF vars, Sessions
  <2>. QED
    BY <1>6, <2>1 DEF vars, IInv, SessionQueueTypeOK, Remembers, Untold, Waiters,
                      WaitsOnlyWhenFull, GetActiveSessionCount, ToldPlace
<1>. QED
  BY <1>1, <1>2, <1>3, <1>4, <1>5, <1>6 DEF Next

\* The inductive invariant holds in every state: besides the three properties below, what is
\* remembered of a raised limit is about those who wait now, an account without a session was
\* told nothing and all who are in m_QueuedSessions have m_inQueue set.
THEOREM QueueInductive == Spec => []IInv
<1>. QED
  BY InitFact, StepFact, PTL DEF Spec

\* World::m_QueuedSessions holds sessions that exist and wait, none of a game master, none
\* twice, and until the server stops all of them: no packet of a waiting client is handled
\* and no session that was deleted is left in the queue.
THEOREM QueueTypes == Spec => []SessionQueueTypeOK
<1>1. IInv => SessionQueueTypeOK
  BY DEF IInv
<1>. QED
  BY <1>1, QueueInductive, PTL

\* AddSession_ and RemoveQueuedSession leave nobody waiting for a place that is free, unless
\* the limit was raised while somebody waited: the realm is full whenever somebody waits.
THEOREM NobodyWaitsForAFreePlace == Spec => []WaitsOnlyWhenFull
<1>1. IInv => WaitsOnlyWhenFull
  BY DEF IInv
<1>. QED
  BY <1>1, QueueInductive, PTL

\* The places RemoveQueuedSession sends again are all that changed: until the server stops
\* every client was told the place it has, or that it is in.
THEOREM ToldRight == Spec => []ToldPlace
<1>1. IInv => ToldPlace
  BY DEF IInv
<1>. QED
  BY <1>1, QueueInductive, PTL

\* A session that comes plays only if the realm was not full.
LEMMA AddSessionAdmits ==
  ASSUME IInv, NEW a \in Accounts, AddSession(a), NEW b \in Accounts, b \notin Playing, b \in Playing'
  PROVE  b \notin Sessions /\ (m_playerLimit > 0 => GetActiveSessionCount' <= m_playerLimit)
<1> DEFINE wait == IsFull(a) /\ a \notin GameMasters
<1>1. /\ a \notin Sessions
      /\ m_sessions' = [m_sessions EXCEPT ![a] = "created"]
      /\ m_inQueue' = [m_inQueue EXCEPT ![a] = wait]
      /\ m_QueuedSessions' = IF wait THEN Append(m_QueuedSessions, a) ELSE m_QueuedSessions
  BY DEF AddSession
<1>2. SessionQueueTypeOK
  BY DEF IInv
<1> HIDE DEF wait
<1>3. b = a
  BY <1>1, <1>2 DEF Playing, Sessions, SessionQueueTypeOK
<1>4. ~wait /\ b \notin GameMasters
  BY <1>1, <1>2, <1>3 DEF Playing, SessionQueueTypeOK
<1>5. ~IsFull(a)
  BY <1>3, <1>4 DEF wait
<1>6. Sessions' = Sessions \union {a}
  BY <1>1, <1>2, QueueBoundsAssumption DEF Sessions, SessionQueueTypeOK
<1>7. Cardinality(Sessions') = Cardinality(Sessions) + 1
  BY <1>1, <1>2, <1>6, Sizes, FS_AddElement
<1>8. GetActiveSessionCount' = Cardinality(Sessions) + 1 - Len(m_QueuedSessions)
  <2>1. GetActiveSessionCount' = Cardinality(Sessions') - Len(m_QueuedSessions')
    BY DEF GetActiveSessionCount
  <2>2. m_QueuedSessions' = m_QueuedSessions
    BY <1>1, <1>4
  <2>3. Len(m_QueuedSessions') = Len(m_QueuedSessions)
    BY <2>2
  <2>4. Cardinality(Sessions') - Len(m_QueuedSessions') = Cardinality(Sessions) + 1 - Len(m_QueuedSessions)
    BY <1>2, <1>7, <2>3, Sizes
  <2>. QED
    BY <2>1, <2>4
<1>9. /\ Cardinality(Sessions) \in Nat /\ Len(m_QueuedSessions) \in Nat
      /\ m_playerLimit \in Int
  BY <1>2, Sizes
<1>10. Sessions \ {a} = Sessions
  BY <1>1
<1>11. m_playerLimit > 0 => ~(Cardinality(Sessions) >= m_playerLimit)
  BY <1>5, <1>9, <1>10 DEF IsFull, GetPlayerAmountLimit
<1>. QED
  BY <1>1, <1>3, <1>8, <1>9, <1>11

\* The end of a session lets in the first that waits besides it, and only below the limit.
LEMMA EndSessionAdmits ==
  ASSUME IInv, NEW a \in Accounts, EndSession(a), NEW b \in Accounts, b \notin Playing, b \in Playing'
  PROVE  /\ m_playerLimit > 0 => GetActiveSessionCount' <= m_playerLimit
         /\ \A i \in 1..(GetQueuedSessionPos(m_QueuedSessions, b) - 1) : m_QueuedSessions[i] \notin Sessions'
<1> DEFINE was == GetQueuedSessionPos(m_QueuedSessions, b)
<1>1. SessionQueueTypeOK
  BY DEF IInv
<1>2. /\ m_sessions[a] = "selection"
      /\ m_sessions' = [m_sessions EXCEPT ![a] = None]
      /\ m_inQueue' = [c \in Accounts |-> m_inQueue[c] /\ c \notin {a} \union Entering(a)]
  BY DEF EndSession, At, Rest, Letting, Entering
<1>3. Sessions' = Sessions \ {a} /\ a \in Sessions
  BY <1>1, <1>2, QueueBoundsAssumption DEF Sessions, SessionQueueTypeOK
<1>4. b \in Entering(a) /\ b # a
  BY <1>2, <1>3 DEF Playing
<1>5. Letting(a) /\ Entering(a) # {}
  BY <1>4 DEF Entering
<1>6. GetActiveSessionCount' = GetActiveSessionCount + Leaves(a)
  <2>1. GetActiveSessionCount' = GetActiveSessionCount - 1 + Leaves(a) + Enters(a)
    BY <1>1, EndSessionCount
  <2>2. GetActiveSessionCount \in Nat
    BY <1>1, Sizes
  <2>. QED
    BY <1>5, <2>1, <2>2, Shortens
<1>7. GetActiveSessionCount \in Nat /\ m_playerLimit \in Int /\ Len(m_QueuedSessions) \in Nat
      /\ m_QueuedSessions \in Seq(Accounts) /\ IsInjective(m_QueuedSessions)
  BY <1>1, Sizes
<1>8. /\ At(a) \in 0..Len(m_QueuedSessions)
      /\ At(a) > 0 => m_QueuedSessions[At(a)] = a
      /\ 1 = IF At(a) > 0 /\ was > At(a) THEN was - 1 ELSE was
  <2>1. /\ GetQueuedSessionPos(Rest(a), b) = 1
        /\ GetQueuedSessionPos(Rest(a), b) = IF At(a) > 0 /\ was > At(a) THEN was - 1 ELSE was
    BY <1>1, <1>4, EndSessionQueue
  <2>2. /\ At(a) \in 0..Len(m_QueuedSessions)
        /\ At(a) > 0 => m_QueuedSessions[At(a)] = a
    BY <1>1, EndSessionQueue
  <2>. QED
    BY <2>1, <2>2
<1>9. was \in 0..Len(m_QueuedSessions)
  BY <1>7, Position
<1>10. m_playerLimit > 0 => GetActiveSessionCount' <= m_playerLimit
  BY <1>5, <1>6, <1>7, <1>8, Shortens DEF Letting, Admits
<1> HIDE DEF was
<1>11. ASSUME NEW i \in 1..(was - 1) PROVE m_QueuedSessions[i] \notin Sessions'
  <2>1. At(a) = 1 /\ i = 1
    BY <1>7, <1>8, <1>9
  <2>. QED
    BY <1>3, <1>8, <2>1
<1>. QED
  BY <1>10, <1>11 DEF was

\* AddSession_ and RemoveQueuedSession let no player in above the limit in force, and of those
\* who wait only the first, or the second when it is the first that ends.
THEOREM AdmissionInTurn == Spec => AdmitsWithinLimit
<1> DEFINE Fair == \A a \in Accounts : a \notin Playing /\ a \in Playing' =>
                      /\ m_playerLimit > 0 => GetActiveSessionCount' <= m_playerLimit
                      /\ a \in Sessions => \A i \in 1..GetQueuedSessionPos(m_QueuedSessions, a) - 1 :
                                              m_QueuedSessions[i] \notin Sessions'
<1>1. IInv /\ [Next]_vars => [Fair]_vars
  <2> SUFFICES ASSUME IInv, [Next]_vars,
                      NEW b \in Accounts, b \notin Playing, b \in Playing'
               PROVE  /\ m_playerLimit > 0 => GetActiveSessionCount' <= m_playerLimit
                      /\ b \in Sessions => \A i \in 1..GetQueuedSessionPos(m_QueuedSessions, b) - 1 :
                                              m_QueuedSessions[i] \notin Sessions'
    OBVIOUS
  <2>1. ASSUME NEW a \in Accounts, FirstUpdate(a) PROVE FALSE
    <3>1. m_inQueue' = m_inQueue /\ Sessions' = Sessions
      BY <2>1, QueueBoundsAssumption DEF FirstUpdate, IInv, SessionQueueTypeOK, Sessions
    <3>. QED
      BY <3>1 DEF Playing
  <2>2. ASSUME NEW limit \in Limits, SetPlayerLimit(limit) PROVE FALSE
    BY <2>2 DEF SetPlayerLimit, Playing, Sessions
  <2>3. CASE KickAll
    BY <2>3 DEF KickAll, Playing, Sessions
  <2>4. CASE UNCHANGED vars
    BY <2>4 DEF vars, Playing, Sessions
  <2>5. ASSUME NEW a \in Accounts, AddSession(a)
        PROVE  b \notin Sessions /\ (m_playerLimit > 0 => GetActiveSessionCount' <= m_playerLimit)
    BY <2>5, AddSessionAdmits
  <2>6. ASSUME NEW a \in Accounts, EndSession(a)
        PROVE  /\ m_playerLimit > 0 => GetActiveSessionCount' <= m_playerLimit
               /\ \A i \in 1..(GetQueuedSessionPos(m_QueuedSessions, b) - 1) :
                     m_QueuedSessions[i] \notin Sessions'
    BY <2>6, EndSessionAdmits
  <2>. QED
    BY <2>1, <2>2, <2>3, <2>4, <2>5, <2>6 DEF Next
<1>2. [][Fair]_vars <=> AdmitsWithinLimit
  BY DEF AdmitsWithinLimit
<1> HIDE DEF Fair
<1>. QED
  BY <1>1, <1>2, QueueInductive, PTL DEF Spec

=============================================================================
