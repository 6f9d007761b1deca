--------------------------- MODULE SqlDelayProofs ---------------------------
(***************************************************************************)
(* What the asynchronous database promises, for any number of threads and  *)
(* operations: its locks are held where the code holds them, it is one     *)
(* queue, and a query sees the writes its thread had delayed before it.    *)
(***************************************************************************)
EXTENDS SqlDelay, TLAPS

\* The statements of a request are its own; a query writes nothing.
WellFormed(op) == /\ op \in Operation
                  /\ op.kind = "query" => op.stmts = <<>>
                  /\ \A j \in 1..Len(op.stmts) : Key(op.stmts[j]) = Key(op)

\* What the delay thread holds at each of its places: a batch only inside the loop of
\* ProcessRequests, and in an open transaction the first statements of the request.
Places == /\ delay \in {"statements", "add"} => batch # <<>>
          /\ delay \in {"loop", "lock", "move", "exited"} => batch = <<>>
          /\ delay = "statements" =>
                /\ Len(open) <= Len(Head(batch).stmts)
                /\ \A i \in 1..Len(open) : open[i] = Head(batch).stmts[i]
          /\ delay = "add" => Head(batch).kind = "query"

Requests == \A i \in 1..Len(todo) : WellFormed(todo[i])

Transactions == \A c \in Clients : transaction[c] # None =>
                   \A j \in 1..Len(transaction[c].stmts) :
                      Key(transaction[c].stmts[j]) = <<c, transaction[c].op>>

\* A write k of client c is on its way in front of place i of the queue.
Before(queue, i, c, k) == \E j \in 1..(i - 1) : /\ queue[j].by = c /\ queue[j].stmts # <<>>
                                                /\ Key(queue[j]) = k

handled == [c \in Clients |-> Handled(c)]

\* What a request relies on has had its effect, or is in front of it.
Ordered == \A i \in 1..Len(todo) : \A k \in todo[i].after :
              k \in handled[todo[i].by] \/ Before(todo, i, todo[i].by, k)

IInv == SqlTypeOK /\ Places /\ Requests /\ Transactions /\ Ordered /\ ReadYourWrites

-----------------------------------------------------------------------------
(* Changes of the queue and of the database.                               *)

LEMMA TailOfConcat ==
  ASSUME NEW S, NEW s \in Seq(S), NEW t \in Seq(S), s # <<>>
  PROVE  /\ s \o t # <<>> /\ Head(s \o t) = Head(s) /\ Tail(s \o t) = Tail(s) \o t
         /\ Tail(s) \in Seq(S)
  OBVIOUS

\* What has had its effect keeps it.
LEMMA HandledGrows ==
  ASSUME \A i \in 1..Len(db) : i \in 1..Len(db') /\ db'[i] = db[i], lost \subseteq lost'
  PROVE  \A c \in Clients : handled[c] \subseteq handled'[c]
  BY DEF handled, Handled

LEMMA TodoType ==
  ASSUME SqlTypeOK
  PROVE  /\ todo \in Seq(Operation) /\ Len(todo) = Len(batch) + Len(m_sqlQueue)
         /\ batch # <<>> => todo # <<>> /\ Head(todo) = Head(batch)
         /\ \A i \in 1..Len(todo) : todo[i] \in Operation /\ todo[i].by \in Clients
<1>1. todo \in Seq(Operation) /\ Len(todo) = Len(batch) + Len(m_sqlQueue)
  BY DEF SqlTypeOK, todo
<1>2. batch # <<>> => todo # <<>> /\ Head(todo) = Head(batch)
  BY TailOfConcat DEF SqlTypeOK, todo
<1>3. \A i \in 1..Len(todo) : todo[i] \in Operation
  BY <1>1
<1>. QED
  BY <1>1, <1>2, <1>3 DEF Operation

\* A request is delayed.
LEMMA Delayed ==
  ASSUME IInv, NEW op, WellFormed(op), Delay(op), UNCHANGED <<batch, db, lost>>,
         \A k \in op.after : k \in handled[op.by] \/ Before(todo, Len(todo) + 1, op.by, k)
  PROVE  /\ todo' = Append(todo, op) /\ m_sqlQueue' \in Seq(Operation)
         /\ Requests' /\ Ordered'
<1>1. op \in Operation /\ todo \in Seq(Operation)
  BY TodoType DEF WellFormed, IInv
<1>2. todo' = Append(todo, op) /\ m_sqlQueue' \in Seq(Operation)
  <2>1. batch \in Seq(Operation) /\ m_sqlQueue \in Seq(Operation)
    BY DEF IInv, SqlTypeOK
  <2>2. batch \o Append(m_sqlQueue, op) = Append(batch \o m_sqlQueue, op)
    BY <1>1, <2>1
  <2>. QED
    BY <1>1, <2>1, <2>2 DEF Delay, todo
<1>3. /\ Len(todo') = Len(todo) + 1 /\ todo'[Len(todo) + 1] = op
      /\ \A i \in 1..Len(todo) : todo'[i] = todo[i]
  BY <1>1, <1>2
<1>4. \A i \in 1..Len(todo') : WellFormed(todo'[i])
  BY <1>1, <1>3 DEF IInv, Requests
<1>5. handled' = handled
  BY DEF handled, Handled
<1>6. Ordered'
  <2> SUFFICES ASSUME NEW i \in 1..Len(todo'), NEW k \in todo'[i].after
               PROVE  \/ k \in handled'[todo'[i].by]
                      \/ Before(todo', i, todo'[i].by, k)
    BY DEF Ordered
  <2>1. CASE i = Len(todo) + 1
    BY <1>1, <1>3, <1>5, <2>1 DEF Before
  <2>2. CASE i \in 1..Len(todo)
    BY <1>1, <1>3, <1>5, <2>2 DEF Before, IInv, Ordered
  <2>. QED
    BY <1>1, <1>3, <2>1, <2>2
<1>. QED
  BY <1>2, <1>4, <1>6 DEF Requests

\* The request at the head has been executed, and if it writes it is handled.
LEMMA Taken ==
  ASSUME IInv, batch # <<>>, batch' = Tail(batch), m_sqlQueue' = m_sqlQueue,
         \A c \in Clients : handled[c] \subseteq handled'[c],
         Head(batch).stmts # <<>> => Key(Head(batch)) \in handled'[Head(batch).by]
  PROVE  /\ todo # <<>> /\ todo' = Tail(todo) /\ batch' \in Seq(Operation)
         /\ Requests' /\ Ordered'
<1>1. /\ todo \in Seq(Operation) /\ todo # <<>> /\ Head(todo) = Head(batch)
      /\ todo' = Tail(todo) /\ batch' \in Seq(Operation)
  <2>1. batch \in Seq(Operation) /\ m_sqlQueue \in Seq(Operation)
    BY DEF IInv, SqlTypeOK
  <2>. QED
    BY <2>1, TodoType, TailOfConcat DEF IInv, todo
<1>2. /\ Len(todo') = Len(todo) - 1 /\ Head(todo) = todo[1]
      /\ \A i \in 1..Len(todo') : todo'[i] = todo[i + 1]
  BY <1>1
<1>3. \A i \in 1..Len(todo') : WellFormed(todo'[i])
  BY <1>1, <1>2 DEF IInv, Requests
<1>4. Ordered'
  <2> SUFFICES ASSUME NEW i \in 1..Len(todo'), NEW k \in todo'[i].after
               PROVE  \/ k \in handled'[todo'[i].by]
                      \/ Before(todo', i, todo'[i].by, k)
    BY DEF Ordered
  <2>1. CASE k \in handled[todo[i + 1].by]
    <3>1. todo'[i] = todo[i + 1] /\ todo[i + 1].by \in Clients
      BY <1>2, TodoType DEF IInv
    <3>. QED
      BY <2>1, <3>1
  <2>2. CASE Before(todo, i + 1, todo[i + 1].by, k)
    <3>1. PICK j \in 1..i : /\ todo[j].by = todo[i + 1].by /\ todo[j].stmts # <<>>
                            /\ Key(todo[j]) = k
      BY <1>1, <2>2 DEF Before
    <3>2. CASE j = 1
      BY <1>1, <1>2, <3>1, <3>2
    <3>3. CASE j # 1
      <4>1. j - 1 \in 1..(i - 1) /\ todo'[j - 1] = todo[j] /\ todo'[i] = todo[i + 1]
        BY <1>1, <1>2, <3>3
      <4>. QED
        BY <3>1, <4>1 DEF Before
    <3>. QED
      BY <3>2, <3>3
  <2>. QED
    <3>1. i + 1 \in 1..Len(todo) /\ k \in todo[i + 1].after
      BY <1>1, <1>2
    <3>. QED
      BY <2>1, <2>2, <3>1 DEF IInv, Ordered
<1>. QED
  BY <1>1, <1>3, <1>4 DEF Requests

\* The queue stays as it is, in whichever of its two parts.
LEMMA QueueKept ==
  ASSUME IInv, todo' = todo, \A c \in Clients : handled[c] \subseteq handled'[c]
  PROVE  Requests' /\ Ordered'
<1>1. \A i \in 1..Len(todo) : todo[i].by \in Clients
  BY TodoType DEF IInv
<1>. QED
  BY <1>1 DEF IInv, Ordered, Requests

-----------------------------------------------------------------------------
(* The actions: types and locks.                                           *)

\* SqlTypeOK, part by part.
IssuedOK == issued \in [Clients -> Nat] /\ \A c \in Clients : issued[c] <= MaxOps[c]
TransactionOK == transaction \in [Clients -> [op : Nat, stmts : Seq(Statement)] \union {None}]
QueuesOK == m_sqlQueue \in Seq(Operation) /\ batch \in Seq(Operation)
DbOK == open \in Seq(Statement) /\ db \in Seq(Statement) /\ lost \in SUBSET Operation
ResultsOK == results \in Seq(Result)
LocksOK == /\ queueMutex \in BOOLEAN
           /\ delay \in {"loop", "lock", "move", "execute", "statements", "add", "exited"}
           /\ conn \in BOOLEAN
           /\ updating \in {"no", "updating", "callback"}
           /\ m_running \in BOOLEAN
           /\ halt \in {"no", "stopping", "flush", "halted"}
           /\ queueMutex = TRUE <=> delay = "move"
           /\ conn = TRUE <=> delay \in {"statements", "add"}
           /\ open # <<>> => delay = "statements"

Types == IssuedOK /\ TransactionOK /\ QueuesOK /\ DbOK /\ ResultsOK /\ LocksOK

LEMMA TypeParts == SqlTypeOK <=> Types
  BY DEF SqlTypeOK, Types, IssuedOK, TransactionOK, QueuesOK, DbOK, ResultsOK, LocksOK

LEMMA NextOpType ==
  ASSUME IssuedOK, NEW c \in Clients, NextOp(c)
  PROVE  IssuedOK'
<1>1. issued[c] + 1 \in Nat /\ issued[c] + 1 <= MaxOps[c]
  <2>1. issued[c] \in Nat /\ MaxOps[c] \in Nat
    BY SqlBoundsAssumption DEF IssuedOK
  <2>2. issued[c] < MaxOps[c]
    BY DEF NextOp
  <2>. QED
    BY <2>1, <2>2
<1>. QED
  BY <1>1 DEF IssuedOK, NextOp

LEMMA WriteType ==
  ASSUME IssuedOK, NEW c \in Clients
  PROVE  WellFormed(Write(c)) /\ Write(c).after = {} /\ Write(c).by = c
<1>1. Stmt(c, issued[c] + 1, 1) \in Statement
  BY SqlBoundsAssumption DEF IssuedOK, Stmt, Statement
<1>2. Write(c) \in Operation
  BY <1>1 DEF IssuedOK, Write, Operation
<1>. QED
  BY <1>2 DEF WellFormed, Write, Stmt, Key

LEMMA TransactionType ==
  ASSUME TransactionOK, Transactions, NEW c \in Clients, transaction[c] # None,
         NEW op, op = [kind |-> "transaction", by |-> c, op |-> transaction[c].op,
                       stmts |-> transaction[c].stmts, after |-> {}]
  PROVE  WellFormed(op)
<1>1. transaction[c] \in [op : Nat, stmts : Seq(Statement)]
  BY DEF TransactionOK
<1>2. op \in Operation
  BY <1>1 DEF Operation
<1>. QED
  BY <1>2 DEF WellFormed, Transactions, Key

\* The keys of the writes that a query of c is to see.
LEMMA KeyTypes ==
  ASSUME QueuesOK, DbOK, NEW c
  PROVE  /\ Handled(c) \in SUBSET (Clients \X Nat)
         /\ Waiting(c, batch) \in SUBSET (Clients \X Nat)
         /\ Waiting(c, m_sqlQueue) \in SUBSET (Clients \X Nat)
<1>1. \A x : x \in Statement \/ x \in Operation => Key(x) \in Clients \X Nat
  BY DEF Statement, Operation, Key
<1>2. Handled(c) \in SUBSET (Clients \X Nat)
  BY <1>1 DEF Handled, DbOK
<1>3. \A ops \in Seq(Operation) : Waiting(c, ops) \in SUBSET (Clients \X Nat)
  BY <1>1 DEF Waiting
<1>. QED
  BY <1>2, <1>3 DEF QueuesOK

LEMMA QueryType ==
  ASSUME QueuesOK, DbOK, IssuedOK, NEW c \in Clients,
         NEW op, op = [kind |-> "query", by |-> c, op |-> issued[c] + 1, stmts |-> <<>>,
                       after |-> Handled(c) \union Waiting(c, batch) \union Waiting(c, m_sqlQueue)]
  PROVE  WellFormed(op)
<1>1. op.after \in SUBSET (Clients \X Nat)
  BY KeyTypes
<1>2. op \in Operation
  BY <1>1 DEF IssuedOK, Operation
<1>. QED
  BY <1>2 DEF WellFormed

LEMMA StatementType ==
  ASSUME NEW t \in [op : Nat, stmts : Seq(Statement)], NEW e \in Statement
  PROVE  [t EXCEPT !.stmts = Append(@, e)] \in [op : Nat, stmts : Seq(Statement)]
  OBVIOUS

LEMMA DelayType ==
  ASSUME QueuesOK, NEW op \in Operation, Delay(op), batch' = batch
  PROVE  QueuesOK'
  BY DEF QueuesOK, Delay

LEMMA ClientType ==
  ASSUME Types, Transactions, NEW c \in Clients, Client(c)
  PROVE  Types'
<1> USE DEF Types, executor
<1>1. CASE Execute(c)
  <2>1. IssuedOK' /\ QueuesOK'
    BY <1>1, NextOpType, WriteType, DelayType DEF Execute, WellFormed
  <2>. QED
    BY <1>1, <2>1 DEF Execute, TransactionOK, DbOK, ResultsOK, LocksOK
<1>2. CASE BeginTransaction(c)
  <2>1. IssuedOK' /\ TransactionOK'
    BY <1>2, NextOpType DEF BeginTransaction, TransactionOK, IssuedOK
  <2>. QED
    BY <1>2, <2>1 DEF BeginTransaction, QueuesOK, DbOK, ResultsOK, LocksOK
<1>3. CASE DelayExecute(c)
  <2>1. transaction[c] \in [op : Nat, stmts : Seq(Statement)]
    BY <1>3 DEF TransactionOK, DelayExecute
  <2>2. Stmt(c, transaction[c].op, Len(transaction[c].stmts) + 1) \in Statement
    BY <1>3, <2>1, SqlBoundsAssumption DEF DelayExecute, Stmt, Statement
  <2>3. LET t == transaction[c]
        IN  [t EXCEPT !.stmts = Append(@, Stmt(c, t.op, Len(t.stmts) + 1))]
               \in [op : Nat, stmts : Seq(Statement)]
    BY <2>1, <2>2, StatementType
  <2>4. TransactionOK'
    BY <1>3, <2>3 DEF TransactionOK, DelayExecute
  <2>. QED
    BY <1>3, <2>4 DEF DelayExecute, IssuedOK, QueuesOK, DbOK, ResultsOK, LocksOK
<1>4. CASE CommitTransaction(c)
  <2>1. QueuesOK'
    BY <1>4, TransactionType, DelayType DEF CommitTransaction, WellFormed
  <2>. QED
    BY <1>4, <2>1 DEF CommitTransaction, IssuedOK, TransactionOK, DbOK, ResultsOK, LocksOK
<1>5. CASE RollbackTransaction(c)
  BY <1>5 DEF RollbackTransaction, IssuedOK, TransactionOK, QueuesOK, DbOK, ResultsOK, LocksOK
<1>6. CASE AsyncQuery(c)
  <2>1. IssuedOK' /\ QueuesOK'
    BY <1>6, NextOpType, QueryType, DelayType DEF AsyncQuery, WellFormed
  <2>. QED
    BY <1>6, <2>1 DEF AsyncQuery, TransactionOK, DbOK, ResultsOK, LocksOK
<1>7. CASE DirectExecute(c)
  <2>1. Stmt(c, issued[c] + 1, 1) \in Statement
    BY SqlBoundsAssumption DEF IssuedOK, Stmt, Statement
  <2>2. open' = open /\ db' = Append(db, Stmt(c, issued[c] + 1, 1))
    BY <1>7 DEF DirectExecute, LocksOK
  <2>3. DbOK'
    BY <1>7, <2>1, <2>2 DEF DirectExecute, DbOK
  <2>4. IssuedOK'
    BY <1>7, NextOpType DEF DirectExecute
  <2>. QED
    BY <1>7, <2>2, <2>3, <2>4 DEF DirectExecute, QueuesOK, TransactionOK, ResultsOK, LocksOK
<1>. QED
  BY <1>1, <1>2, <1>3, <1>4, <1>5, <1>6, <1>7 DEF Client

LEMMA DoneType ==
  ASSUME Types, delay \in {"execute", "statements"}, batch # <<>>, Done, DbOK'
  PROVE  Types'
<1>1. LocksOK'
  BY DEF Types, Done, callers, LocksOK
<1>2. QueuesOK'
  BY DEF Types, Done, QueuesOK
<1>. QED
  BY <1>1, <1>2 DEF Types, Done, callers, IssuedOK, TransactionOK, ResultsOK

LEMMA HeadType ==
  ASSUME QueuesOK, batch # <<>>
  PROVE  Head(batch) \in Operation /\ Head(batch).stmts \in Seq(Statement) /\ Len(Head(batch).stmts) \in Nat
<1>1. Head(batch) \in Operation
  BY DEF QueuesOK
<1>. QED
  BY <1>1 DEF Operation

LEMMA EffectType ==
  ASSUME DbOK, QueuesOK, batch # <<>>, open' = <<>>,
         \/ Refused
         \/ \E s \in Seq(Statement) : Commit(s)
  PROVE  DbOK'
<1>1. CASE Refused
  BY <1>1, HeadType DEF DbOK, Refused
<1>2. ASSUME NEW s \in Seq(Statement), Commit(s) PROVE DbOK'
  BY <1>2 DEF DbOK, Commit
<1>. QED
  BY <1>1, <1>2

\* The steps in which the delay thread is done with a request.
LEMMA RequestDoneType ==
  ASSUME Types, Places, ExecuteWrite \/ ExecuteEmpty \/ StatementFails \/ CommitStatements
  PROVE  Types'
<1>1. delay \in {"execute", "statements"} /\ batch # <<>> /\ Done
  BY DEF Places, ExecuteWrite, ExecuteEmpty, StatementFails, CommitStatements, Executing
<1>2. Refused \/ \E s \in Seq(Statement) : Commit(s)
  BY <1>1, HeadType DEF ExecuteWrite, ExecuteEmpty, StatementFails, CommitStatements, Types, DbOK
<1>3. DbOK'
  BY <1>1, <1>2, EffectType DEF Types, Done
<1>. QED
  BY <1>1, <1>3, DoneType

LEMMA DelayThreadType ==
  ASSUME Types, Places, DelayThread
  PROVE  Types'
<1> USE DEF Types, callers
<1>1. CASE Loop
  BY <1>1 DEF Loop, IssuedOK, TransactionOK, QueuesOK, DbOK, ResultsOK, LocksOK
<1>2. CASE LockQueue
  <2>1. LocksOK'
    BY <1>2 DEF LockQueue, LocksOK
  <2>. QED
    BY <1>2, <2>1 DEF LockQueue, IssuedOK, TransactionOK, QueuesOK, DbOK, ResultsOK
<1>3. CASE MoveQueue
  <2>1. LocksOK'
    BY <1>3 DEF MoveQueue, LocksOK
  <2>. QED
    BY <1>3, <2>1 DEF MoveQueue, IssuedOK, TransactionOK, QueuesOK, DbOK, ResultsOK
<1>4. CASE EndBatch
  BY <1>4 DEF EndBatch, IssuedOK, TransactionOK, QueuesOK, DbOK, ResultsOK, LocksOK
<1>5. CASE ExecuteQuery
  BY <1>5 DEF ExecuteQuery, Executing, IssuedOK, TransactionOK, QueuesOK, DbOK, ResultsOK, LocksOK
<1>6. CASE StartTransaction
  BY <1>6 DEF StartTransaction, Executing, IssuedOK, TransactionOK, QueuesOK, DbOK, ResultsOK, LocksOK
<1>7. CASE ExecuteStatement
  <2>1. batch # <<>>
    BY <1>7 DEF ExecuteStatement, Places
  <2>2. Head(batch).stmts \in Seq(Statement) /\ Len(open) \in Nat
    BY <2>1, HeadType DEF DbOK
  <2>3. NextStatement \in Statement
    BY <1>7, <2>2 DEF ExecuteStatement, NextStatement
  <2>4. DbOK'
    BY <1>7, <2>3 DEF ExecuteStatement, DbOK
  <2>. QED
    BY <1>7, <2>4 DEF ExecuteStatement, IssuedOK, TransactionOK, QueuesOK, ResultsOK, LocksOK
<1>8. CASE AddResult
  <2>1. batch # <<>>
    BY <1>8 DEF AddResult, Places
  <2>2. Head(batch) \in Operation /\ Handled(Head(batch).by) \in SUBSET (Clients \X Nat)
    BY <2>1, HeadType, KeyTypes
  <2>3. [by |-> Head(batch).by, op |-> Head(batch).op, after |-> Head(batch).after,
         saw |-> Handled(Head(batch).by)] \in Result
    BY <2>2 DEF Operation, Result
  <2>4. ResultsOK'
    BY <1>8, <2>3 DEF AddResult, ResultsOK
  <2>5. QueuesOK'
    BY <1>8, <2>1 DEF AddResult, QueuesOK
  <2>6. LocksOK'
    BY <1>8 DEF AddResult, LocksOK
  <2>. QED
    BY <1>8, <2>4, <2>5, <2>6 DEF AddResult, IssuedOK, TransactionOK, DbOK
<1>. QED
  BY <1>1, <1>2, <1>3, <1>4, <1>5, <1>6, <1>7, <1>8, RequestDoneType DEF DelayThread

LEMMA WorldType ==
  ASSUME Types, StartUpdate \/ RunCallback \/ CallbackExecute \/ EndUpdate
  PROVE  Types'
<1> USE DEF Types, executor
<1>1. CASE StartUpdate
  BY <1>1 DEF StartUpdate, IssuedOK, TransactionOK, QueuesOK, DbOK, ResultsOK, LocksOK
<1>2. CASE RunCallback
  BY <1>2 DEF RunCallback, IssuedOK, TransactionOK, QueuesOK, DbOK, ResultsOK, LocksOK
<1>3. CASE CallbackExecute
  <2>1. IssuedOK' /\ QueuesOK'
    BY <1>3, ClientsAssumption, NextOpType, WriteType, DelayType DEF CallbackExecute, WellFormed
  <2>. QED
    BY <1>3, <2>1 DEF CallbackExecute, TransactionOK, DbOK, ResultsOK, LocksOK
<1>4. CASE EndUpdate
  BY <1>4 DEF EndUpdate, IssuedOK, TransactionOK, QueuesOK, DbOK, ResultsOK, LocksOK
<1>. QED
  BY <1>1, <1>2, <1>3, <1>4

LEMMA ShutdownType ==
  ASSUME Types, Stop \/ DeleteThread \/ UNCHANGED vars
  PROVE  Types'
<1> USE DEF Types, callers
<1>1. CASE Stop
  BY <1>1 DEF Stop, IssuedOK, TransactionOK, QueuesOK, DbOK, ResultsOK, LocksOK
<1>2. CASE DeleteThread
  BY <1>2 DEF DeleteThread, IssuedOK, TransactionOK, QueuesOK, DbOK, ResultsOK, LocksOK
<1>3. CASE UNCHANGED vars
  BY <1>3 DEF vars, IssuedOK, TransactionOK, QueuesOK, DbOK, ResultsOK, LocksOK
<1>. QED
  BY <1>1, <1>2, <1>3

LEMMA TypeStep ==
  ASSUME SqlTypeOK, Places, Transactions, [Next]_vars
  PROVE  SqlTypeOK'
<1>1. Types
  BY TypeParts
<1>2. Types'
  BY <1>1, ClientType, DelayThreadType, WorldType, ShutdownType DEF Next, Halted
<1>. QED
  BY <1>2 DEF SqlTypeOK, Types, IssuedOK, TransactionOK, QueuesOK, DbOK, ResultsOK, LocksOK

-----------------------------------------------------------------------------
(* The actions: what each does to the queue.                               *)

Submits == \E op : /\ WellFormed(op) /\ Delay(op) /\ UNCHANGED <<batch, db, lost>>
                   /\ \A k \in op.after : \/ k \in handled[op.by]
                                          \/ Before(todo, Len(todo) + 1, op.by, k)
Takes == /\ batch # <<>> /\ batch' = Tail(batch) /\ m_sqlQueue' = m_sqlQueue
         /\ Commit(Head(batch).stmts) \/ Refused
Directs == /\ UNCHANGED <<batch, m_sqlQueue, lost>>
           /\ \E s \in Statement : db' = Append(db, s)
Keeps == todo' = todo /\ UNCHANGED <<db, lost>>

\* The writes of c that wait are in front of whatever is delayed next.
LEMMA WaitingBefore ==
  ASSUME IInv, NEW c \in Clients
  PROVE  \A k \in Waiting(c, batch) \union Waiting(c, m_sqlQueue) :
            Before(todo, Len(todo) + 1, c, k)
<1>1. batch \in Seq(Operation) /\ m_sqlQueue \in Seq(Operation) /\ Len(todo) = Len(batch) + Len(m_sqlQueue)
  BY TodoType DEF IInv, SqlTypeOK
<1>2. /\ \A i \in 1..Len(batch) : todo[i] = batch[i]
      /\ \A i \in 1..Len(m_sqlQueue) : todo[Len(batch) + i] = m_sqlQueue[i]
  BY <1>1 DEF todo
<1>3. ASSUME NEW k \in Waiting(c, batch) PROVE Before(todo, Len(todo) + 1, c, k)
  <2>1. PICK i \in 1..Len(batch) : batch[i].by = c /\ batch[i].stmts # <<>> /\ k = Key(batch[i])
    BY <1>3 DEF Waiting
  <2>2. i \in 1..(Len(todo) + 1 - 1)
    BY <1>1
  <2>. QED
    BY <1>2, <2>1, <2>2 DEF Before
<1>4. ASSUME NEW k \in Waiting(c, m_sqlQueue) PROVE Before(todo, Len(todo) + 1, c, k)
  <2>1. PICK i \in 1..Len(m_sqlQueue) : /\ m_sqlQueue[i].by = c /\ m_sqlQueue[i].stmts # <<>>
                                        /\ k = Key(m_sqlQueue[i])
    BY <1>4 DEF Waiting
  <2>2. Len(batch) + i \in 1..(Len(todo) + 1 - 1)
    BY <1>1
  <2>. QED
    BY <1>2, <2>1, <2>2 DEF Before
<1>. QED
  BY <1>3, <1>4

LEMMA ClientEffect ==
  ASSUME IInv, NEW c \in Clients, Client(c)
  PROVE  Submits \/ Directs \/ Keeps
<1>1. Types
  BY TypeParts DEF IInv
<1>2. CASE Execute(c)
  <2>1. WellFormed(Write(c)) /\ Write(c).after = {}
    BY <1>1, WriteType DEF Types
  <2>. QED
    BY <1>2, <2>1 DEF Execute, executor, Submits
<1>3. CASE CommitTransaction(c)
  <2> DEFINE op == [kind |-> "transaction", by |-> c, op |-> transaction[c].op,
                    stmts |-> transaction[c].stmts, after |-> {}]
  <2>1. WellFormed(op) /\ op.after = {}
    BY <1>1, <1>3, TransactionType DEF Types, IInv, CommitTransaction
  <2>2. Delay(op) /\ UNCHANGED <<batch, db, lost>>
    BY <1>3 DEF CommitTransaction, executor
  <2>. QED
    BY <2>1, <2>2 DEF Submits
<1>4. CASE AsyncQuery(c)
  <2> DEFINE op == [kind |-> "query", by |-> c, op |-> issued[c] + 1, stmts |-> <<>>,
                    after |-> Handled(c) \union Waiting(c, batch) \union Waiting(c, m_sqlQueue)]
  <2>1. WellFormed(op)
    BY <1>1, QueryType DEF Types
  <2>2. Delay(op) /\ UNCHANGED <<batch, db, lost>>
    BY <1>4 DEF AsyncQuery, executor
  <2>3. \A k \in op.after : k \in handled[op.by] \/ Before(todo, Len(todo) + 1, op.by, k)
    BY WaitingBefore DEF handled
  <2>. QED
    BY <2>1, <2>2, <2>3 DEF Submits
<1>5. CASE DirectExecute(c)
  <2>1. Stmt(c, issued[c] + 1, 1) \in Statement
    BY <1>1, SqlBoundsAssumption DEF Types, IssuedOK, Stmt, Statement
  <2>2. db' = Append(db, Stmt(c, issued[c] + 1, 1))
    BY <1>1, <1>5 DEF DirectExecute, Types, LocksOK
  <2>. QED
    BY <1>5, <2>1, <2>2 DEF DirectExecute, Directs
<1>6. CASE BeginTransaction(c) \/ DelayExecute(c) \/ RollbackTransaction(c)
  BY <1>6 DEF BeginTransaction, DelayExecute, RollbackTransaction, executor, Keeps, todo
<1>. QED
  BY <1>2, <1>3, <1>4, <1>5, <1>6 DEF Client

\* What an open transaction has executed when its last statement has been is all of it.
LEMMA OpenComplete ==
  ASSUME IInv, CommitStatements
  PROVE  open = Head(batch).stmts
<1>1. batch # <<>> /\ Len(open) = Len(Head(batch).stmts) /\ \A i \in 1..Len(open) : open[i] = Head(batch).stmts[i]
  BY DEF IInv, Places, CommitStatements
<1>2. open \in Seq(Statement) /\ Head(batch).stmts \in Seq(Statement)
  BY <1>1, HeadType, TypeParts DEF IInv, Types, DbOK
<1>. QED
  BY <1>1, <1>2

LEMMA HeadWellFormed ==
  ASSUME IInv, batch # <<>>
  PROVE  WellFormed(Head(batch))
<1>1. Head(batch) = todo[1] /\ 1 \in 1..Len(todo)
  BY TodoType DEF IInv
<1>. QED
  BY <1>1 DEF IInv, Requests

LEMMA DelayThreadEffect ==
  ASSUME IInv, DelayThread
  PROVE  Takes \/ Keeps
<1>1. CASE ExecuteWrite
  BY <1>1 DEF ExecuteWrite, Executing, Done, Takes
<1>2. CASE ExecuteEmpty
  BY <1>2 DEF ExecuteEmpty, Executing, Done, Takes
<1>3. CASE StatementFails
  BY <1>3 DEF StatementFails, Done, Takes, IInv, Places
<1>4. CASE CommitStatements
  BY <1>4, OpenComplete DEF CommitStatements, Done, Takes, IInv, Places
<1>5. CASE AddResult
  <2>1. batch # <<>> /\ Head(batch).stmts = <<>>
    BY <1>5, HeadWellFormed DEF AddResult, WellFormed, IInv, Places
  <2>2. db \in Seq(Statement)
    BY DEF IInv, SqlTypeOK
  <2>3. Commit(Head(batch).stmts)
    BY <1>5, <2>1, <2>2 DEF AddResult, Commit
  <2>. QED
    BY <1>5, <2>1, <2>3 DEF AddResult, Takes
<1>6. CASE MoveQueue
  <2>1. batch = <<>> /\ m_sqlQueue \in Seq(Operation)
    BY <1>6 DEF MoveQueue, IInv, Places, SqlTypeOK
  <2>. QED
    BY <1>6, <2>1 DEF MoveQueue, Keeps, todo
<1>7. CASE Loop \/ LockQueue \/ EndBatch \/ ExecuteQuery \/ StartTransaction \/ ExecuteStatement
  BY <1>7 DEF Loop, LockQueue, EndBatch, ExecuteQuery, StartTransaction, ExecuteStatement, Keeps, todo
<1>. QED
  BY <1>1, <1>2, <1>3, <1>4, <1>5, <1>6, <1>7 DEF DelayThread

LEMMA WorldEffect ==
  ASSUME IInv, \/ StartUpdate \/ RunCallback \/ CallbackExecute \/ EndUpdate
               \/ Stop \/ DeleteThread \/ UNCHANGED vars
  PROVE  Submits \/ Keeps
<1>1. CASE CallbackExecute
  <2>1. WellFormed(Write(World)) /\ Write(World).after = {}
    BY ClientsAssumption, TypeParts, WriteType DEF IInv, Types
  <2>. QED
    BY <1>1, <2>1 DEF CallbackExecute, executor, Submits
<1>2. CASE StartUpdate \/ RunCallback \/ EndUpdate \/ Stop \/ DeleteThread \/ UNCHANGED vars
  BY <1>2 DEF StartUpdate, RunCallback, EndUpdate, Stop, DeleteThread, vars, executor, callers, Keeps, todo
<1>. QED
  BY <1>1, <1>2

LEMMA Effect ==
  ASSUME IInv, [Next]_vars
  PROVE  Submits \/ Takes \/ Directs \/ Keeps
  BY ClientEffect, DelayThreadEffect, WorldEffect DEF Next, Halted

\* A step of the queue keeps it in order, and every write that leaves it is handled.
LEMMA TakesHandles ==
  ASSUME IInv, Takes
  PROVE  /\ \A c \in Clients : handled[c] \subseteq handled'[c]
         /\ Head(batch).stmts # <<>> => Key(Head(batch)) \in handled'[Head(batch).by]
<1> DEFINE op == Head(batch)
<1>1. WellFormed(op) /\ op.by \in Clients /\ op.stmts \in Seq(Statement) /\ db \in Seq(Statement)
  BY HeadWellFormed DEF Takes, WellFormed, Operation, IInv, SqlTypeOK
<1>2. CASE Refused
  <2>1. lost' = lost \union {op} /\ db' = db
    BY <1>2 DEF Refused
  <2>2. \A c \in Clients : handled[c] \subseteq handled'[c]
    BY <2>1, HandledGrows
  <2>3. Key(op) \in handled'[op.by]
    BY <1>1, <2>1 DEF handled, Handled
  <2>. QED
    BY <2>2, <2>3
<1>3. CASE Commit(op.stmts)
  <2>1. lost' = lost /\ db' = db \o op.stmts
    BY <1>3 DEF Commit
  <2>2. \A i \in 1..Len(db) : i \in 1..Len(db') /\ db'[i] = db[i]
    BY <1>1, <2>1
  <2>3. ASSUME op.stmts # <<>> PROVE Key(op) \in handled'[op.by]
    <3>1. 1 \in 1..Len(op.stmts) /\ Key(op.stmts[1]) = Key(op)
      BY <1>1, <2>3 DEF WellFormed
    <3>2. op.stmts[1].by = op.by
      BY <3>1 DEF Key
    <3>3. Len(db) + 1 \in 1..Len(db') /\ db'[Len(db) + 1] = op.stmts[1]
      BY <1>1, <2>1, <3>1
    <3>. QED
      BY <1>1, <3>1, <3>2, <3>3 DEF handled, Handled
  <2>. QED
    BY <2>1, <2>2, <2>3, HandledGrows
<1>. QED
  BY <1>2, <1>3 DEF Takes

LEMMA QueueStep ==
  ASSUME IInv, [Next]_vars
  PROVE  Requests' /\ Ordered'
<1>1. CASE Submits
  BY <1>1, Delayed DEF Submits
<1>2. CASE Takes
  BY <1>2, TakesHandles, Taken DEF Takes
<1>3. CASE Directs
  <2>1. PICK s \in Statement : db' = Append(db, s)
    BY <1>3 DEF Directs
  <2>2. \A i \in 1..Len(db) : i \in 1..Len(db') /\ db'[i] = db[i]
    BY <2>1 DEF IInv, SqlTypeOK
  <2>. QED
    BY <1>3, <2>2, HandledGrows, QueueKept DEF Directs, todo
<1>4. CASE Keeps
  <2>1. handled' = handled
    BY <1>4 DEF Keeps, handled, Handled
  <2>. QED
    BY <1>4, <2>1, QueueKept DEF Keeps
<1>. QED
  BY <1>1, <1>2, <1>3, <1>4, Effect

-----------------------------------------------------------------------------
(* The actions: the rest of the invariant.                                 *)

LEMMA PlacesStep ==
  ASSUME IInv, [Next]_vars
  PROVE  Places'
<1>1. batch \in Seq(Operation) /\ open \in Seq(Statement)
  BY DEF IInv, SqlTypeOK
<1>2. ASSUME NEW c \in Clients, Client(c) PROVE Places'
  <2>1. UNCHANGED <<batch, delay>> /\ (open' = open \/ DirectExecute(c))
    BY <1>2 DEF Client, Execute, BeginTransaction, DelayExecute, CommitTransaction,
                RollbackTransaction, AsyncQuery, DirectExecute, executor
  <2>2. open' = open
    BY <2>1, TypeParts DEF DirectExecute, IInv, Types, LocksOK
  <2>. QED
    BY <2>1, <2>2 DEF IInv, Places
<1>3. CASE DelayThread
  <2>1. CASE Loop \/ LockQueue \/ EndBatch
    BY <2>1 DEF Loop, LockQueue, EndBatch, IInv, Places
  <2>2. CASE MoveQueue
    BY <2>2 DEF MoveQueue, Places
  <2>3. CASE ExecuteWrite \/ ExecuteEmpty \/ StatementFails \/ CommitStatements
    BY <2>3 DEF ExecuteWrite, ExecuteEmpty, StatementFails, CommitStatements, Done, Places
  <2>4. CASE ExecuteQuery
    BY <2>4 DEF ExecuteQuery, Executing, Places
  <2>5. CASE AddResult
    BY <2>5 DEF AddResult, Places
  <2>6. CASE StartTransaction
    <3>1. open' = <<>> /\ batch' = batch /\ batch # <<>> /\ delay' = "statements"
      BY <2>6 DEF StartTransaction, Executing, IInv, SqlTypeOK
    <3>2. Len(Head(batch).stmts) \in Nat
      BY <3>1, TypeParts, HeadType DEF IInv, Types
    <3>. QED
      BY <3>1, <3>2 DEF Places
  <2>7. CASE ExecuteStatement
    <3>1. /\ batch' = batch /\ batch # <<>> /\ delay' = "statements"
          /\ Len(open) < Len(Head(batch).stmts) /\ open' = Append(open, NextStatement)
          /\ \A i \in 1..Len(open) : open[i] = Head(batch).stmts[i]
      BY <2>7 DEF ExecuteStatement, IInv, Places
    <3>2. Len(Head(batch).stmts) \in Nat
      BY <3>1, TypeParts, HeadType DEF IInv, Types
    <3>3. /\ Len(open') = Len(open) + 1 /\ open'[Len(open) + 1] = Head(batch).stmts[Len(open) + 1]
          /\ \A i \in 1..Len(open) : open'[i] = open[i]
      BY <1>1, <3>1 DEF NextStatement
    <3>4. Len(open') <= Len(Head(batch').stmts) /\ \A i \in 1..Len(open') : open'[i] = Head(batch').stmts[i]
      BY <1>1, <3>1, <3>2, <3>3
    <3>. QED
      BY <3>1, <3>4 DEF Places
  <2>. QED
    BY <1>3, <2>1, <2>2, <2>3, <2>4, <2>5, <2>6, <2>7 DEF DelayThread
<1>4. CASE StartUpdate \/ RunCallback \/ CallbackExecute \/ EndUpdate
  BY <1>4 DEF StartUpdate, RunCallback, CallbackExecute, EndUpdate, executor, IInv, Places
<1>5. CASE Stop \/ DeleteThread \/ UNCHANGED vars
  BY <1>5 DEF Stop, DeleteThread, vars, IInv, Places
<1>. QED
  BY <1>2, <1>3, <1>4, <1>5 DEF Next, Halted

LEMMA TransactionsStep ==
  ASSUME IInv, [Next]_vars
  PROVE  Transactions'
<1>1. ASSUME NEW c \in Clients, BeginTransaction(c) PROVE Transactions'
  BY <1>1 DEF BeginTransaction, IInv, SqlTypeOK, Transactions
<1>2. ASSUME NEW c \in Clients, CommitTransaction(c) \/ RollbackTransaction(c) PROVE Transactions'
  BY <1>2 DEF CommitTransaction, RollbackTransaction, IInv, SqlTypeOK, Transactions
<1>3. ASSUME NEW c \in Clients, DelayExecute(c) PROVE Transactions'
  <2> DEFINE t == transaction[c]
             s == Append(t.stmts, Stmt(c, t.op, Len(t.stmts) + 1))
  <2>1. t \in [op : Nat, stmts : Seq(Statement)] /\ transaction \in [Clients -> [op : Nat, stmts : Seq(Statement)] \union {None}]
    BY <1>3 DEF DelayExecute, IInv, SqlTypeOK
  <2>2. /\ transaction'[c].stmts = s /\ transaction'[c].op = t.op
        /\ \A d \in Clients \ {c} : transaction'[d] = transaction[d]
    BY <1>3, <2>1 DEF DelayExecute
  <2>3. \A j \in 1..Len(t.stmts) : Key(t.stmts[j]) = <<c, t.op>>
    BY <1>3 DEF DelayExecute, IInv, Transactions
  <2>4. \A j \in 1..Len(s) : Key(s[j]) = <<c, t.op>>
    BY <2>1, <2>3 DEF Stmt, Key
  <2>. QED
    BY <2>2, <2>4 DEF IInv, Transactions
<1>4. CASE transaction' = transaction
  BY <1>4 DEF IInv, Transactions
<1>5. \/ \E c \in Clients : \/ BeginTransaction(c) \/ CommitTransaction(c)
                            \/ RollbackTransaction(c) \/ DelayExecute(c)
      \/ transaction' = transaction
  BY DEF Next, Halted, vars, Client, Execute, AsyncQuery, DirectExecute, DelayThread, Loop,
         LockQueue, MoveQueue, EndBatch, ExecuteWrite, ExecuteEmpty, ExecuteQuery, AddResult,
         StartTransaction, ExecuteStatement, StatementFails, CommitStatements, Done, callers,
         StartUpdate, RunCallback, CallbackExecute, EndUpdate, Stop, DeleteThread
<1>. QED
  BY <1>1, <1>2, <1>3, <1>4, <1>5

LEMMA ResultsStep ==
  ASSUME IInv, [Next]_vars
  PROVE  ReadYourWrites'
<1>1. CASE AddResult
  <2> DEFINE op == Head(batch)
  <2>1. batch # <<>> /\ op = todo[1] /\ 1 \in 1..Len(todo) /\ op.by \in Clients
    BY <1>1, TodoType DEF AddResult, IInv, Places
  <2>2. op.after \subseteq Handled(op.by)
    <3>1. \A k \in op.after : k \in handled[op.by] \/ Before(todo, 1, op.by, k)
      BY <2>1 DEF IInv, Ordered
    <3>2. \A k : ~Before(todo, 1, op.by, k)
      BY DEF Before
    <3>. QED
      BY <2>1, <3>1, <3>2 DEF handled
  <2>3. results' = Append(results, [by |-> op.by, op |-> op.op, after |-> op.after,
                                    saw |-> Handled(op.by)])
    BY <1>1 DEF AddResult
  <2>. QED
    BY <2>2, <2>3 DEF IInv, SqlTypeOK, ReadYourWrites
<1>2. CASE results # <<>> /\ results' = Tail(results)
  BY <1>2 DEF IInv, SqlTypeOK, ReadYourWrites
<1>3. CASE results' = results
  BY <1>3 DEF IInv, ReadYourWrites
<1>4. AddResult \/ (results # <<>> /\ results' = Tail(results)) \/ results' = results
  BY DEF Next, Halted, vars, Client, Execute, BeginTransaction, DelayExecute, CommitTransaction,
         RollbackTransaction, AsyncQuery, DirectExecute, DelayThread, Loop, LockQueue, MoveQueue,
         EndBatch, ExecuteWrite, ExecuteEmpty, ExecuteQuery, StartTransaction, ExecuteStatement,
         StatementFails, CommitStatements, Done, callers, StartUpdate, RunCallback,
         CallbackExecute, EndUpdate, Stop, DeleteThread
<1>. QED
  BY <1>1, <1>2, <1>3, <1>4

LEMMA InitFact == Init => IInv
<1> SUFFICES ASSUME Init PROVE IInv
  OBVIOUS
<1>1. todo = <<>> /\ results = <<>>
  BY DEF Init, todo
<1>2. SqlTypeOK
  <2>1. IssuedOK /\ TransactionOK
    BY SqlBoundsAssumption DEF Init, IssuedOK, TransactionOK
  <2>2. LocksOK
    BY DEF Init, LocksOK
  <2>3. QueuesOK /\ DbOK /\ ResultsOK
    BY DEF Init, QueuesOK, DbOK, ResultsOK
  <2>. QED
    BY <2>1, <2>2, <2>3, TypeParts DEF Types
<1>3. Places
  BY DEF Init, Places
<1>4. Transactions
  BY DEF Init, Transactions
<1>. QED
  BY <1>1, <1>2, <1>3, <1>4 DEF IInv, Requests, Ordered, ReadYourWrites

-----------------------------------------------------------------------------
(* The theorems.                                                           *)

\* The inductive invariant of the delay thread and its clients.
THEOREM SqlInductive == Spec => []IInv
<1>1. Init => IInv
  BY InitFact
<1>2. IInv /\ [Next]_vars => IInv'
  BY TypeStep, PlacesStep, QueueStep, TransactionsStep, ResultsStep DEF IInv
<1>. QED
  BY <1>1, <1>2, PTL DEF Spec

\* Every variable keeps its type, and the delay thread holds m_mutex, the lock of its
\* connection and an open transaction exactly where the code does (ProcessRequests,
\* SqlTransaction::Execute).
THEOREM SqlTypes == Spec => []SqlTypeOK
<1>1. IInv => SqlTypeOK
  BY DEF IInv
<1>. QED
  BY <1>1, SqlInductive, PTL

\* A delayed query sees every write its thread had delayed before it: one queue and one
\* connection for the writes keep their order, whatever the batches (SqlDelayThread).
THEOREM ReadsOwnWrites == Spec => []ReadYourWrites
<1>1. IInv => ReadYourWrites
  BY DEF IInv
<1>. QED
  BY <1>1, SqlInductive, PTL

LEMMA StepRefines ==
  ASSUME IInv, [Next]_vars
  PROVE  [Queue!QueueNext]_(Queue!queueVars)
<1>1. todo \in Seq(Operation)
  BY TodoType DEF IInv
<1>2. CASE Submits
  <2>1. PICK op : WellFormed(op) /\ Delay(op) /\ UNCHANGED <<batch, db, lost>>
    BY <1>2 DEF Submits
  <2>2. op \in Operation /\ todo' = Append(todo, op)
    BY <2>1, <1>2 DEF WellFormed, Delay, todo, IInv, SqlTypeOK
  <2>3. todo' # <<>> /\ todo'[Len(todo')] = op
    BY <1>1, <2>2
  <2>. QED
    BY <2>1, <2>2, <2>3 DEF Queue!QueueNext, Queue!Submit
<1>3. CASE Takes
  <2>1. todo # <<>> /\ todo' = Tail(todo) /\ Head(todo) = Head(batch)
    BY <1>3, TakesHandles, Taken, TodoType DEF Takes, IInv
  <2>. QED
    BY <1>3, <2>1 DEF Takes, Commit, Refused, Queue!QueueNext, Queue!Succeed, Queue!Fail
<1>4. CASE Directs
  <2>1. PICK s \in Statement : db' = Append(db, s)
    BY <1>4 DEF Directs
  <2>2. db \in Seq(Statement)
    BY DEF IInv, SqlTypeOK
  <2>3. db' # <<>> /\ db'[Len(db')] = s
    BY <2>1, <2>2
  <2>. QED
    BY <1>4, <2>1, <2>3 DEF Directs, todo, Queue!QueueNext, Queue!Direct
<1>5. CASE Keeps
  BY <1>5 DEF Keeps, Queue!queueVars
<1>. QED
  BY <1>2, <1>3, <1>4, <1>5, Effect

\* The delay thread with the batches it swaps out of m_sqlQueue is the one queue of
\* DelayQueue: a request is handed over at once, takes effect in order and as a whole.
THEOREM QueueRefinement == Spec => ImplementsDelayQueue
<1>1. Init => Queue!QueueInit
  BY DEF Init, todo, Queue!QueueInit
<1>2. IInv /\ [Next]_vars => [Queue!QueueNext]_(Queue!queueVars)
  BY StepRefines
<1>. QED
  BY <1>1, <1>2, SqlInductive, PTL DEF Spec, ImplementsDelayQueue, Queue!QueueSpec
=============================================================================
