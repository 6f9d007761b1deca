------------------------------ MODULE SqlDelay ------------------------------
(***************************************************************************)
(* Asynchronous SQL at run time (after AllowAsyncTransactions): the threads *)
(* that delay operations on one Database, its SqlDelayThread, the result   *)
(* queue the world thread empties, direct execution on the same connection,*)
(* and HaltDelayThread at shutdown.  Each critical section is one step,    *)
(* except those of m_queueMutex and of the asynchronous connection, which  *)
(* the delay thread holds across steps.                                    *)
(***************************************************************************)
EXTENDS Naturals, Sequences, FiniteSets

CONSTANTS Clients,     \* threads that use the database
          World,       \* the one of them that calls Database::ProcessResultQueue
          MaxOps,      \* bound: operations of each client
          MaxStmts,    \* bound: statements per transaction
          None

ASSUME ClientsAssumption == World \in Clients /\ None \notin Clients /\ IsFiniteSet(Clients)
ASSUME SqlBoundsAssumption == MaxOps \in [Clients -> Nat] /\ MaxStmts \in Nat \ {0}

VARIABLES issued,    \* operations each client has begun
          transaction,  \* Database::m_currentTransaction of each thread
          m_sqlQueue,   \* SqlDelayThread::m_sqlQueue
          queueMutex,   \* held by the delay thread in ProcessRequests
          batch,     \* the local sqlQueue of ProcessRequests; its head is being executed
          delay,     \* where the delay thread (later: the flush in its destructor) is
          conn,      \* the delay thread holds the lock of m_pAsyncConn
          open,      \* statements of the connection's open database transaction
          db,        \* committed statements
          lost,      \* operations rolled back or refused by the database
          results,   \* SqlResultQueue::m_queue: the result of each query
          updating,  \* the world thread in SqlResultQueue::Update, or blocked in a callback
          m_running, \* SqlDelayThread::m_running
          halt       \* how far Database::HaltDelayThread is

vars == <<issued, transaction, m_sqlQueue, queueMutex, batch, delay, conn, open, db, lost,
          results, updating, m_running, halt>>

Statement == [by : Clients, op : Nat, i : 1..MaxStmts]

\* A SqlPlainRequest (one statement), a SqlTransaction or a SqlQuery / SqlQueryHolderEx.
\* `after` records the writes its client had delayed before a query.
Operation == [kind : {"write", "transaction", "query"}, by : Clients, op : Nat,
              stmts : Seq(Statement), after : SUBSET (Clients \X (Nat))]
Result == [by : Clients, op : Nat, after : SUBSET (Clients \X (Nat)),
           saw : SUBSET (Clients \X (Nat))]

\* Types, and the locks the delay thread holds at each of its places (SqlDelayThread.cpp
\* 79-82, SqlOperations.cpp 51, 92, 222).
SqlTypeOK == /\ issued \in [Clients -> Nat] /\ \A c \in Clients : issued[c] <= MaxOps[c]
             /\ transaction \in [Clients -> [op : Nat, stmts : Seq(Statement)] \union {None}]
             /\ m_sqlQueue \in Seq(Operation)
             /\ queueMutex \in BOOLEAN
             /\ batch \in Seq(Operation)
             /\ delay \in {"loop", "lock", "move", "execute", "statements", "add", "exited"}
             /\ conn \in BOOLEAN
             /\ open \in Seq(Statement)
             /\ db \in Seq(Statement)
             /\ lost \in SUBSET Operation
             /\ results \in Seq(Result)
             /\ updating \in {"no", "updating", "callback"}
             /\ m_running \in BOOLEAN
             /\ halt \in {"no", "stopping", "flush", "halted"}
             \* each lock is held exactly where the code holds it
             /\ queueMutex = (delay = "move")
             /\ conn = (delay \in {"statements", "add"})
             /\ open # <<>> => delay = "statements"

Init == /\ issued = [c \in Clients |-> 0]
        /\ transaction = [c \in Clients |-> None]
        /\ m_sqlQueue = <<>>
        /\ queueMutex = FALSE
        /\ batch = <<>>
        /\ delay = "loop"
        /\ conn = FALSE
        /\ open = <<>>
        /\ db = <<>>
        /\ lost = {}
        /\ results = <<>>
        /\ updating = "no"
        /\ m_running = TRUE
        /\ halt = "no"

-----------------------------------------------------------------------------
(* The threads that use the database.                                      *)

executor == <<queueMutex, batch, delay, conn, open, m_running, halt>>

\* A client can call: the world thread has ended before HaltDelayThread and is not inside
\* SqlResultQueue::Update; no thread calls once m_threadBody is being deleted.
CanCall(c) == /\ halt \in {"no", "stopping"}
              /\ c = World => halt = "no" /\ updating = "no"

\* Fault: queries overtake the writes that wait.
Delay_urgent(op) ==
    /\ ~queueMutex
    /\ m_sqlQueue' = IF op.kind = "query" THEN <<op>> \o m_sqlQueue ELSE Append(m_sqlQueue, op)

\* SqlDelayThread::Delay
Delay(op) == /\ ~queueMutex
             /\ m_sqlQueue' = Append(m_sqlQueue, op)

NextOp(c) == /\ issued[c] < MaxOps[c]
             /\ issued' = [issued EXCEPT ![c] = @ + 1]

Stmt(c, o, i) == [by |-> c, op |-> o, i |-> i]
Write(c) == [kind |-> "write", by |-> c, op |-> issued[c] + 1,
             stmts |-> <<Stmt(c, issued[c] + 1, 1)>>, after |-> {}]

\* Database::Execute outside a transaction.
Execute(c) == /\ CanCall(c) /\ transaction[c] = None
              /\ NextOp(c)
              /\ Delay(Write(c))
              /\ UNCHANGED <<executor, transaction, db, lost, results, updating>>

BeginTransaction(c) == /\ CanCall(c) /\ transaction[c] = None
                       /\ NextOp(c)
                       /\ transaction' = [transaction EXCEPT ![c] = [op |-> issued[c] + 1, stmts |-> <<>>]]
                       /\ UNCHANGED <<executor, m_sqlQueue, db, lost, results, updating>>

\* Database::Execute inside a transaction: SqlTransaction::DelayExecute.
DelayExecute(c) ==
    /\ CanCall(c) /\ transaction[c] # None
    /\ Len(transaction[c].stmts) < MaxStmts
    /\ transaction' = [transaction EXCEPT ![c].stmts =
                         Append(@, Stmt(c, transaction[c].op, Len(@) + 1))]
    /\ UNCHANGED <<executor, issued, m_sqlQueue, db, lost, results, updating>>

CommitTransaction(c) ==
    /\ CanCall(c) /\ transaction[c] # None
    /\ Delay([kind |-> "transaction", by |-> c, op |-> transaction[c].op,
              stmts |-> transaction[c].stmts, after |-> {}])
    /\ transaction' = [transaction EXCEPT ![c] = None]
    /\ UNCHANGED <<executor, issued, db, lost, results, updating>>

RollbackTransaction(c) == /\ CanCall(c) /\ transaction[c] # None
                          /\ transaction' = [transaction EXCEPT ![c] = None]
                          /\ UNCHANGED <<executor, issued, m_sqlQueue, db, lost, results, updating>>

\* Writes of c that have taken effect, or been refused; and those still on their way.
Key(x) == <<x.by, x.op>>
Handled(c) == {Key(db[i]) : i \in {j \in 1..Len(db) : db[j].by = c}}
                \union {Key(op) : op \in {o \in lost : o.by = c}}
Waiting(c, ops) == {Key(ops[i]) : i \in {j \in 1..Len(ops) : ops[j].by = c /\ ops[j].stmts # <<>>}}

\* AsyncPQuery or DelayQueryHolder: a query goes to the queue even inside a transaction.
AsyncQuery(c) ==
    /\ CanCall(c)
    /\ NextOp(c)
    /\ Delay([kind |-> "query", by |-> c, op |-> issued[c] + 1, stmts |-> <<>>,
              after |-> Handled(c) \union Waiting(c, batch) \union Waiting(c, m_sqlQueue)])
    /\ UNCHANGED <<executor, transaction, db, lost, results, updating>>

\* Database::DirectExecute on the connection the delay thread uses: it becomes a part of
\* whatever database transaction that connection has open.
DirectExecute(c) ==
    /\ CanCall(c)
    /\ ~conn
    /\ NextOp(c)
    /\ LET s == Stmt(c, issued[c] + 1, 1)
           inside == delay = "statements"
       IN  /\ open' = IF inside THEN Append(open, s) ELSE open
           /\ db' = IF inside THEN db ELSE Append(db, s)
    /\ UNCHANGED <<transaction, m_sqlQueue, queueMutex, batch, delay, conn, lost, results,
                   updating, m_running, halt>>

-----------------------------------------------------------------------------
(* The delay thread: SqlDelayThread::run and ProcessRequests.               *)

callers == <<issued, transaction, results, updating, m_running>>

\* while (m_running)
Loop == /\ delay = "loop"
        /\ delay' = IF m_running THEN "lock" ELSE "exited"
        /\ UNCHANGED <<callers, m_sqlQueue, queueMutex, batch, conn, open, db, lost, halt>>

LockQueue == /\ delay = "lock" /\ ~queueMutex
             /\ queueMutex' = TRUE
             /\ delay' = "move"
             /\ UNCHANGED <<callers, m_sqlQueue, batch, conn, open, db, lost, halt>>

\* Fault: the queue stays locked while the batch is executed.
MoveQueue_holding ==
    /\ delay = "move"
    /\ batch' = m_sqlQueue
    /\ m_sqlQueue' = <<>>
    /\ delay' = "execute"
    /\ UNCHANGED <<callers, queueMutex, conn, open, db, lost, halt>>

MoveQueue == /\ delay = "move"
             /\ batch' = m_sqlQueue
             /\ m_sqlQueue' = <<>>
             /\ queueMutex' = FALSE
             /\ delay' = "execute"
             /\ UNCHANGED <<callers, conn, open, db, lost, halt>>

Executing(kind) == delay = "execute" /\ batch # <<>> /\ Head(batch).kind = kind

\* The request at the head of the batch has been executed.
Done == /\ batch' = Tail(batch)
        /\ delay' = "execute"
        /\ conn' = FALSE
        /\ open' = <<>>
        /\ UNCHANGED <<callers, m_sqlQueue, queueMutex, halt>>

Commit(stmts) == db' = db \o stmts /\ lost' = lost
Refused == lost' = lost \union {Head(batch)} /\ db' = db

\* SqlPlainRequest::Execute: the connection is locked for this one statement.
ExecuteWrite == /\ Executing("write")
                /\ Done
                /\ Commit(Head(batch).stmts) \/ Refused

\* SqlTransaction::Execute of an empty transaction.
ExecuteEmpty == /\ Executing("transaction")
                /\ Head(batch).stmts = <<>>
                /\ Done
                /\ Commit(<<>>)

\* Fault: SqlTransaction::Execute does not lock the connection.
StartTransaction_unlocked ==
    /\ Executing("transaction")
    /\ Head(batch).stmts # <<>>
    /\ delay' = "statements"
    /\ UNCHANGED <<callers, m_sqlQueue, queueMutex, batch, conn, open, db, lost, halt>>

\* LOCK_DB_CONN and START TRANSACTION, whose result is not looked at: a connection that
\* refuses it refuses the statements too.
StartTransaction ==
    /\ Executing("transaction")
    /\ Head(batch).stmts # <<>>
    /\ delay' = "statements"
    /\ conn' = TRUE
    /\ UNCHANGED <<callers, m_sqlQueue, queueMutex, batch, open, db, lost, halt>>

NextStatement == Head(batch).stmts[Len(open) + 1]

ExecuteStatement == /\ delay = "statements" /\ Len(open) < Len(Head(batch).stmts)
                    /\ open' = Append(open, NextStatement)
                    /\ UNCHANGED <<callers, m_sqlQueue, queueMutex, batch, delay, conn, db, lost, halt>>

\* Fault: a transaction whose statement fails is abandoned without a ROLLBACK.
StatementFails_open == /\ delay = "statements" /\ Len(open) < Len(Head(batch).stmts)
                       /\ batch' = Tail(batch)
                       /\ delay' = "execute"
                       /\ conn' = FALSE
                       /\ Refused
                       /\ UNCHANGED <<callers, m_sqlQueue, queueMutex, open, halt>>

StatementFails == /\ delay = "statements" /\ Len(open) < Len(Head(batch).stmts)
                  /\ Done
                  /\ Refused

CommitStatements == /\ delay = "statements" /\ Len(open) = Len(Head(batch).stmts)
                    /\ Done
                    /\ Commit(open) \/ Refused

\* SqlQuery::Execute and SqlQueryHolderEx::Execute, which keep the connection locked ...
ExecuteQuery == /\ Executing("query")
                /\ conn' = TRUE
                /\ delay' = "add"
                /\ UNCHANGED <<callers, m_sqlQueue, queueMutex, batch, open, db, lost, halt>>

\* ... until SqlResultQueue::Add has got the lock of the result queue.
AddResult == /\ delay = "add" /\ updating = "no"
             /\ results' = Append(results, [by |-> Head(batch).by, op |-> Head(batch).op,
                                            after |-> Head(batch).after,
                                            saw |-> Handled(Head(batch).by)])
             /\ batch' = Tail(batch)
             /\ delay' = "execute"
             /\ conn' = FALSE
             /\ UNCHANGED <<issued, transaction, m_sqlQueue, queueMutex, open, db, lost, updating,
                            m_running, halt>>

\* The queue is empty: back to the loop, or out of the destructor.
EndBatch == /\ delay = "execute" /\ batch = <<>>
            /\ \/ halt # "flush" /\ delay' = "loop" /\ halt' = halt
               \/ halt = "flush" /\ delay' = "exited" /\ halt' = "halted"
            /\ UNCHANGED <<callers, m_sqlQueue, queueMutex, batch, conn, open, db, lost>>

DelayThread == \/ Loop \/ LockQueue \/ MoveQueue \/ EndBatch
               \/ ExecuteWrite \/ ExecuteEmpty \/ ExecuteQuery \/ AddResult
               \/ StartTransaction \/ ExecuteStatement \/ StatementFails \/ CommitStatements

-----------------------------------------------------------------------------
(* The world thread: Database::ProcessResultQueue, and shutdown.            *)

\* SqlResultQueue::Update holds the lock of the result queue until it is empty.  World::Update
\* calls it with no transaction open.
StartUpdate == /\ updating = "no" /\ halt = "no" /\ transaction[World] = None
               /\ updating' = "updating"
               /\ UNCHANGED <<executor, issued, transaction, m_sqlQueue, db, lost, results>>

\* A callback, which may itself execute a statement.
RunCallback == /\ updating = "updating" /\ results # <<>>
               /\ results' = Tail(results)
               /\ \/ updating' = "updating"
                  \/ issued[World] < MaxOps[World] /\ updating' = "callback"
               /\ UNCHANGED <<executor, issued, transaction, m_sqlQueue, db, lost>>

CallbackExecute == /\ updating = "callback"
                   /\ NextOp(World)
                   /\ Delay(Write(World))
                   /\ updating' = "updating"
                   /\ UNCHANGED <<executor, transaction, db, lost, results>>

EndUpdate == /\ updating = "updating" /\ results = <<>>
             /\ updating' = "no"
             /\ UNCHANGED <<executor, issued, transaction, m_sqlQueue, db, lost, results>>

\* HaltDelayThread, after the world thread has ended: Stop, wait, delete.
Stop == /\ halt = "no" /\ updating = "no"
        /\ halt' = "stopping"
        /\ m_running' = FALSE
        /\ UNCHANGED <<issued, transaction, m_sqlQueue, queueMutex, batch, delay, conn, open, db,
                       lost, results, updating>>

\* Fault: the destructor does not process what was queued while the thread stopped.
DeleteThread_unflushed ==
    /\ halt = "stopping" /\ delay = "exited"
    /\ halt' = "halted"
    /\ UNCHANGED <<callers, m_sqlQueue, queueMutex, batch, delay, conn, open, db, lost>>

\* ~SqlDelayThread: ProcessRequests once more, in the halting thread.
DeleteThread == /\ halt = "stopping" /\ delay = "exited"
                /\ halt' = "flush"
                /\ delay' = "lock"
                /\ UNCHANGED <<callers, m_sqlQueue, queueMutex, batch, conn, open, db, lost>>

Halted == halt = "halted" /\ UNCHANGED vars

Client(c) == \/ Execute(c) \/ BeginTransaction(c) \/ DelayExecute(c)
             \/ CommitTransaction(c) \/ RollbackTransaction(c)
             \/ AsyncQuery(c) \/ DirectExecute(c)

Next == \/ \E c \in Clients : Client(c)
        \/ DelayThread
        \/ StartUpdate \/ RunCallback \/ CallbackExecute \/ EndUpdate
        \/ Stop \/ DeleteThread \/ Halted

\* Threads run, a lock that keeps being released is granted at last (SF), and the world
\* loop keeps calling ProcessResultQueue and ends the transactions it begins.  The other
\* clients owe nothing, nor must the server stop.
Fairness == /\ SF_vars(DelayThread)
            /\ WF_vars(StartUpdate) /\ WF_vars(RunCallback) /\ WF_vars(EndUpdate)
            /\ SF_vars(CallbackExecute) /\ SF_vars(CommitTransaction(World))
            /\ WF_vars(DeleteThread)

Spec == Init /\ [][Next]_vars /\ Fairness

-----------------------------------------------------------------------------
(* Properties.                                                             *)

\* A query sees every write its thread had delayed before it (HandlePlayerLogin reads the
\* character that LogoutPlayer has just saved), whatever the batches they end up in.
ReadYourWrites == \A i \in 1..Len(results) : results[i].after \subseteq results[i].saw

\* The delay thread and its lock-free batches are one queue: requests take effect one at a
\* time in the order they were delayed, a transaction as a whole or not at all, a direct
\* statement at once and for good.
todo == batch \o m_sqlQueue
Queue == INSTANCE DelayQueue
ImplementsDelayQueue == Queue!QueueSpec

\* Every asynchronous query is answered on the world thread, unless the server stops: no
\* cycle of the queue lock, the connection lock and the result queue's lock.
Asked(c, n) == \E i \in 1..Len(todo) : todo[i].by = c /\ todo[i].op = n /\ todo[i].kind = "query"
Answered(c, n) == \A i \in 1..Len(results) : Key(results[i]) # <<c, n>>
QueriesAnswered == \A c \in Clients : \A n \in 1..MaxOps[c] :
    Asked(c, n) ~> \/ ~Asked(c, n) /\ Answered(c, n)
                   \/ halt # "no"

\* HaltDelayThread returns, and nothing that was delayed before it is left behind.
HaltFlushes == halt = "stopping" ~> halt = "halted" /\ todo = <<>>
=============================================================================
