----------------------------- MODULE DelayQueue -----------------------------
(***************************************************************************)
(* What Database::Execute, CommitTransaction and the asynchronous queries  *)
(* promise their callers: operations take effect one at a time, in the     *)
(* order in which they were delayed, each of them as a whole or not at all.*)
(***************************************************************************)
EXTENDS Sequences

CONSTANT Operation   \* every operation that can be delayed, with its statements
CONSTANT Statement   \* every statement that can be executed directly

VARIABLES todo,   \* delayed operations that have had no effect yet
          db,     \* committed statements, in the order of their effects
          lost    \* operations the database refused

queueVars == <<todo, db, lost>>

QueueInit == todo = <<>> /\ db = <<>> /\ lost = {}

Submit == /\ todo' # <<>>
          /\ LET op == todo'[Len(todo')] IN op \in Operation /\ todo' = Append(todo, op)
          /\ UNCHANGED <<db, lost>>

Succeed == /\ todo # <<>>
           /\ todo' = Tail(todo)
           /\ db' = db \o Head(todo).stmts
           /\ UNCHANGED lost

Fail == /\ todo # <<>>
        /\ todo' = Tail(todo)
        /\ lost' = lost \union {Head(todo)}
        /\ UNCHANGED db

\* DirectExecute does not wait for what was delayed before.
Direct == /\ db' # <<>>
          /\ LET s == db'[Len(db')] IN s \in Statement /\ db' = Append(db, s)
          /\ UNCHANGED <<todo, lost>>

QueueNext == Submit \/ Succeed \/ Fail \/ Direct

QueueSpec == QueueInit /\ [][QueueNext]_queueVars
=============================================================================
