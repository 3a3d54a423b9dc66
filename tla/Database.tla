------------------------------ MODULE Database ------------------------------
(***************************************************************************)
(* app/db.py: a connection per thread, opened by its first statement, and  *)
(* one transaction per statement.  SQLite is external: a write lock, a     *)
(* private copy of the rows until the commit, foreign keys as far as the   *)
(* connection has them on, and any call into it may raise.                 *)
(***************************************************************************)
EXTENDS Integers, AtomicStatements

VARIABLES pc,     \* where each thread is in execute or query
          conn,   \* _local.conn, by the pragma foreign_keys in force; Null if none
          lock,   \* SQLite: the thread that holds the write lock
          copy,   \* SQLite: the rows as the transaction of a thread sees them
          todo    \* SQLite: the rows its statement has still to write

sqlite == <<lock, copy, todo>>
dbVars == <<vars, pc, conn, sqlite>>

Labels == {"idle", "connect", "foreign_keys", "run", "write", "rollback", "done"}

\* A thread keeps no connection whose pragmas did not all run.
TypeOK ==
    /\ store \subseteq Row
    /\ stmt \in [Threads -> Statement \cup {Null}]
    /\ answer \in [Threads -> {"none", "ok", "error"}]
    /\ pc \in [Threads -> Labels]
    /\ conn \in [Threads -> {"on", Null}]
    /\ lock \in Threads \cup {Null}
    /\ copy \in [Threads -> SUBSET Row]
    /\ todo \in [Threads -> SUBSET Row]

DbInit ==
    /\ Init
    /\ pc = [c \in Threads |-> "idle"]
    /\ conn = [c \in Threads |-> Null]
    /\ lock = Null
    /\ copy = [c \in Threads |-> {}]
    /\ todo = [c \in Threads |-> {}]

Goto(c, label) == pc' = [pc EXCEPT ![c] = label]
Answer(c, a) == answer' = [answer EXCEPT ![c] = a]

-----------------------------------------------------------------------------
(* get_db. *)

\* Mutant: the connection is kept before its pragmas are through.
ExecuteKeepsEarly(c, s) ==
    /\ Call(c, s) /\ pc[c] = "idle"
    /\ Goto(c, IF conn[c] = Null THEN "foreign_keys" ELSE "run")
    /\ conn' = [conn EXCEPT ![c] = IF @ = Null THEN "off" ELSE @]
    /\ UNCHANGED sqlite

\* execute, query or query_one is called.
Execute(c, s) ==
    /\ Call(c, s) /\ pc[c] = "idle"
    /\ Goto(c, IF conn[c] = Null THEN "connect" ELSE "run")
    /\ UNCHANGED <<conn, sqlite>>

\* sqlite3.connect and the pragmas before foreign_keys.
Connect(c) ==
    /\ pc[c] = "connect"
    /\ Goto(c, "foreign_keys")
    /\ UNCHANGED <<vars, conn, sqlite>>

\* The last pragmas; only then the connection becomes the thread's own.
Connected(c) ==
    /\ pc[c] = "foreign_keys"
    /\ conn' = [conn EXCEPT ![c] = "on"]
    /\ Goto(c, "run")
    /\ UNCHANGED <<vars, sqlite>>

\* A pragma raises: the new connection is lost.
ConnectFails(c) ==
    /\ pc[c] \in {"connect", "foreign_keys"}
    /\ Answer(c, "error") /\ Goto(c, "done")
    /\ UNCHANGED <<store, stmt, conn, sqlite>>

-----------------------------------------------------------------------------
(* execute and query. *)

\* A read sees what is committed and waits for nobody (WAL).
Select(c) ==
    /\ pc[c] = "run" /\ stmt[c].op = "select"
    /\ Answer(c, "ok") /\ Goto(c, "done")
    /\ UNCHANGED <<store, stmt, conn, sqlite>>

\* A read raises (the file cannot be read): there is no transaction to end.
SelectFails(c) ==
    /\ pc[c] = "run" /\ stmt[c].op = "select"
    /\ Answer(c, "error") /\ Goto(c, "done")
    /\ UNCHANGED <<store, stmt, conn, sqlite>>

\* The rows a statement touches: a delete cascades if foreign keys are on.
Touched(c) ==
    IF stmt[c].op = "delete" /\ conn[c] = "on"
    THEN Cascade(stmt[c], store) \cup {stmt[c].row} ELSE {stmt[c].row}

\* The implicit BEGIN, and the write lock.
Begin(c) ==
    /\ pc[c] = "run" /\ stmt[c].op # "select"
    /\ lock = Null
    /\ lock' = c
    /\ copy' = [copy EXCEPT ![c] = store]
    /\ todo' = [todo EXCEPT ![c] = Touched(c)]
    /\ Goto(c, "write")
    /\ UNCHANGED <<vars, conn>>

\* Mutant: no busy timeout, a writer waits as long as it takes.
BusyNever(c) == FALSE /\ UNCHANGED dbVars

\* busy_timeout has passed and the lock is still taken.
Busy(c) ==
    /\ pc[c] = "run" /\ stmt[c].op # "select"
    /\ lock # Null
    /\ Goto(c, "rollback")
    /\ UNCHANGED <<vars, conn, sqlite>>

\* One row is written; a foreign key that is on may refuse it.
Write(c) ==
    /\ pc[c] = "write"
    /\ conn[c] = "on" => Allowed(stmt[c], copy[c])
    /\ \E r \in todo[c] :
          /\ todo' = [todo EXCEPT ![c] = @ \ {r}]
          /\ copy' = [copy EXCEPT ![c] =
                         IF stmt[c].op = "insert" THEN @ \cup {r} ELSE @ \ {r}]
    /\ UNCHANGED <<vars, pc, conn, lock>>

\* The transaction of a thread ends, and its write lock if it had it.
Ends(c) ==
    /\ lock' = IF lock = c THEN Null ELSE lock
    /\ copy' = [copy EXCEPT ![c] = {}]
    /\ todo' = [todo EXCEPT ![c] = {}]

\* The commit publishes the copy, and the statement returns.
Commit(c) ==
    /\ pc[c] = "write" /\ todo[c] = {}
    /\ store' = copy[c]
    /\ Ends(c)
    /\ Answer(c, "ok") /\ Goto(c, "done")
    /\ UNCHANGED <<stmt, conn>>

\* A constraint, the disk or the commit fails: "with conn" sees the exception.
Fails(c) ==
    /\ pc[c] = "write"
    /\ Goto(c, "rollback")
    /\ UNCHANGED <<vars, conn, sqlite>>

\* Mutant: the transaction is committed in any case.
RollbackCommits(c) ==
    /\ pc[c] = "rollback"
    /\ store' = IF lock = c THEN copy[c] ELSE store
    /\ Ends(c)
    /\ Answer(c, "error") /\ Goto(c, "done")
    /\ UNCHANGED <<stmt, conn>>

\* Mutant: execute without "with conn" leaves its transaction open.
RollbackForgotten(c) ==
    /\ pc[c] = "rollback"
    /\ Answer(c, "error") /\ Goto(c, "done")
    /\ UNCHANGED <<store, stmt, conn, sqlite>>

\* "with conn" rolls back, and the exception goes on to the caller.
Rollback(c) ==
    /\ pc[c] = "rollback"
    /\ Ends(c)
    /\ Answer(c, "error") /\ Goto(c, "done")
    /\ UNCHANGED <<store, stmt, conn>>

DbReturn(c) ==
    /\ pc[c] = "done"
    /\ Return(c) /\ Goto(c, "idle")
    /\ UNCHANGED <<conn, sqlite>>

\* The process dies; the transaction that was open is never seen again.
DbCrash ==
    /\ Crash
    /\ pc' = [c \in Threads |-> "idle"]
    /\ conn' = [c \in Threads |-> Null]
    /\ lock' = Null
    /\ copy' = [c \in Threads |-> {}]
    /\ todo' = [c \in Threads |-> {}]

Step(c) ==
    \/ Connect(c) \/ Connected(c) \/ ConnectFails(c)
    \/ Select(c) \/ SelectFails(c) \/ Begin(c) \/ Busy(c) \/ Write(c) \/ Commit(c) \/ Fails(c)
    \/ Rollback(c) \/ DbReturn(c)

DbNext ==
    \/ \E c \in Threads : Step(c) \/ \E s \in Statement : Execute(c, s)
    \/ DbCrash

\* Threads run, and SQLite gives up waiting after busy_timeout.
DbSpec == DbInit /\ [][DbNext]_dbVars /\ \A c \in Threads : WF_dbVars(Step(c))

-----------------------------------------------------------------------------
(* Properties. *)

\* A thread holds the write lock only while it writes or is about to roll back:
\* no statement that failed leaves the database locked for all the others.
LockIsGivenBack == lock # Null => pc[lock] \in {"write", "rollback"}

\* db.execute is what the models of its callers take for one step.
AtomicSpec == Init /\ [][Next]_vars

\* Every call returns, whoever holds the lock and whatever fails.
EveryCallReturns == \A c \in Threads : pc[c] # "idle" ~> pc[c] = "idle"

=============================================================================
