-------------------------- MODULE AtomicStatements --------------------------
(***************************************************************************)
(* Abstract specification of app/db.py, the promise the other modules rest *)
(* on: a statement that changes rows takes effect at one moment and whole, *)
(* or is refused and changes nothing.  No row of a dependent table is ever *)
(* without its target, and deleting a target takes its rows along.         *)
(***************************************************************************)
CONSTANTS Null,      \* no statement
          Threads,   \* the threads of the process
          Targets,   \* target ids
          Children   \* the tables that reference "targets"

\* A row is named by its table and the target it is or belongs to.
Row == ({"targets"} \cup Children) \X Targets
ParentOf(r) == <<"targets", r[2]>>

\* INSERT a row, DELETE a target, or read.
Statement ==
    [op : {"insert"}, row : Row]
      \cup [op : {"delete", "select"}, row : {"targets"} \X Targets]

ASSUME StatementAssumption ==
    Null \notin Statement \cup Threads /\ "targets" \notin Children

VARIABLES store,   \* the committed rows
          stmt,    \* the statement each thread is executing
          answer   \* "none" until it is answered, then "ok" or "error"

vars == <<store, stmt, answer>>

Init ==
    /\ store = {}
    /\ stmt = [c \in Threads |-> Null]
    /\ answer = [c \in Threads |-> "none"]

\* Whether the foreign keys let a statement pass, and what it makes of the rows.
Allowed(s, rows) == s.op = "insert" /\ s.row[1] # "targets" => ParentOf(s.row) \in rows

Cascade(s, rows) == {r \in rows : r[2] = s.row[2]}

After(s, rows) ==
    CASE s.op = "insert" -> rows \cup {s.row}
      [] s.op = "delete" -> rows \ Cascade(s, rows)
      [] OTHER -> rows

Call(c, s) ==
    /\ stmt[c] = Null
    /\ stmt' = [stmt EXCEPT ![c] = s]
    /\ UNCHANGED <<store, answer>>

Apply(c) ==
    /\ stmt[c] # Null /\ answer[c] = "none"
    /\ Allowed(stmt[c], store)
    /\ store' = After(stmt[c], store)
    /\ answer' = [answer EXCEPT ![c] = "ok"]
    /\ UNCHANGED stmt

Refuse(c) ==
    /\ stmt[c] # Null /\ answer[c] = "none"
    /\ answer' = [answer EXCEPT ![c] = "error"]
    /\ UNCHANGED <<store, stmt>>

Return(c) ==
    /\ answer[c] # "none"
    /\ stmt' = [stmt EXCEPT ![c] = Null]
    /\ answer' = [answer EXCEPT ![c] = "none"]
    /\ UNCHANGED store

Crash ==
    /\ stmt' = [c \in Threads |-> Null]
    /\ answer' = [c \in Threads |-> "none"]
    /\ UNCHANGED store

Next ==
    \/ \E c \in Threads : \/ \E s \in Statement : Call(c, s)
                          \/ Apply(c) \/ Refuse(c) \/ Return(c)
    \/ Crash

Spec == Init /\ [][Next]_vars

\* Deleting a target leaves none of its rows: the models of the alerting and of
\* the subscribers delete it in one step.
NoOrphans == \A r \in store : ParentOf(r) \in store

=============================================================================
