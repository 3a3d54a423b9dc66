--------------------------- MODULE DatabaseProofs ---------------------------
(***************************************************************************)
(* Proofs about Database: for every number of threads, targets and tables, *)
(* a statement of db.execute is one step that takes effect whole or not at *)
(* all, and its write lock is given back.                                  *)
(***************************************************************************)
EXTENDS Database, TLAPS

\* What a thread has done of its statement fits where it is.
Progress(c) ==
    /\ pc[c] = "idle" <=> stmt[c] = Null
    /\ pc[c] = "done" <=> answer[c] # "none"
    /\ pc[c] \in {"run", "write"} => conn[c] = "on"
    /\ lock = c => pc[c] \in {"write", "rollback"}
    /\ pc[c] = "write" => lock = c /\ stmt[c].op # "select"

\* The rows a delete has removed so far are those it touches and need no more
\* be removed; nobody else has changed the table since the transaction began.
CopyFits(c) ==
    pc[c] = "write" =>
        IF stmt[c].op = "insert"
        THEN \/ todo[c] = {stmt[c].row} /\ copy[c] = store
             \/ todo[c] = {} /\ copy[c] = store \cup {stmt[c].row}
                /\ Allowed(stmt[c], store)
        ELSE /\ todo[c] \subseteq Cascade(stmt[c], store) \cup {stmt[c].row}
             /\ copy[c] = store \ ((Cascade(stmt[c], store) \cup {stmt[c].row}) \ todo[c])

Inv == TypeOK /\ \A c \in Threads : Progress(c) /\ CopyFits(c)

\* A target is a row of its own cascade.
LEMMA RowInCascade ==
    ASSUME NEW s \in Statement, s.op = "delete", NEW rows \in SUBSET Row
    PROVE  rows \ (Cascade(s, rows) \cup {s.row}) = After(s, rows)
BY DEF Statement, Cascade, After

LEMMA StmtFields ==
    ASSUME NEW s \in Statement
    PROVE  s.op \in {"insert", "delete", "select"} /\ s.row \in Row
BY DEF Statement, Row

LEMMA InitInv == DbInit => Inv
BY StatementAssumption DEF DbInit, Init, Inv, TypeOK, Progress, CopyFits, Labels

LEMMA TypeStep == Inv /\ [DbNext]_dbVars => TypeOK'
<1> SUFFICES ASSUME Inv, [DbNext]_dbVars
             PROVE  TypeOK'
  OBVIOUS
<1>0. TypeOK
  BY DEF Inv
<1> USE <1>0, StatementAssumption DEF TypeOK, Goto, Answer, sqlite, vars, Labels
<1>1. ASSUME NEW c \in Threads, NEW s \in Statement, Execute(c, s)
      PROVE  TypeOK'
  BY <1>1 DEF Execute, Call
<1>2. ASSUME NEW c \in Threads, Connect(c) \/ Connected(c) \/ ConnectFails(c)
      PROVE  TypeOK'
  BY <1>2 DEF Connect, Connected, ConnectFails
<1>3. ASSUME NEW c \in Threads, Select(c) \/ SelectFails(c) \/ Busy(c) \/ Fails(c)
      PROVE  TypeOK'
  BY <1>3 DEF Select, SelectFails, Busy, Fails
<1>4. ASSUME NEW c \in Threads, Begin(c)
      PROVE  TypeOK'
  <2>1. stmt[c] \in Statement
    BY <1>4 DEF Begin, Inv, Progress
  <2>2. Touched(c) \in SUBSET Row
    BY <2>1, StmtFields DEF Touched, Cascade
  <2> QED BY <1>4, <2>2 DEF Begin
<1>5. ASSUME NEW c \in Threads, Write(c)
      PROVE  TypeOK'
  <2>1. PICK r \in todo[c] :
           /\ todo' = [todo EXCEPT ![c] = @ \ {r}]
           /\ copy' = [copy EXCEPT ![c] =
                          IF stmt[c].op = "insert" THEN @ \cup {r} ELSE @ \ {r}]
    BY <1>5 DEF Write
  <2>2. todo' \in [Threads -> SUBSET Row] /\ copy' \in [Threads -> SUBSET Row]
    BY <2>1
  <2> QED BY <1>5, <2>2 DEF Write
<1>6. ASSUME NEW c \in Threads, Commit(c) \/ Rollback(c)
      PROVE  TypeOK'
  BY <1>6 DEF Commit, Rollback, Ends
<1>7. ASSUME NEW c \in Threads, DbReturn(c)
      PROVE  TypeOK'
  BY <1>7 DEF DbReturn, Return
<1>8. CASE DbCrash
  BY <1>8 DEF DbCrash, Crash
<1>9. CASE UNCHANGED dbVars
  BY <1>9 DEF dbVars
<1> QED BY <1>1, <1>2, <1>3, <1>4, <1>5, <1>6, <1>7, <1>8, <1>9 DEF DbNext, Step

\* What a thread does leaves the progress of the others alone.
LEMMA Others ==
    ASSUME Inv, NEW c \in Threads, Step(c) \/ (\E s \in Statement : Execute(c, s)),
           NEW d \in Threads, d # c
    PROVE  Progress(d)' /\ CopyFits(d)'
<1> USE DEF Goto, Answer, sqlite, vars
<1>1. TypeOK /\ Progress(c) /\ Progress(d) /\ CopyFits(d)
  BY DEF Inv
<1>2. /\ pc'[d] = pc[d] /\ conn'[d] = conn[d] /\ stmt'[d] = stmt[d]
      /\ answer'[d] = answer[d] /\ copy'[d] = copy[d] /\ todo'[d] = todo[d]
  <2>1. CASE \E s \in Statement : Execute(c, s)
    BY <1>1, <2>1 DEF Execute, Call, TypeOK
  <2>2. CASE Connect(c) \/ Connected(c) \/ ConnectFails(c)
    BY <1>1, <2>2 DEF Connect, Connected, ConnectFails, TypeOK
  <2>3. CASE Select(c) \/ SelectFails(c) \/ Busy(c) \/ Fails(c) \/ Begin(c)
    BY <1>1, <2>3 DEF Select, SelectFails, Busy, Fails, Begin, TypeOK
  <2>4. CASE Write(c)
    BY <1>1, <2>4 DEF Write, TypeOK
  <2>5. CASE Commit(c) \/ Rollback(c)
    BY <1>1, <2>5 DEF Commit, Rollback, Ends, TypeOK
  <2>6. CASE DbReturn(c)
    BY <1>1, <2>6 DEF DbReturn, Return, TypeOK
  <2> QED BY <2>1, <2>2, <2>3, <2>4, <2>5, <2>6 DEF Step
<1>3. lock' = d <=> lock = d
  BY <1>1, StatementAssumption DEF Execute, Call, Step, Connect, Connected, ConnectFails,
     Select, SelectFails, Busy, Fails, Begin, Write, Commit, Rollback, Ends, DbReturn, Return,
     Progress, TypeOK
<1>4. store' = store \/ lock = c
  BY <1>1 DEF Execute, Call, Step, Connect, Connected, ConnectFails, Select, SelectFails,
     Busy, Fails, Begin, Write, Commit, Rollback, DbReturn, Return, Progress
<1>5. Progress(d)'
  BY <1>1, <1>2, <1>3 DEF Progress
<1>6. CopyFits(d)'
  BY <1>1, <1>2, <1>4 DEF CopyFits, Progress, Allowed, Cascade
<1> QED BY <1>5, <1>6

\* A thread that writes a row of its transaction keeps the copy in step with it.
LEMMA WriteFits ==
    ASSUME Inv, NEW c \in Threads, Write(c)
    PROVE  Progress(c)' /\ CopyFits(c)'
<1> DEFINE s == stmt[c]
           touched == Cascade(s, store) \cup {s.row}
<1>1. /\ TypeOK /\ Progress(c) /\ CopyFits(c)
      /\ pc[c] = "write" /\ s \in Statement /\ conn[c] = "on"
      /\ s.op \in {"insert", "delete"} /\ Allowed(s, copy[c])
  BY StmtFields DEF Write, Inv, TypeOK, Progress
<1>2. PICK r \in todo[c] :
         /\ todo' = [todo EXCEPT ![c] = @ \ {r}]
         /\ copy' = [copy EXCEPT ![c] = IF s.op = "insert" THEN @ \cup {r} ELSE @ \ {r}]
  BY DEF Write
<1>3. /\ todo'[c] = todo[c] \ {r}
      /\ copy'[c] = IF s.op = "insert" THEN copy[c] \cup {r} ELSE copy[c] \ {r}
      /\ UNCHANGED <<store, stmt, answer, pc, conn, lock>>
  BY <1>1, <1>2 DEF Write, TypeOK, vars
<1>4. Progress(c)'
  BY <1>1, <1>3 DEF Progress
<1>5. CASE s.op = "insert"
  <2>1. todo[c] = {s.row} /\ copy[c] = store /\ r = s.row
    BY <1>1, <1>2, <1>5 DEF CopyFits
  <2>2. todo'[c] = {} /\ copy'[c] = store \cup {s.row} /\ Allowed(s, store)
    BY <1>1, <1>3, <1>5, <2>1
  <2> QED BY <1>3, <1>4, <1>5, <2>2 DEF CopyFits
<1>6. CASE s.op = "delete"
  <2>1. todo[c] \subseteq touched /\ copy[c] = store \ (touched \ todo[c])
    BY <1>1, <1>6 DEF CopyFits
  <2>2. todo'[c] \subseteq touched /\ copy'[c] = store \ (touched \ todo'[c])
    BY <1>2, <1>3, <1>6, <2>1
  <2> QED BY <1>3, <1>4, <1>6, <2>2 DEF CopyFits
<1> QED BY <1>1, <1>5, <1>6

LEMMA Own ==
    ASSUME Inv, NEW c \in Threads, Step(c) \/ (\E s \in Statement : Execute(c, s))
    PROVE  Progress(c)' /\ CopyFits(c)'
<1> USE StatementAssumption DEF Goto, Answer, sqlite, vars
<1>1. TypeOK /\ Progress(c) /\ CopyFits(c)
  BY DEF Inv
<1>2. CASE \E s \in Statement : Execute(c, s)
  BY <1>1, <1>2 DEF Execute, Call, TypeOK, Progress, CopyFits
<1>3. CASE Connect(c) \/ Connected(c) \/ ConnectFails(c)
  BY <1>1, <1>3 DEF Connect, Connected, ConnectFails, TypeOK, Progress, CopyFits
<1>4. CASE Select(c) \/ SelectFails(c) \/ Busy(c) \/ Fails(c)
  BY <1>1, <1>4 DEF Select, SelectFails, Busy, Fails, TypeOK, Progress, CopyFits
<1>5. CASE Begin(c)
  <2>1. stmt[c] \in Statement /\ conn[c] = "on" /\ stmt[c].op \in {"insert", "delete"}
    BY <1>1, <1>5, StmtFields DEF Begin, TypeOK, Progress
  <2>2. /\ pc'[c] = "write" /\ lock' = c /\ copy'[c] = store /\ todo'[c] = Touched(c)
        /\ UNCHANGED <<store, stmt, answer, conn>>
    BY <1>1, <1>5 DEF Begin, TypeOK
  <2>3. Progress(c)'
    BY <1>1, <1>5, <2>1, <2>2 DEF Begin, Progress
  <2> QED BY <2>1, <2>2, <2>3 DEF Touched, CopyFits
<1>6. CASE Write(c)
  BY <1>6, WriteFits
<1>7. CASE Commit(c) \/ Rollback(c)
  BY <1>1, <1>7 DEF Commit, Rollback, Ends, TypeOK, Progress, CopyFits
<1>8. CASE DbReturn(c)
  BY <1>1, <1>8 DEF DbReturn, Return, TypeOK, Progress, CopyFits
<1> QED BY <1>2, <1>3, <1>4, <1>5, <1>6, <1>7, <1>8 DEF Step

LEMMA Inductive == Inv /\ [DbNext]_dbVars => Inv'
<1> SUFFICES ASSUME Inv, [DbNext]_dbVars
             PROVE  \A d \in Threads : Progress(d)' /\ CopyFits(d)'
  BY TypeStep DEF Inv
<1>1. ASSUME NEW c \in Threads, Step(c) \/ (\E s \in Statement : Execute(c, s))
      PROVE  \A d \in Threads : Progress(d)' /\ CopyFits(d)'
  BY <1>1, Own, Others
<1>2. CASE DbCrash
  BY <1>2, StatementAssumption DEF DbCrash, Crash, Progress, CopyFits
<1>3. CASE UNCHANGED dbVars
  BY <1>3 DEF dbVars, vars, sqlite, Inv, Progress, CopyFits, Allowed, Cascade
<1> QED BY <1>1, <1>2, <1>3 DEF DbNext

\* A step of the code is a step of the abstract specification or leaves its
\* variables alone.
LEMMA StepImplements == Inv /\ [DbNext]_dbVars => [Next]_vars
<1> SUFFICES ASSUME Inv, [DbNext]_dbVars
             PROVE  [Next]_vars
  OBVIOUS
<1>1. ASSUME NEW c \in Threads, NEW s \in Statement, Execute(c, s)
      PROVE  [Next]_vars
  BY <1>1 DEF Execute, Next
<1>2. ASSUME NEW c \in Threads,
             Connect(c) \/ Connected(c) \/ Begin(c) \/ Busy(c) \/ Write(c) \/ Fails(c)
      PROVE  [Next]_vars
  BY <1>2 DEF Connect, Connected, Begin, Busy, Write, Fails, vars
<1>3. ASSUME NEW c \in Threads, ConnectFails(c) \/ SelectFails(c) \/ Rollback(c)
      PROVE  [Next]_vars
  <2>1. Refuse(c)
    BY <1>3, StatementAssumption 
       DEF ConnectFails, SelectFails, Rollback, Answer, Refuse, Inv, Progress
  <2> QED BY <2>1 DEF Next
<1>4. ASSUME NEW c \in Threads, Select(c)
      PROVE  [Next]_vars
  <2>1. stmt[c] # Null /\ answer[c] = "none" /\ stmt[c].op = "select"
    BY <1>4 DEF Select, Inv, Progress
  <2>2. Apply(c)
    BY <1>4, <2>1 DEF Select, Answer, Apply, Allowed, After
  <2> QED BY <2>2 DEF Next
<1>5. ASSUME NEW c \in Threads, Commit(c)
      PROVE  [Next]_vars
  <2>1. /\ pc[c] = "write" /\ todo[c] = {} /\ store' = copy[c]
        /\ stmt[c] \in Statement /\ stmt[c] # Null /\ answer[c] = "none"
        /\ stmt[c].op \in {"insert", "delete"} /\ store \in SUBSET Row
    BY <1>5, StmtFields, StatementAssumption DEF Commit, Inv, TypeOK, Progress
  <2>2. CopyFits(c)
    BY DEF Inv
  <2>3. Allowed(stmt[c], store) /\ store' = After(stmt[c], store)
    <3>1. CASE stmt[c].op = "insert"
      BY <2>1, <2>2, <3>1 DEF CopyFits, After
    <3>2. CASE stmt[c].op = "delete"
      <4>1. copy[c] = store \ (Cascade(stmt[c], store) \cup {stmt[c].row})
        BY <2>1, <2>2, <3>2 DEF CopyFits
      <4> QED BY <2>1, <3>2, <4>1, RowInCascade DEF Allowed
    <3> QED BY <2>1, <3>1, <3>2
  <2>4. Apply(c)
    BY <1>5, <2>1, <2>3 DEF Commit, Answer, Apply
  <2> QED BY <2>4 DEF Next
<1>6. ASSUME NEW c \in Threads, DbReturn(c)
      PROVE  [Next]_vars
  BY <1>6 DEF DbReturn, Next
<1>7. CASE DbCrash
  BY <1>7 DEF DbCrash, Next
<1>8. CASE UNCHANGED dbVars
  BY <1>8 DEF dbVars
<1> QED BY <1>1, <1>2, <1>3, <1>4, <1>5, <1>6, <1>7, <1>8 DEF DbNext, Step

\* What the other modules take for one step is one: a statement of db.execute
\* takes effect whole or not at all.
THEOREM Atomic == DbSpec => AtomicSpec
<1>1. DbInit => Init
  BY DEF DbInit
<1> QED BY <1>1, InitInv, Inductive, StepImplements, PTL DEF DbSpec, AtomicSpec

\* No statement that failed leaves the database locked.
THEOREM Locks == DbSpec => []LockIsGivenBack
<1>1. Inv => LockIsGivenBack
  BY StatementAssumption DEF Inv, TypeOK, Progress, LockIsGivenBack
<1> QED BY <1>1, InitInv, Inductive, PTL DEF DbSpec

\* No thread ever keeps a connection that does not enforce foreign keys.
THEOREM Typing == DbSpec => []TypeOK
<1>1. Inv => TypeOK
  BY DEF Inv
<1> QED BY <1>1, InitInv, Inductive, PTL DEF DbSpec

\* No row of a dependent table is ever without its target.
THEOREM ForeignKeys == DbSpec => []NoOrphans
<1>1. Init => NoOrphans
  BY DEF Init, NoOrphans
<1>2. NoOrphans /\ Inv /\ [Next]_vars => NoOrphans'
  <2> SUFFICES ASSUME NoOrphans, Inv, [Next]_vars
               PROVE  NoOrphans'
    OBVIOUS
  <2>1. ASSUME NEW c \in Threads, Apply(c)
        PROVE  NoOrphans'
    <3>1. stmt[c] \in Statement /\ Allowed(stmt[c], store) /\ store' = After(stmt[c], store)
      BY <2>1 DEF Apply, Inv, TypeOK
    <3>2. stmt[c].row \in Row /\ store \subseteq Row
      BY <3>1, StmtFields DEF Inv, TypeOK
    <3>3. CASE stmt[c].op = "insert"
      <4>1. store' = store \cup {stmt[c].row}
        BY <3>1, <3>3 DEF After
      <4>2. ParentOf(stmt[c].row) \in store'
        <5>1. CASE stmt[c].row[1] = "targets"
          BY <3>2, <4>1, <5>1 DEF Row, ParentOf
        <5>2. CASE stmt[c].row[1] # "targets"
          BY <3>1, <3>3, <4>1, <5>2 DEF Allowed
        <5> QED BY <5>1, <5>2
      <4> QED BY <4>1, <4>2 DEF NoOrphans
    <3>4. CASE stmt[c].op = "delete"
      <4>1. store' = {r \in store : r[2] # stmt[c].row[2]}
        BY <3>1, <3>4 DEF After, Cascade
      <4> QED BY <3>2, <4>1 DEF NoOrphans, ParentOf
    <3>5. CASE stmt[c].op = "select"
      BY <3>1, <3>5 DEF After, NoOrphans
    <3> QED BY <3>1, <3>3, <3>4, <3>5, StmtFields
  <2>2. CASE UNCHANGED store
    BY <2>2 DEF NoOrphans
  <2> QED BY <2>1, <2>2 DEF Next, Call, Refuse, Return, Crash, vars
<1>3. DbInit => Init
  BY DEF DbInit
<1> QED BY <1>1, <1>2, <1>3, InitInv, Inductive, StepImplements, PTL DEF DbSpec

=============================================================================
