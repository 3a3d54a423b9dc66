--------------------------- MODULE AlertingProofs ---------------------------
(***************************************************************************)
(* Proofs about Alerting, for every set of targets, threads, thresholds    *)
(* and faults: its invariants, what holds besides when nothing fails, and  *)
(* that it implements AlertPolicy.                                         *)
(***************************************************************************)
EXTENDS Alerting, TLAPS

\* A running check has a target.
JobInv == \A c \in Checkers : Busy(c) => job[c] \in Targets

TypeInv == TypeOK /\ JobInv

\* The labels of a check that has read the state row.
HasRead(c) == pc[c] \in {"record", "update", "fresh", "remind"}

\* Rows disappear with their target and ids are not used twice, so a check
\* that has read the state row and finds it gone finds the target gone as well.
\* The targets that the loop still has in its list existed once.
RowInv ==
    /\ due \subseteq born
    /\ \A t \in Targets : tgt[t] # Null => t \in born
    /\ \A t \in Targets : tgt[t] = Null => row[t] = Null
    /\ \A c \in Checkers : Busy(c) => job[c] \in born
    /\ \A c \in Checkers :
          HasRead(c) /\ tgt[job[c]] # Null => row[job[c]] # Null

\* What a check has read stays true up to its update, and no row is DOWN
\* without a stamp, neither the one in the table nor the one that was read.
SnapshotInv ==
    /\ SnapshotCurrent
    /\ DownIsStamped
    /\ \A c \in Checkers :
          pc[c] \in {"record", "update"} /\ loc[c].seen.status = "down"
              => loc[c].seen.alertAt # Null

\* The stamp of an email is pending from the update to the call of notify.
EmailInv ==
    /\ OneEmailPerStamp
    /\ \A c \in Checkers :
          /\ pc[c] = "fresh" /\ loc[c].todo \in {"down", "reminder"}
          /\ tgt[job[c]] # Null
          => pending[job[c]]

\* A check that found its target down and may be about to remind.
Reminds(c) ==
    \/ pc[c] = "remind"
    \/ pc[c] = "fresh" /\ loc[c].todo = "remind"

\* Stamps are times that have passed, in the order in which they were read,
\* and a reminder is decided on the stamp that the row still has.
StampInv ==
    /\ \A t \in Targets :
          row[t] # Null /\ row[t].alertAt # Null => row[t].alertAt <= now
    /\ \A c \in Checkers : pc[c] \in {"record", "update"} =>
          /\ loc[c].at <= now
          /\ loc[c].seen.alertAt # Null => loc[c].seen.alertAt <= loc[c].at
    /\ \A c \in Checkers : Reminds(c) /\ row[job[c]] # Null
          => /\ row[job[c]].status \in {"down", "unknown"}
             /\ row[job[c]].alertAt # Null
    /\ \A c \in Checkers : pc[c] = "remind" /\ row[job[c]] # Null
          => row[job[c]].alertAt = loc[c].stamp

Inv == TypeInv /\ ClaimExclusive /\ RowInv /\ SnapshotInv /\ EmailInv /\ StampInv

-----------------------------------------------------------------------------
(* Lemmas on the operators of TargetState. *)

\* What the updates make of a state row is a state row.
LEMMA RowTypes ==
    ASSUME NEW r \in Row, NEW seen \in Row, NEW threshold \in Nat, NEW at \in Nat
    PROVE  /\ NewRow \in Row
           /\ ApplyOk(r, seen) \in Row
           /\ ApplyFail(r, seen, threshold, at) \in Row
           /\ [r EXCEPT !.alertAt = at] \in Row
<1>1. NewRow \in Row
  BY DEF Row, Status, NewRow
<1>2. ApplyOk(r, seen) \in Row
  <2>1. CASE Recovered(seen)
    BY <2>1 DEF Row, Status, ApplyOk
  <2>2. CASE ~Recovered(seen)
    BY <2>2 DEF Row, Status, ApplyOk
  <2> QED BY <2>1, <2>2
<1>3. ApplyFail(r, seen, threshold, at) \in Row
  <2>1. CASE NewlyDown(seen, threshold)
    BY <2>1 DEF Row, Status, ApplyFail
  <2>2. CASE ~NewlyDown(seen, threshold)
    <3>1. seen.status \in Status /\ seen.fails + 1 \in Nat
      BY DEF Row
    <3>2. [r EXCEPT !.status = seen.status, !.fails = seen.fails + 1] \in Row
      BY <3>1 DEF Row
    <3> QED BY <2>2, <3>2 DEF ApplyFail
  <2> QED BY <2>1, <2>2
<1>4. [r EXCEPT !.alertAt = at] \in Row
  BY DEF Row
<1> QED BY <1>1, <1>2, <1>3, <1>4

\* A pause keeps the stamp and leaves the status unknown.
LEMMA ForgetRow ==
    ASSUME NEW r \in Row
    PROVE  /\ Forget(r) \in Row
           /\ Forget(r).status = "unknown"
           /\ Forget(r).fails = 0
           /\ Forget(r).alertAt = r.alertAt
BY DEF Row, Status, Forget

LEMMA RowNotNull == NewRow \in Row
BY DEF Row, Status, NewRow


-----------------------------------------------------------------------------
(* Types. *)

LEMMA TypeInit == Init => TypeInv
BY AlertingAssumption DEF Init, TypeInv, TypeOK, JobInv, Busy, NoLocals, Locals, Todos,
   NewRow, Row, Status, Idle, AdminStates, PCs

\* EnsureRow keeps the type of the table and finds or makes a row.
LEMMA EnsureRowType ==
    ASSUME NEW t \in Targets, row \in [Targets -> Row \cup {Null}], EnsureRow(t)
    PROVE  /\ row' \in [Targets -> Row \cup {Null}]
           /\ row'[t] \in Row
BY RowNotNull DEF EnsureRow

LEMMA TypeStep == TypeInv /\ [Next]_vars => TypeInv'
<1> SUFFICES ASSUME TypeInv, [Next]_vars
             PROVE  TypeInv'
  OBVIOUS
<1> USE DEF TypeInv, TypeOK, JobInv, Busy
<1>1. ASSUME NEW c \in Checkers, NEW t \in Targets, Claim(c, t)
      PROVE  TypeInv'
  BY <1>1 DEF Claim, Goto, PCs, targetVars
<1>2. ASSUME NEW c \in Checkers, GetTarget(c)
      PROVE  TypeInv'
  <2>1. tgt[job[c]] \in Target
    BY <1>2 DEF GetTarget
  <2>2. loc' \in [Checkers -> Locals]
    <3>1. tgt[job[c]].threshold \in Nat
      BY <2>1, AlertingAssumption DEF Target
    <3>2. [loc[c] EXCEPT !.threshold = tgt[job[c]].threshold] \in Locals
      BY <3>1 DEF Locals
    <3> QED BY <1>2, <3>2 DEF GetTarget
  <2> QED BY <1>2, <2>2 DEF GetTarget, Goto, PCs, targetVars
<1>3. ASSUME NEW c \in Checkers, NEW ok \in BOOLEAN, Probe(c, ok)
      PROVE  TypeInv'
  <2>1. loc' \in [Checkers -> Locals]
    <3>1. [loc[c] EXCEPT !.ok = ok] \in Locals
      BY DEF Locals
    <3> QED BY <1>3, <3>1 DEF Probe
  <2> QED BY <1>3, <2>1 DEF Probe, Goto, PCs, targetVars
<1>4. ASSUME NEW c \in Checkers, ReadState(c)
      PROVE  TypeInv'
  <2>1. row' \in [Targets -> Row \cup {Null}] /\ row'[job[c]] \in Row
    BY <1>4, EnsureRowType DEF ReadState
  <2>2. loc' \in [Checkers -> Locals]
    <3>1. ASSUME NEW l \in Locals, NEW seen \in Row
          PROVE  [l EXCEPT !.at = now, !.seen = seen] \in Locals
      BY DEF Locals
    <3>2. [loc[c] EXCEPT !.at = now, !.seen = row'[job[c]]] \in Locals
      BY <2>1, <3>1
    <3> QED BY <1>4, <3>2 DEF ReadState
  <2> QED BY <1>4, <2>1, <2>2 DEF ReadState, Goto, PCs, targetVars
<1>5. ASSUME NEW c \in Checkers, RecordCheck(c)
      PROVE  TypeInv'
  BY <1>5 DEF RecordCheck, Goto, PCs, targetVars
<1>6. ASSUME NEW c \in Checkers, UpdateOk(c)
      PROVE  TypeInv'
  <2>1. loc[c].seen \in Row
    BY DEF Locals
  <2>2. row' \in [Targets -> Row \cup {Null}]
    BY <1>6, <2>1, RowTypes DEF UpdateOk
  <2>3. loc' \in [Checkers -> Locals]
    <3>1. loc' \in {loc, [loc EXCEPT ![c].todo = "recovery"]}
      BY <1>6 DEF UpdateOk
    <3>2. [loc[c] EXCEPT !.todo = "recovery"] \in Locals
      BY DEF Locals, Todos
    <3> QED BY <3>1, <3>2
  <2> QED BY <1>6, <2>2, <2>3 DEF UpdateOk, Goto, PCs, targetVars
<1>7. ASSUME NEW c \in Checkers, UpdateFail(c)
      PROVE  TypeInv'
  <2>1. loc[c].seen \in Row /\ loc[c].threshold \in Nat /\ loc[c].at \in Nat
    BY DEF Locals
  <2>2. row' \in [Targets -> Row \cup {Null}]
    BY <1>7, <2>1, RowTypes DEF UpdateFail
  <2>3. loc' \in [Checkers -> Locals]
    <3> DEFINE todo == TodoAfterFailure(loc[c].seen, loc[c].threshold)
    <3>1. loc' = [loc EXCEPT ![c].todo = todo] /\ todo \in Todos
      BY <1>7 DEF UpdateFail, TodoAfterFailure, Todos
    <3>2. [loc[c] EXCEPT !.todo = todo] \in Locals
      BY <3>1 DEF Locals
    <3> HIDE DEF todo
    <3> QED BY <3>1, <3>2
  <2>4. pending' \in [Targets -> BOOLEAN]
    BY <1>7, Zenon DEF UpdateFail
  <2> QED BY <1>7, <2>2, <2>3, <2>4 DEF UpdateFail, Goto, PCs, targetVars
<1>8. ASSUME NEW c \in Checkers, FreshState(c)
      PROVE  TypeInv'
  <2>1. row' \in [Targets -> Row \cup {Null}] /\ row'[job[c]] \in Row
    BY <1>8, EnsureRowType DEF FreshState
  <2>2. row'[job[c]].alertAt \in Nat \cup {Null}
    BY <2>1 DEF Row
  <2>3. [loc[c] EXCEPT !.stamp = row'[job[c]].alertAt] \in Locals
    BY <2>2 DEF Locals
  <2>4. loc' \in [Checkers -> Locals]
    BY <1>8, <2>3 DEF FreshState
  <2> QED BY <1>8, <2>1, <2>4 DEF FreshState, Goto, PCs, targetVars
<1>9. ASSUME NEW c \in Checkers, Remind(c)
      PROVE  TypeInv'
  <2>1. row' \in [Targets -> Row \cup {Null}]
    BY <1>9, RowTypes DEF Remind
  <2>2. loc' \in [Checkers -> Locals]
    <3>1. [loc[c] EXCEPT !.todo = "reminder"] \in Locals
      BY DEF Locals, Todos
    <3> QED BY <1>9, <3>1 DEF Remind
  <2>3. pending' \in [Targets -> BOOLEAN]
    BY <1>9, Zenon DEF Remind
  <2> QED BY <1>9, <2>1, <2>2, <2>3 DEF Remind, Goto, PCs, targetVars
<1>10. ASSUME NEW c \in Checkers, RemindNotDue(c) \/ Vanished(c) \/ CheckFails(c)
       PROVE  TypeInv'
  BY <1>10 DEF RemindNotDue, Vanished, CheckFails, Goto, PCs, targetVars
<1>11. ASSUME NEW c \in Checkers, Notify(c)
       PROVE  TypeInv'
  <2>1. pending' \in [Targets -> BOOLEAN]
    BY <1>11, Zenon DEF Notify
  <2> QED BY <1>11, <2>1 DEF Notify, Goto, PCs, targetVars
<1>12. ASSUME NEW c \in Checkers, Release(c)
       PROVE  TypeInv'
  <2>1. NoLocals \in Locals
    BY RowNotNull DEF NoLocals, Locals, Todos
  <2> QED BY <1>12, <2>1 DEF Release, Released, Goto, PCs, targetVars
<1>13. ASSUME NEW a \in Admins, NEW t \in Targets, NEW new \in Target,
              CreateTarget(a, t, new) \/ UpdateTarget(a, t, new)
       PROVE  TypeInv'
  BY <1>13 DEF CreateTarget, UpdateTarget, After, AdminStates, checkVars
<1>14. ASSUME NEW a \in Admins, NEW s \in Targets, NEW t \in Targets, CloneTarget(a, s, t)
       PROVE  TypeInv'
  <2>1. [tgt[s] EXCEPT !.enabled = FALSE] \in Target
    BY <1>14 DEF CloneTarget, Target
  <2> QED BY <1>13, <1>14, <2>1 DEF CloneTarget
<1>15. ASSUME NEW a \in Admins, NEW t \in Targets, ToggleTarget(a, t)
       PROVE  TypeInv'
  BY <1>15 DEF ToggleTarget, After, AdminStates, checkVars
<1>16. ASSUME NEW a \in Admins, NEW t \in Targets, DeleteTarget(a, t)
       PROVE  TypeInv'
  BY <1>16 DEF DeleteTarget, checkVars
<1>17. ASSUME NEW a \in Admins, InsertState(a)
       PROVE  TypeInv'
  <2>1. adm[a].target \in Targets
    BY <1>17 DEF InsertState, AdminStates, Idle
  <2>2. row' \in [Targets -> Row \cup {Null}]
    BY <1>17, <2>1, EnsureRowType DEF InsertState
  <2> QED BY <1>17, <2>2 DEF InsertState, After, AdminStates, checkVars
<1>18. ASSUME NEW a \in Admins, SetEnabled(a)
       PROVE  TypeInv'
  <2>1. adm[a].target \in Targets /\ adm[a].want \in BOOLEAN
    BY <1>18 DEF SetEnabled, AdminStates, Idle
  <2>2. tgt' \in [Targets -> Target \cup {Null}]
    BY <1>18, <2>1 DEF SetEnabled, Target
  <2> QED BY <1>18, <2>1, <2>2 DEF SetEnabled, After, AdminStates, checkVars
<1>19. ASSUME NEW a \in Admins, ForgetStatus(a)
       PROVE  TypeInv'
  <2>1. adm[a].target \in Targets
    BY <1>19 DEF ForgetStatus, AdminStates, Idle
  <2>2. row' \in [Targets -> Row \cup {Null}]
    BY <1>19, <2>1, ForgetRow DEF ForgetStatus
  <2> QED BY <1>19, <2>2 DEF ForgetStatus, After, AdminStates, checkVars
<1>20. ASSUME NEW a \in Admins, AdminFails(a)
       PROVE  TypeInv'
  BY <1>20 DEF AdminFails, After, AdminStates, checkVars
<1>21. CASE Crash
  <2>1. NoLocals \in Locals
    BY RowNotNull DEF NoLocals, Locals, Todos
  <2> QED BY <1>21, <2>1 DEF Crash, PCs, AdminStates
<1>22. CASE Tick
  BY <1>22 DEF Tick, targetVars, checkVars
<1>23. CASE DueTargets
  BY <1>23 DEF DueTargets, targetVars
<1>24. CASE UNCHANGED vars
  BY <1>24 DEF vars, targetVars, checkVars
<1> QED
  BY <1>1, <1>2, <1>3, <1>4, <1>5, <1>6, <1>7, <1>8, <1>9, <1>10, <1>11, <1>12, <1>13,
     <1>14, <1>15, <1>16, <1>17, <1>18, <1>19, <1>20, <1>21, <1>22, <1>23, <1>24
     DEF Next, CheckStep, AdminStep

\* The tables and the locals of every thread keep their type: in particular no
\* check works on NULL instead of a target.
THEOREM Typing == Spec => []TypeOK
<1>1. Spec => []TypeInv
  BY TypeInit, TypeStep, PTL DEF Spec
<1> QED BY <1>1, PTL DEF TypeInv

-----------------------------------------------------------------------------
(* Claims. *)

\* The steps of a check between its claim and its release.
InnerStep(c) ==
    \/ GetTarget(c)
    \/ \E ok \in BOOLEAN : Probe(c, ok)
    \/ ReadState(c)
    \/ RecordCheck(c)
    \/ UpdateOk(c)
    \/ UpdateFail(c)
    \/ FreshState(c)
    \/ Remind(c)
    \/ RemindNotDue(c)
    \/ Notify(c)
    \/ Vanished(c)
    \/ CheckFails(c)

\* They are taken by busy checks, and leave claims and the other checks alone.
LEMMA InnerFrame ==
    ASSUME TypeInv, NEW c \in Checkers, InnerStep(c)
    PROVE  /\ pc[c] \notin {"idle", "release"}
           /\ job[c] \in Targets
           /\ inflight' = inflight /\ job' = job
           /\ pc'[c] # "idle"
           /\ \A d \in Checkers : d # c => pc'[d] = pc[d] /\ loc'[d] = loc[d]
           /\ UNCHANGED <<tgt, born, adm, due, now>>
<1> USE DEF TypeInv, TypeOK, JobInv, Busy, targetVars, Goto
<1>1. CASE GetTarget(c) \/ \E ok \in BOOLEAN : Probe(c, ok)
  BY <1>1 DEF GetTarget, Probe
<1>2. CASE ReadState(c) \/ RecordCheck(c) \/ FreshState(c)
  BY <1>2 DEF ReadState, RecordCheck, FreshState
<1>3. CASE UpdateOk(c) \/ UpdateFail(c)
  BY <1>3 DEF UpdateOk, UpdateFail
<1>4. CASE Remind(c) \/ RemindNotDue(c) \/ Notify(c)
  BY <1>4 DEF Remind, RemindNotDue, Notify
<1>5. CASE Vanished(c) \/ CheckFails(c)
  BY <1>5 DEF Vanished, CheckFails
<1> QED BY <1>1, <1>2, <1>3, <1>4, <1>5 DEF InnerStep

\* Operators and the clock leave the checks alone.
LEMMA OuterFrame ==
    ASSUME NEW a \in Admins, AdminStep(a) \/ AdminFails(a) \/ Tick
    PROVE  UNCHANGED <<inflight, pc, job, loc, pending>>
BY DEF AdminStep, CreateTarget, CloneTarget, UpdateTarget, InsertState, ToggleTarget,
   SetEnabled, ForgetStatus, DeleteTarget, AdminFails, Tick, checkVars

LEMMA AdminFrame ==
    ASSUME NEW a \in Admins, AdminStep(a) \/ AdminFails(a)
    PROVE  UNCHANGED now
BY DEF AdminStep, CreateTarget, CloneTarget, UpdateTarget, InsertState, ToggleTarget,
   SetEnabled, ForgetStatus, DeleteTarget, AdminFails

LEMMA ClaimStep == TypeInv /\ ClaimExclusive /\ [Next]_vars => ClaimExclusive'
<1> SUFFICES ASSUME TypeInv, ClaimExclusive, [Next]_vars
             PROVE  ClaimExclusive'
  OBVIOUS
<1> USE DEF ClaimExclusive, Busy
<1>1. ASSUME NEW c \in Checkers, NEW t \in Targets, Claim(c, t)
      PROVE  ClaimExclusive'
  BY <1>1 DEF Claim, Unclaimed, Goto, TypeInv, TypeOK
<1>2. ASSUME NEW c \in Checkers, InnerStep(c)
      PROVE  ClaimExclusive'
  BY <1>2, InnerFrame
<1>3. ASSUME NEW c \in Checkers, Release(c)
      PROVE  ClaimExclusive'
  BY <1>3 DEF Release, Released, Goto, TypeInv, TypeOK
<1>4. ASSUME NEW a \in Admins, AdminStep(a) \/ AdminFails(a)
      PROVE  ClaimExclusive'
  BY <1>4, OuterFrame
<1>5. CASE Crash
  BY <1>5 DEF Crash
<1>6. CASE Tick \/ DueTargets \/ UNCHANGED vars
  BY <1>6 DEF Tick, DueTargets, targetVars, vars, checkVars
<1> QED
  BY <1>1, <1>2, <1>3, <1>4, <1>5, <1>6 DEF Next, CheckStep, InnerStep

\* No target is ever checked twice at the same time, and every running check
\* holds the claim of its target.
THEOREM Claims == Spec => []ClaimExclusive
<1>1. Init => ClaimExclusive
  BY DEF Init, ClaimExclusive, Busy
<1>2. Spec => [](TypeInv /\ ClaimExclusive)
  BY <1>1, TypeInit, TypeStep, ClaimStep, PTL DEF Spec
<1> QED BY <1>2, PTL

-----------------------------------------------------------------------------
(* Rows. *)

\* Every check step keeps the rows there are, and makes one only for a target
\* that exists.
LEMMA InnerRows ==
    ASSUME TypeInv, NEW c \in Checkers, InnerStep(c)
    PROVE  /\ \A t \in Targets : t # job[c] => row'[t] = row[t]
           /\ row[job[c]] # Null => row'[job[c]] # Null
           /\ row[job[c]] = Null /\ tgt[job[c]] = Null => row'[job[c]] = Null
<1> USE DEF TypeInv, TypeOK, JobInv, Busy
<1> DEFINE t == job[c]
<1>0. t \in Targets
  BY InnerFrame
<1>1. CASE GetTarget(c) \/ (\E ok \in BOOLEAN : Probe(c, ok)) \/ RecordCheck(c)
           \/ RemindNotDue(c) \/ Notify(c) \/ Vanished(c) \/ CheckFails(c)
  BY <1>1 DEF GetTarget, Probe, RecordCheck, RemindNotDue, Notify, Vanished, CheckFails
<1>2. CASE ReadState(c) \/ FreshState(c)
  BY <1>0, <1>2, RowNotNull, NullAssumption DEF ReadState, FreshState, EnsureRow
<1>3. CASE UpdateOk(c)
  <2>1. row[t] # Null => ApplyOk(row[t], loc[c].seen) \in Row
    BY <1>0, RowTypes DEF Locals
  <2> QED BY <1>0, <1>3, <2>1, NullAssumption DEF UpdateOk
<1>4. CASE UpdateFail(c)
  <2>1. row[t] # Null =>
           ApplyFail(row[t], loc[c].seen, loc[c].threshold, loc[c].at) \in Row
    BY <1>0, RowTypes DEF Locals
  <2> QED BY <1>0, <1>4, <2>1, NullAssumption DEF UpdateFail
<1>5. CASE Remind(c)
  <2>1. row[t] # Null => [row[t] EXCEPT !.alertAt = now] \in Row
    BY <1>0, RowTypes
  <2> QED BY <1>0, <1>5, <2>1, NullAssumption DEF Remind
<1> QED BY <1>1, <1>2, <1>3, <1>4, <1>5 DEF InnerStep

\* A check that is at one of them has just read the row, or was at one before.
LEMMA InnerRead ==
    ASSUME TypeInv, NEW c \in Checkers, InnerStep(c), HasRead(c)', ~HasRead(c)
    PROVE  row'[job[c]] # Null
<1> USE DEF TypeInv, TypeOK, JobInv, Busy, HasRead
<1>1. ReadState(c)
  BY DEF InnerStep, GetTarget, Probe, RecordCheck, UpdateOk, UpdateFail, FreshState, Remind,
         RemindNotDue, Notify, Vanished, CheckFails, Goto
<1> QED BY <1>1, EnsureRowType, NullAssumption DEF ReadState

LEMMA RowStep == TypeInv /\ ClaimExclusive /\ RowInv /\ [Next]_vars => RowInv'
<1> SUFFICES ASSUME TypeInv, ClaimExclusive, RowInv, [Next]_vars
             PROVE  RowInv'
  OBVIOUS
<1> USE DEF RowInv, HasRead, Busy
<1>1. ASSUME NEW c \in Checkers, NEW t \in Targets, Claim(c, t)
      PROVE  RowInv'
  BY <1>1 DEF Claim, Goto, TypeInv, TypeOK, targetVars
<1>2. ASSUME NEW c \in Checkers, InnerStep(c)
      PROVE  RowInv'
  <2>1. \A t \in Targets : tgt'[t] = Null => row'[t] = Null
    BY <1>2, InnerFrame, InnerRows
  <2>2. \A d \in Checkers : Busy(d)' => Busy(d) /\ job'[d] = job[d]
    BY <1>2, InnerFrame
  <2>3. ASSUME NEW d \in Checkers, HasRead(d)', tgt'[job'[d]] # Null
        PROVE  row'[job'[d]] # Null
    <3>1. CASE d = c
      BY <1>2, <2>3, <3>1, InnerFrame, InnerRows, InnerRead
    <3>2. CASE d # c
      <4>1. HasRead(d) /\ job'[d] = job[d] /\ job[d] # job[c] /\ job[d] \in Targets
        BY <1>2, <2>3, <3>2, InnerFrame DEF ClaimExclusive, TypeInv, JobInv
      <4> QED BY <1>2, <2>3, <4>1, InnerFrame, InnerRows
    <3> QED BY <3>1, <3>2
  <2> QED BY <1>2, <2>1, <2>2, <2>3, InnerFrame
<1>3. ASSUME NEW c \in Checkers, Release(c)
      PROVE  RowInv'
  BY <1>3 DEF Release, Goto, TypeInv, TypeOK, targetVars
<1>4. ASSUME NEW a \in Admins, NEW t \in Targets, NEW new \in Target, CreateTarget(a, t, new)
      PROVE  RowInv'
  BY <1>4 DEF CreateTarget, checkVars, TypeInv, TypeOK, JobInv
<1>5. ASSUME NEW a \in Admins, NEW t \in Targets, NEW new \in Target, UpdateTarget(a, t, new)
      PROVE  RowInv'
  BY <1>5, AlertingAssumption DEF UpdateTarget, checkVars, TypeInv, TypeOK, JobInv
<1>6. ASSUME NEW a \in Admins, NEW s \in Targets, NEW t \in Targets, CloneTarget(a, s, t)
      PROVE  RowInv'
  <2>1. tgt[s] \in Target
    BY <1>6 DEF CloneTarget, TypeInv, TypeOK
  <2>2. [tgt[s] EXCEPT !.enabled = FALSE] \in Target
    BY <2>1 DEF Target
  <2> QED BY <1>4, <1>6, <2>2 DEF CloneTarget
<1>7. ASSUME NEW a \in Admins, NEW t \in Targets, DeleteTarget(a, t)
      PROVE  RowInv'
  BY <1>7 DEF DeleteTarget, checkVars, TypeInv, TypeOK, JobInv
<1>8. ASSUME NEW a \in Admins, InsertState(a)
      PROVE  RowInv'
  <2>1. adm[a].target \in Targets
    BY <1>8 DEF InsertState, AdminStates, Idle, TypeInv, TypeOK
  <2> QED BY <1>8, <2>1, RowNotNull, NullAssumption
          DEF InsertState, EnsureRow, checkVars, TypeInv, TypeOK, JobInv
<1>9. ASSUME NEW a \in Admins, SetEnabled(a)
      PROVE  RowInv'
  <2>1. adm[a].target \in Targets /\ adm[a].want \in BOOLEAN
    BY <1>9 DEF SetEnabled, AdminStates, Idle, TypeInv, TypeOK
  <2>2. \A t \in Targets : tgt'[t] = Null <=> tgt[t] = Null
    BY <1>9, <2>1, AlertingAssumption DEF SetEnabled, Target, TypeInv, TypeOK
  <2> QED BY <1>9, <2>2 DEF SetEnabled, checkVars, TypeInv, TypeOK, JobInv
<1>10. ASSUME NEW a \in Admins, ForgetStatus(a)
       PROVE  RowInv'
  <2>1. adm[a].target \in Targets
    BY <1>10 DEF ForgetStatus, AdminStates, Idle, TypeInv, TypeOK
  <2>2. \A t \in Targets : row'[t] = Null <=> row[t] = Null
    BY <1>10, <2>1, ForgetRow, NullAssumption DEF ForgetStatus, TypeInv, TypeOK
  <2> QED BY <1>10, <2>2 DEF ForgetStatus, checkVars, TypeInv, TypeOK, JobInv
<1>11. ASSUME NEW a \in Admins,
              AdminFails(a) \/ \E t \in Targets : ToggleTarget(a, t)
       PROVE  RowInv'
  BY <1>11 DEF AdminFails, ToggleTarget, checkVars
<1>12. CASE Crash
  BY <1>12 DEF Crash
<1>13. CASE Tick \/ DueTargets \/ UNCHANGED vars
  BY <1>13 DEF Tick, DueTargets, vars, checkVars, targetVars
<1> QED
  BY <1>1, <1>2, <1>3, <1>4, <1>5, <1>6, <1>7, <1>8, <1>9, <1>10, <1>11, <1>12, <1>13
     DEF Next, CheckStep, InnerStep, AdminStep

-----------------------------------------------------------------------------
(* Snapshots. *)

\* What a successful check writes.
LEMMA ApplyOkRow ==
    ASSUME NEW r \in Row, NEW seen \in Row
    PROVE  /\ ApplyOk(r, seen).status = "up"
           /\ ApplyOk(r, seen).alertAt \in {Null, r.alertAt}
           /\ Recovered(seen) => ApplyOk(r, seen).alertAt = Null
           /\ ~Recovered(seen) => ApplyOk(r, seen).alertAt = r.alertAt
BY DEF ApplyOk, Row

\* What a failed check writes: DOWN with a new stamp, or what it had read.
LEMMA ApplyFailRow ==
    ASSUME NEW r \in Row, NEW seen \in Row, NEW threshold \in Nat, NEW at \in Nat
    PROVE  LET new == ApplyFail(r, seen, threshold, at)
           IN  /\ NewlyDown(seen, threshold) => new.status = "down" /\ new.alertAt = at
               /\ ~NewlyDown(seen, threshold) =>
                     new.status = seen.status /\ new.alertAt = r.alertAt
BY DEF ApplyFail, Row

\* What operators may do to the rows of a target.
LEMMA AdminRows ==
    ASSUME TypeInv, NEW a \in Admins, AdminStep(a) \/ AdminFails(a), NEW t \in Targets
    PROVE  /\ \/ row'[t] \in {row[t], Null}
              \/ row[t] # Null /\ row'[t] = Forget(row[t])
              \/ row[t] = Null /\ tgt[t] # Null /\ row'[t] = NewRow
           /\ tgt'[t] # Null => tgt[t] # Null \/ t \notin born
           /\ UNCHANGED now
<1> USE DEF TypeInv, TypeOK, checkVars
<1>1. ASSUME NEW s \in Targets, NEW new \in Target,
             CreateTarget(a, s, new) \/ UpdateTarget(a, s, new)
      PROVE  row' = row /\ now' = now /\ (tgt'[t] # Null => tgt[t] # Null \/ t \notin born)
  BY <1>1 DEF CreateTarget, UpdateTarget
<1>2. ASSUME NEW s \in Targets, NEW u \in Targets, CloneTarget(a, u, s)
      PROVE  row' = row /\ now' = now /\ (tgt'[t] # Null => tgt[t] # Null \/ t \notin born)
  BY <1>2 DEF CloneTarget, CreateTarget
<1>3. CASE AdminFails(a) \/ \E s \in Targets : ToggleTarget(a, s)
  BY <1>3 DEF AdminFails, ToggleTarget
<1>4. ASSUME NEW s \in Targets, DeleteTarget(a, s)
      PROVE  row'[t] \in {row[t], Null} /\ now' = now /\ (tgt'[t] # Null => tgt[t] # Null)
  BY <1>4 DEF DeleteTarget
<1>5. CASE InsertState(a)
  <2>1. adm[a].target \in Targets
    BY <1>5 DEF InsertState, AdminStates, Idle
  <2> QED BY <1>5, <2>1 DEF InsertState, EnsureRow
<1>6. CASE SetEnabled(a)
  <2>1. adm[a].target \in Targets
    BY <1>6 DEF SetEnabled, AdminStates, Idle
  <2> QED BY <1>6, <2>1 DEF SetEnabled
<1>7. CASE ForgetStatus(a)
  <2>1. adm[a].target \in Targets
    BY <1>7 DEF ForgetStatus, AdminStates, Idle
  <2> QED BY <1>7, <2>1 DEF ForgetStatus
<1> QED BY <1>1, <1>2, <1>3, <1>4, <1>5, <1>6, <1>7 DEF AdminStep

LEMMA SnapshotStep ==
    TypeInv /\ ClaimExclusive /\ RowInv /\ SnapshotInv /\ [Next]_vars => SnapshotInv'
<1> SUFFICES ASSUME TypeInv, ClaimExclusive, RowInv, SnapshotInv, [Next]_vars
             PROVE  SnapshotInv'
  OBVIOUS
<1> DEFINE Pending(c) == pc[c] \in {"record", "update"}
           Current(c) == \/ row[job[c]] = Null
                         \/ row[job[c]] = loc[c].seen
                         \/ row[job[c]] = Forget(loc[c].seen)
           Stamped(r) == r # Null /\ r.status = "down" => r.alertAt # Null
           Good(c)    == Pending(c) => Current(c) /\ Stamped(loc[c].seen)
<1>0. /\ \A c \in Checkers : Pending(c) => Busy(c) /\ HasRead(c) /\ job[c] \in Targets
      /\ \A c \in Checkers : loc[c].seen \in Row
      /\ \A c \in Checkers : Good(c)
      /\ \A t \in Targets : Stamped(row[t])
  BY DEF SnapshotInv, SnapshotCurrent, DownIsStamped, Busy, HasRead, TypeInv, TypeOK, JobInv,
         Locals
<1>b. TypeInv'
  BY TypeStep
<1> SUFFICES /\ \A c \in Checkers : Good(c)'
             /\ \A t \in Targets : Stamped(row'[t])
  BY <1>b, NullAssumption
     DEF SnapshotInv, SnapshotCurrent, DownIsStamped, TypeInv, TypeOK, Locals
<1>1. ASSUME NEW c \in Checkers, NEW t \in Targets, Claim(c, t)
      PROVE  (\A d \in Checkers : Good(d)') /\ \A u \in Targets : Stamped(row'[u])
  BY <1>0, <1>1 DEF Claim, Goto, TypeInv, TypeOK
<1>2. ASSUME NEW c \in Checkers, InnerStep(c)
      PROVE  (\A d \in Checkers : Good(d)') /\ \A u \in Targets : Stamped(row'[u])
  <2> DEFINE t == job[c]
  <2>0. t \in Targets /\ row[t] \in Row \cup {Null} /\ row'[t] \in Row \cup {Null}
    BY <1>2, <1>b, InnerFrame DEF TypeInv, TypeOK
  <2>1. ASSUME NEW d \in Checkers, d # c
        PROVE  Good(d)'
    <3> SUFFICES ASSUME Pending(d)' PROVE (Current(d) /\ Stamped(loc[d].seen))'
      OBVIOUS
    <3>1. Pending(d) /\ loc'[d] = loc[d] /\ job'[d] = job[d] /\ job[d] # t
      BY <1>0, <1>2, <2>1, InnerFrame DEF ClaimExclusive, Busy
    <3> QED BY <1>0, <1>2, <3>1, InnerRows
  <2>2. CASE ReadState(c)
    <3>1. /\ row'[t] \in Row /\ (row[t] # Null => row'[t] = row[t])
          /\ row[t] = Null => row'[t] = NewRow
          /\ job'[c] = t /\ loc'[c].seen = row'[t]
      BY <2>0, <2>2, RowNotNull, NullAssumption
         DEF ReadState, EnsureRow, TypeInv, TypeOK, Locals
    <3>2. Stamped(row'[t])
      BY <1>0, <2>0, <3>1 DEF NewRow
    <3> QED BY <1>0, <1>2, <2>0, <2>1, <3>1, <3>2, InnerRows
  <2>3. CASE RecordCheck(c)
    <3>1. Pending(c) /\ UNCHANGED <<row, loc, job>>
      BY <2>3 DEF RecordCheck
    <3> QED BY <1>0, <2>1, <3>1
  <2>4. CASE UpdateOk(c)
    <3>1. ~Pending(c)'
      BY <2>4 DEF UpdateOk, Goto, TypeInv, TypeOK
    <3>2. Stamped(row'[t])
      BY <1>0, <2>0, <2>4, ApplyOkRow DEF UpdateOk, TypeInv, TypeOK
    <3> QED BY <1>0, <1>2, <2>1, <3>1, <3>2, InnerRows
  <2>5. CASE UpdateFail(c)
    <3>1. ~Pending(c)' /\ Pending(c)
      BY <2>5 DEF UpdateFail, Goto, TypeInv, TypeOK
    <3>2. ASSUME row[t] # Null
          PROVE  Stamped(row'[t])
      <4> DEFINE seen == loc[c].seen
                 threshold == loc[c].threshold
      <4>1. /\ row'[t] = ApplyFail(row[t], seen, threshold, loc[c].at)
            /\ threshold \in Nat /\ loc[c].at \in Nat /\ seen \in Row /\ row[t] \in Row
        BY <2>0, <2>5, <3>2 DEF UpdateFail, TypeInv, TypeOK, Locals
      <4>2. CASE NewlyDown(seen, threshold)
        <5>1. row'[t].alertAt = loc[c].at
          BY <4>1, <4>2, ApplyFailRow
        <5> QED BY <4>1, <5>1, NullAssumption
      <4>3. CASE ~NewlyDown(seen, threshold)
        <5>1. row'[t].status = seen.status /\ row'[t].alertAt = row[t].alertAt
          BY <4>1, <4>3, ApplyFailRow
        <5>2. row[t].alertAt = seen.alertAt
          BY <1>0, <3>1, <3>2, <4>1, ForgetRow
        <5>3. seen # Null
          BY <4>1, NullAssumption
        <5> QED BY <1>0, <3>1, <5>1, <5>2, <5>3
      <4> QED BY <4>2, <4>3
    <3>3. row[t] = Null => row'[t] = Null
      BY <2>0, <2>5 DEF UpdateFail
    <3> QED BY <1>0, <1>2, <2>1, <3>1, <3>2, <3>3, InnerRows
  <2>6. CASE FreshState(c)
    <3>1. ~Pending(c)'
      BY <2>6 DEF FreshState, Goto, TypeInv, TypeOK
    <3>2. row'[t] \in {row[t], NewRow}
      BY <2>0, <2>6 DEF FreshState, EnsureRow, TypeInv, TypeOK
    <3> QED BY <1>0, <1>2, <2>0, <2>1, <3>1, <3>2, InnerRows DEF NewRow
  <2>7. CASE Remind(c)
    <3>1. ~Pending(c)'
      BY <2>7 DEF Remind, Goto, TypeInv, TypeOK
    <3>2. row[t] = Null => row'[t] = Null
      BY <2>0, <2>7 DEF Remind
    <3>3. row[t] # Null => row'[t].alertAt = now /\ now # Null
      BY <2>0, <2>7, NullAssumption DEF Remind, Row, TypeInv, TypeOK
    <3> QED BY <1>0, <1>2, <2>1, <3>1, <3>2, <3>3, InnerRows
  <2>8. CASE GetTarget(c) \/ (\E ok \in BOOLEAN : Probe(c, ok))
             \/ RemindNotDue(c) \/ Notify(c) \/ Vanished(c) \/ CheckFails(c)
    <3>1. ~Pending(c)' /\ UNCHANGED row
      BY <2>8 DEF GetTarget, Probe, RemindNotDue, Notify, Vanished, CheckFails, Goto,
                  TypeInv, TypeOK
    <3> QED BY <1>0, <2>1, <3>1
  <2> QED BY <1>2, <2>2, <2>3, <2>4, <2>5, <2>6, <2>7, <2>8 DEF InnerStep
<1>3. ASSUME NEW c \in Checkers, Release(c)
      PROVE  (\A d \in Checkers : Good(d)') /\ \A u \in Targets : Stamped(row'[u])
  BY <1>0, <1>3 DEF Release, Goto, TypeInv, TypeOK
<1>4. ASSUME NEW a \in Admins, AdminStep(a) \/ AdminFails(a)
      PROVE  (\A d \in Checkers : Good(d)') /\ \A u \in Targets : Stamped(row'[u])
  <2>1. \A u \in Targets : Stamped(row'[u])
    <3> SUFFICES ASSUME NEW u \in Targets PROVE Stamped(row'[u])
      OBVIOUS
    <3>1. row[u] # Null => row[u] \in Row
      BY DEF TypeInv, TypeOK
    <3> QED BY <1>0, <1>4, <3>1, AdminRows, ForgetRow DEF NewRow
  <2>2. ASSUME NEW c \in Checkers, Pending(c)
        PROVE  Good(c)'
    <3>1. /\ UNCHANGED <<pc, job, loc>>
          /\ loc[c].seen \in Row /\ job[c] \in Targets
          /\ tgt[job[c]] # Null => row[job[c]] # Null
      BY <1>0, <1>4, <2>2, OuterFrame DEF RowInv
    <3>2. Forget(Forget(loc[c].seen)) = Forget(loc[c].seen)
      BY <3>1 DEF Forget, Row
    <3> QED BY <1>0, <1>4, <2>2, <3>1, <3>2, AdminRows
  <2>3. ASSUME NEW c \in Checkers, ~Pending(c)
        PROVE  Good(c)'
    BY <1>4, <2>3, OuterFrame
  <2> QED BY <2>1, <2>2, <2>3
<1>5. CASE Crash
  BY <1>0, <1>5 DEF Crash
<1>6. CASE Tick \/ DueTargets \/ UNCHANGED vars
  BY <1>0, <1>6 DEF Tick, DueTargets, targetVars, vars, checkVars
<1> QED
  BY <1>1, <1>2, <1>3, <1>4, <1>5, <1>6 DEF Next, CheckStep, InnerStep

-----------------------------------------------------------------------------
(* Emails. *)

\* A check disturbs the history of its own target only.
LEMMA InnerPending ==
    ASSUME TypeInv, NEW c \in Checkers, InnerStep(c), NEW t \in Targets, t # job[c]
    PROVE  pending'[t] = pending[t]
BY DEF TypeInv, TypeOK, InnerStep, GetTarget, Probe, ReadState, RecordCheck, UpdateOk,
       UpdateFail, FreshState, Remind, RemindNotDue, Notify, Vanished, CheckFails

LEMMA EmailStep ==
    TypeInv /\ ClaimExclusive /\ RowInv /\ EmailInv /\ [Next]_vars => EmailInv'
<1> SUFFICES ASSUME TypeInv, ClaimExclusive, RowInv, EmailInv, [Next]_vars
             PROVE  EmailInv'
  OBVIOUS
<1> DEFINE Alerts(c) == loc[c].todo \in {"down", "reminder"}
           Sends(c)  == pc[c] = "notify" /\ Alerts(c) => pending[job[c]]
           Writes(c) == pc[c] = "fresh" /\ Alerts(c) /\ tgt[job[c]] # Null
                           => pending[job[c]]
           Good(c)   == Sends(c) /\ Writes(c)
<1>0. \A c \in Checkers : Good(c)
  BY DEF EmailInv, OneEmailPerStamp
<1> SUFFICES \A c \in Checkers : Good(c)'
  BY DEF EmailInv, OneEmailPerStamp
<1>1. ASSUME NEW c \in Checkers, NEW t \in Targets, Claim(c, t)
      PROVE  \A d \in Checkers : Good(d)'
  BY <1>0, <1>1 DEF Claim, Goto, targetVars, TypeInv, TypeOK
<1>2. ASSUME NEW c \in Checkers, InnerStep(c)
      PROVE  \A d \in Checkers : Good(d)'
  <2> DEFINE t == job[c]
  <2>0. /\ t \in Targets /\ job' = job /\ tgt' = tgt
        /\ pc[c] \notin {"idle", "release"} /\ loc[c] \in Locals
    BY <1>2, InnerFrame DEF TypeInv, TypeOK
  <2>1. ASSUME NEW d \in Checkers, d # c
        PROVE  Good(d)'
    <3> SUFFICES ASSUME pc'[d] \in {"notify", "fresh"}
                 PROVE  Good(d)'
      OBVIOUS
    <3>1. /\ pc'[d] = pc[d] /\ loc'[d] = loc[d]
          /\ job[d] # t /\ job[d] \in Targets
      BY <1>2, <2>1, InnerFrame DEF ClaimExclusive, Busy, TypeInv, JobInv
    <3>2. pending'[job[d]] = pending[job[d]]
      BY <1>2, <3>1, InnerPending
    <3> QED BY <1>0, <2>0, <3>1, <3>2
  <2>2. CASE UpdateOk(c)
    <3>1. pc'[c] # "notify" /\ (pc'[c] = "fresh" => loc'[c].todo = "recovery")
      BY <2>0, <2>2 DEF UpdateOk, Goto, Locals, TypeInv, TypeOK
    <3> QED BY <2>1, <3>1
  <2>3. CASE UpdateFail(c)
    <3>1. pc'[c] = "fresh" /\ tgt[t] # Null => row[t] # Null
      BY <2>3 DEF UpdateFail, RowInv, HasRead
    <3>2. loc'[c].todo = TodoAfterFailure(loc[c].seen, loc[c].threshold) /\ pc'[c] = "fresh"
      BY <2>0, <2>3 DEF UpdateFail, Goto, Locals, TypeInv, TypeOK
    <3>3. Alerts(c)' => NewlyDown(loc[c].seen, loc[c].threshold)
      BY <3>2 DEF TodoAfterFailure
    <3>4. NewlyDown(loc[c].seen, loc[c].threshold) /\ row[t] # Null => pending'[t]
      BY <2>0, <2>3, Zenon DEF UpdateFail, TypeInv, TypeOK
    <3> QED BY <2>0, <2>1, <3>1, <3>2, <3>3, <3>4
  <2>4. CASE FreshState(c)
    <3>1. /\ pc[c] = "fresh" /\ pc'[c] # "fresh" /\ tgt[t] # Null
          /\ loc'[c].todo = loc[c].todo
          /\ pending' = pending
      BY <2>0, <2>4 DEF FreshState, Goto, Locals, TypeInv, TypeOK
    <3> QED BY <1>0, <2>0, <2>1, <3>1
  <2>5. CASE Remind(c)
    <3>1. pc'[c] = "fresh" /\ (tgt[t] # Null => row[t] # Null)
      BY <2>0, <2>5 DEF Remind, RowInv, HasRead, Goto, TypeInv, TypeOK
    <3>2. row[t] # Null => pending'[t]
      BY <2>0, <2>5, Zenon DEF Remind, TypeInv, TypeOK
    <3> QED BY <2>0, <2>1, <3>1, <3>2
  <2>6. CASE GetTarget(c) \/ (\E ok \in BOOLEAN : Probe(c, ok)) \/ ReadState(c)
             \/ RecordCheck(c) \/ RemindNotDue(c) \/ Notify(c) \/ Vanished(c)
             \/ CheckFails(c)
    <3>1. pc'[c] \notin {"notify", "fresh"}
      BY <2>6 DEF GetTarget, Probe, ReadState, RecordCheck, RemindNotDue, Notify, Vanished,
                  CheckFails, Goto, TypeInv, TypeOK
    <3> QED BY <2>1, <3>1
  <2> QED BY <1>2, <2>2, <2>3, <2>4, <2>5, <2>6 DEF InnerStep
<1>3. ASSUME NEW c \in Checkers, Release(c)
      PROVE  \A d \in Checkers : Good(d)'
  BY <1>0, <1>3 DEF Release, Goto, targetVars, TypeInv, TypeOK
<1>4. ASSUME NEW a \in Admins, AdminStep(a) \/ AdminFails(a)
      PROVE  \A d \in Checkers : Good(d)'
  <2> SUFFICES ASSUME NEW d \in Checkers, pc'[d] \in {"notify", "fresh"}
               PROVE  Good(d)'
    OBVIOUS
  <2>1. UNCHANGED <<pc, job, loc, pending>>
    BY <1>4, OuterFrame
  <2>2. job[d] \in Targets /\ job[d] \in born
    BY <2>1 DEF RowInv, Busy, TypeInv, JobInv
  <2>3. tgt'[job[d]] # Null => tgt[job[d]] # Null
    BY <1>4, <2>2, AdminRows
  <2> QED BY <1>0, <2>1, <2>3
<1>5. CASE Crash
  BY <1>5 DEF Crash
<1>6. CASE Tick \/ DueTargets \/ UNCHANGED vars
  BY <1>0, <1>6 DEF Tick, DueTargets, vars, targetVars, checkVars
<1> QED
  BY <1>1, <1>2, <1>3, <1>4, <1>5, <1>6 DEF Next, CheckStep, InnerStep

-----------------------------------------------------------------------------
(* Stamps. *)

LEMMA StampStep ==
    TypeInv /\ ClaimExclusive /\ RowInv /\ SnapshotInv /\ StampInv /\ [Next]_vars
        => StampInv'
<1> SUFFICES ASSUME TypeInv, ClaimExclusive, RowInv, SnapshotInv, StampInv, [Next]_vars
             PROVE  StampInv'
  OBVIOUS
<1> DEFINE Past(r)     == r # Null /\ r.alertAt # Null => r.alertAt <= now
           Ordered(c)  == pc[c] \in {"record", "update"} =>
                             /\ loc[c].at <= now
                             /\ loc[c].seen.alertAt # Null
                                   => loc[c].seen.alertAt <= loc[c].at
           Outage(c)   == Reminds(c) /\ row[job[c]] # Null
                             => /\ row[job[c]].status \in {"down", "unknown"}
                                /\ row[job[c]].alertAt # Null
           Unmoved(c)  == pc[c] = "remind" /\ row[job[c]] # Null
                             => row[job[c]].alertAt = loc[c].stamp
           Good(c)     == Ordered(c) /\ Outage(c) /\ Unmoved(c)
<1>a. TypeInv'
  BY TypeStep
<1>0. /\ \A c \in Checkers : Good(c)
      /\ \A t \in Targets : Past(row[t])
  BY DEF StampInv, Reminds
<1> SUFFICES /\ \A c \in Checkers : Good(c)'
             /\ \A t \in Targets : Past(row[t])'
  BY DEF StampInv, Reminds
<1>1. ASSUME NEW c \in Checkers, NEW t \in Targets, Claim(c, t)
      PROVE  (\A d \in Checkers : Good(d)') /\ \A u \in Targets : Past(row[u])'
  BY <1>0, <1>1 DEF Claim, Goto, Reminds, TypeInv, TypeOK
<1>2. ASSUME NEW c \in Checkers, InnerStep(c)
      PROVE  (\A d \in Checkers : Good(d)') /\ \A u \in Targets : Past(row[u])'
  <2> DEFINE t == job[c]
  <2>0. /\ t \in Targets /\ job' = job /\ now' = now /\ now \in Nat
        /\ pc[c] \notin {"idle", "release"} /\ loc[c] \in Locals
        /\ row[t] \in Row \cup {Null} /\ row'[t] \in Row \cup {Null}
    BY <1>2, <1>a, InnerFrame DEF TypeInv, TypeOK
  <2>1. ASSUME NEW d \in Checkers, d # c
        PROVE  Good(d)'
    <3> SUFFICES ASSUME pc'[d] \in {"record", "update", "fresh", "remind"}
                 PROVE  Good(d)'
      BY DEF Reminds
    <3>1. /\ pc'[d] = pc[d] /\ loc'[d] = loc[d]
          /\ job[d] # t /\ job[d] \in Targets
      BY <1>2, <2>1, InnerFrame DEF ClaimExclusive, Busy, TypeInv, JobInv
    <3>2. row'[job[d]] = row[job[d]]
      BY <1>2, <3>1, InnerRows
    <3> QED BY <1>0, <2>0, <3>1, <3>2 DEF Reminds
  <2>2. SUFFICES Good(c)' /\ Past(row[t])'
    BY <1>0, <1>2, <2>0, <2>1, InnerRows
  <2>3. CASE ReadState(c)
    <3>1. /\ row'[t] \in {row[t], NewRow}
          /\ row'[t] \in Row
          /\ loc'[c].seen = row'[t] /\ loc'[c].at = now
          /\ pc'[c] = "record"
      BY <2>0, <2>3, RowNotNull, NullAssumption
         DEF ReadState, EnsureRow, Goto, Locals, TypeInv, TypeOK
    <3> QED BY <1>0, <2>0, <3>1, NullAssumption DEF NewRow, Reminds
  <2>4. CASE RecordCheck(c)
    <3>1. pc[c] = "record" /\ pc'[c] = "update" /\ UNCHANGED <<row, loc>>
      BY <2>4 DEF RecordCheck, Goto, TypeInv, TypeOK
    <3> QED BY <1>0, <2>0, <3>1 DEF Reminds
  <2>5. CASE UpdateOk(c)
    <3>1. ~Reminds(c)' /\ pc'[c] \notin {"record", "update", "remind"}
      BY <2>0, <2>5 DEF UpdateOk, Goto, Locals, Reminds, TypeInv, TypeOK
    <3>2. ASSUME row[t] # Null
          PROVE  row'[t].alertAt \in {Null, row[t].alertAt}
      BY <2>0, <2>5, <3>2, ApplyOkRow DEF UpdateOk, Locals, TypeInv, TypeOK
    <3>3. row[t] = Null => row'[t] = Null
      BY <2>0, <2>5 DEF UpdateOk
    <3> QED BY <1>0, <2>0, <3>1, <3>2, <3>3
  <2>6. CASE UpdateFail(c)
    <3> DEFINE seen == loc[c].seen
               threshold == loc[c].threshold
    <3>1. pc[c] = "update" /\ pc'[c] = "fresh" /\ loc[c].at <= now
      BY <1>0, <2>6 DEF UpdateFail, Goto, TypeInv, TypeOK
    <3>2. loc'[c].todo = TodoAfterFailure(seen, threshold)
      BY <2>0, <2>6 DEF UpdateFail, Locals, TypeInv, TypeOK
    <3>3. row[t] = Null => row'[t] = Null
      BY <2>0, <2>6 DEF UpdateFail
    <3>4. ASSUME row[t] # Null
          PROVE  /\ row'[t] = ApplyFail(row[t], seen, threshold, loc[c].at)
                 /\ threshold \in Nat /\ loc[c].at \in Nat
                 /\ seen \in Row /\ row[t] \in Row
      BY <2>0, <2>6, <3>4 DEF UpdateFail, Locals, TypeInv, TypeOK
    <3>5. CASE NewlyDown(seen, threshold)
      <4>1. ~Reminds(c)'
        BY <3>1, <3>2, <3>5 DEF TodoAfterFailure, NewlyDown, Reminds
      <4>2. row[t] # Null => row'[t].alertAt = loc[c].at
        BY <3>4, <3>5, ApplyFailRow
      <4> QED BY <2>0, <3>1, <3>3, <4>1, <4>2
    <3>6. CASE ~NewlyDown(seen, threshold)
      <4>1. Reminds(c)' => seen.status = "down"
        BY <3>1, <3>2, <3>6 DEF TodoAfterFailure, Reminds
      <4>2. row[t] # Null =>
               row'[t].status = seen.status /\ row'[t].alertAt = row[t].alertAt
        BY <3>4, <3>6, ApplyFailRow
      <4>3. row[t] # Null /\ seen.status = "down" => row[t].alertAt # Null
        BY <2>6, <3>1, <3>4, ForgetRow, NullAssumption
           DEF SnapshotInv, SnapshotCurrent
      <4> QED BY <1>0, <2>0, <3>1, <3>3, <4>1, <4>2, <4>3
    <3> QED BY <3>5, <3>6
  <2>7. CASE FreshState(c)
    <3>1. row[t] # Null /\ row'[t] = row[t]
      BY <2>0, <2>7 DEF FreshState, EnsureRow, RowInv, HasRead, TypeInv, TypeOK
    <3>2. /\ pc[c] = "fresh" /\ pc'[c] \in {"release", "remind", "notify"}
          /\ Reminds(c)' => Reminds(c)
          /\ loc'[c].stamp = row'[t].alertAt
      BY <2>0, <2>7 DEF FreshState, Goto, Locals, Reminds, TypeInv, TypeOK
    <3> QED BY <1>0, <2>0, <3>1, <3>2
  <2>8. CASE Remind(c)
    <3>1. pc'[c] = "fresh" /\ loc'[c].todo = "reminder"
      BY <2>0, <2>8 DEF Remind, Goto, Locals, TypeInv, TypeOK
    <3>2. row[t] = Null => row'[t] = Null
      BY <2>0, <2>8 DEF Remind
    <3>3. row[t] # Null => row'[t].alertAt = now
      BY <2>0, <2>8 DEF Remind, Row, TypeInv, TypeOK
    <3> QED BY <2>0, <3>1, <3>2, <3>3 DEF Reminds
  <2>9. CASE GetTarget(c) \/ (\E ok \in BOOLEAN : Probe(c, ok))
             \/ RemindNotDue(c) \/ Notify(c) \/ Vanished(c) \/ CheckFails(c)
    <3>1. pc'[c] \in {"probe", "read", "release"} /\ UNCHANGED row
      BY <2>9 DEF GetTarget, Probe, RemindNotDue, Notify, Vanished, CheckFails, Goto,
                  TypeInv, TypeOK
    <3> QED BY <1>0, <2>0, <3>1 DEF Reminds
  <2> QED BY <1>2, <2>3, <2>4, <2>5, <2>6, <2>7, <2>8, <2>9 DEF InnerStep
<1>3. ASSUME NEW c \in Checkers, Release(c)
      PROVE  (\A d \in Checkers : Good(d)') /\ \A u \in Targets : Past(row[u])'
  BY <1>0, <1>3 DEF Release, Goto, Reminds, TypeInv, TypeOK
<1>4. ASSUME NEW a \in Admins, AdminStep(a) \/ AdminFails(a)
      PROVE  (\A d \in Checkers : Good(d)') /\ \A u \in Targets : Past(row[u])'
  <2>1. \A u \in Targets : Past(row[u])'
    <3> SUFFICES ASSUME NEW u \in Targets PROVE Past(row[u])'
      OBVIOUS
    <3>1. row[u] # Null => row[u] \in Row
      BY DEF TypeInv, TypeOK
    <3> QED BY <1>0, <1>4, <3>1, AdminRows, ForgetRow DEF NewRow
  <2>2. ASSUME NEW d \in Checkers, pc'[d] \in {"record", "update", "fresh", "remind"}
        PROVE  Good(d)'
    <3> DEFINE u == job[d]
    <3>1. UNCHANGED <<pc, job, loc>> /\ UNCHANGED now
      BY <1>4, <2>2, OuterFrame, AdminRows DEF Busy, TypeInv, JobInv
    <3>2. /\ HasRead(d) /\ u \in Targets /\ (tgt[u] # Null => row[u] # Null)
          /\ row[u] \in Row \cup {Null}
      BY <2>2, <3>1 DEF HasRead, RowInv, Busy, TypeInv, TypeOK, JobInv
    <3>3. row'[u] # Null => /\ row[u] # Null
                            /\ row'[u].alertAt = row[u].alertAt
                            /\ row'[u].status \in {row[u].status, "unknown"}
      BY <1>4, <3>2, AdminRows, ForgetRow
    <3> QED BY <1>0, <3>1, <3>3 DEF Reminds
  <2>3. ASSUME NEW d \in Checkers, pc'[d] \notin {"record", "update", "fresh", "remind"}
        PROVE  Good(d)'
    BY <2>3 DEF Reminds
  <2> QED BY <2>1, <2>2, <2>3
<1>5. CASE Crash
  BY <1>0, <1>5 DEF Crash, Reminds
<1>6. CASE Tick
  <2>1. /\ UNCHANGED <<pc, job, loc, row>> /\ now' = now + 1 /\ now \in Nat
        /\ \A t \in Targets : row[t] \in Row \cup {Null}
        /\ \A c \in Checkers : loc[c] \in Locals
    BY <1>6 DEF Tick, checkVars, TypeInv, TypeOK
  <2>2. \A t \in Targets : Past(row[t])'
    BY <1>0, <2>1 DEF Row
  <2>3. \A c \in Checkers : Good(c)'
    BY <1>0, <2>1 DEF Locals, Reminds
  <2> QED BY <2>2, <2>3
<1>7. CASE DueTargets \/ UNCHANGED vars
  BY <1>0, <1>7 DEF DueTargets, vars, checkVars, Reminds
<1> QED
  BY <1>1, <1>2, <1>3, <1>4, <1>5, <1>6, <1>7 DEF Next, CheckStep, InnerStep

-----------------------------------------------------------------------------
(* The invariant and what follows from it. *)

LEMMA InvInit == Init => Inv
<1> SUFFICES ASSUME Init PROVE Inv
  OBVIOUS
<1>1. TypeInv
  BY TypeInit
<1>2. ClaimExclusive /\ RowInv
  BY DEF Init, ClaimExclusive, RowInv, Busy, HasRead
<1>3. SnapshotInv /\ EmailInv /\ StampInv
  BY DEF Init, SnapshotInv, SnapshotCurrent, DownIsStamped, EmailInv, OneEmailPerStamp,
         StampInv, Reminds
<1> QED BY <1>1, <1>2, <1>3 DEF Inv

LEMMA InvStep == Inv /\ [Next]_vars => Inv'
BY TypeStep, ClaimStep, RowStep, SnapshotStep, EmailStep, StampStep DEF Inv

THEOREM Invariance == Spec => []Inv
BY InvInit, InvStep, PTL DEF Spec

\* A check never overwrites what another one wrote to the state row since it
\* read it: only a pause or a deletion can come between.
THEOREM Snapshots == Spec => []SnapshotCurrent
<1>1. Inv => SnapshotCurrent
  BY DEF Inv, SnapshotInv
<1> QED BY <1>1, Invariance, PTL

\* Every DOWN row carries the stamp of its alert, so _maybe_remind throttles
\* from the first reminder on.
THEOREM Stamps == Spec => []DownIsStamped
<1>1. Inv => DownIsStamped
  BY DEF Inv, SnapshotInv
<1> QED BY <1>1, Invariance, PTL

\* No two DOWN emails share a stamp, whatever crashes and fails on the way.
THEOREM Emails == Spec => []OneEmailPerStamp
<1>1. Inv => OneEmailPerStamp
  BY DEF Inv, EmailInv
<1> QED BY <1>1, Invariance, PTL

-----------------------------------------------------------------------------
(* Without faults: no statement fails and the process lives. *)

Calm == Faults = {}

\* A check that is on its way to notify with an alert for target t.
Tells(c, t) ==
    /\ pc[c] \in {"fresh", "notify"}
    /\ job[c] = t
    /\ loc[c].todo \in {"down", "reminder"}

\* A pending alert of a target that exists has a check that will send it.
ToldInv ==
    \A t \in Targets : pending[t] =>
        /\ t \in born
        /\ tgt[t] # Null => \E c \in Checkers : Tells(c, t)

LEMMA ToldStep ==
    ASSUME Calm
    PROVE  TypeInv /\ ClaimExclusive /\ RowInv /\ ToldInv /\ [Next]_vars => ToldInv'
<1> SUFFICES ASSUME TypeInv, ClaimExclusive, RowInv, ToldInv, [Next]_vars
             PROVE  ToldInv'
  OBVIOUS
<1> DEFINE Told(t) == pending[t] =>
                        /\ t \in born
                        /\ tgt[t] # Null => \E c \in Checkers : Tells(c, t)
<1>0. \A t \in Targets : Told(t)
  BY DEF ToldInv
<1> SUFFICES \A t \in Targets : Told(t)'
  BY DEF ToldInv
<1>1. ASSUME NEW c \in Checkers, NEW t \in Targets, Claim(c, t)
      PROVE  \A u \in Targets : Told(u)'
  BY <1>0, <1>1 DEF Claim, Goto, targetVars, Tells, TypeInv, TypeOK
<1>2. ASSUME NEW c \in Checkers, InnerStep(c)
      PROVE  \A u \in Targets : Told(u)'
  <2> DEFINE t == job[c]
  <2>0. /\ t \in Targets /\ job' = job /\ tgt' = tgt /\ born' = born
        /\ pc[c] \notin {"idle", "release"} /\ loc[c] \in Locals
    BY <1>2, InnerFrame DEF TypeInv, TypeOK
  <2>1. ASSUME NEW u \in Targets, u # t
        PROVE  Told(u)'
    <3>1. pending'[u] = pending[u]
      BY <1>2, <2>1, InnerPending
    <3>2. \A d \in Checkers : Tells(d, u) => Tells(d, u)'
      BY <1>2, <2>0, <2>1, InnerFrame DEF Tells
    <3> QED BY <1>0, <2>0, <3>1, <3>2
  <2>2. SUFFICES Told(t)'
    BY <2>0, <2>1
  <2>3. pending[t] /\ tgt[t] # Null => Tells(c, t)
    BY <1>0, <2>0 DEF ClaimExclusive, Busy, Tells
  <2>4. row[t] # Null => tgt[t] # Null /\ t \in born
    BY <2>0 DEF RowInv
  <2>5. CASE UpdateFail(c)
    <3>1. /\ pc[c] = "update" /\ pc'[c] = "fresh"
          /\ loc'[c].todo = TodoAfterFailure(loc[c].seen, loc[c].threshold)
      BY <2>0, <2>5 DEF UpdateFail, Goto, Locals, TypeInv, TypeOK
    <3>2. pending'[t] => \/ pending[t]
                         \/ NewlyDown(loc[c].seen, loc[c].threshold) /\ row[t] # Null
      BY <2>0, <2>5, Zenon DEF UpdateFail, TypeInv, TypeOK
    <3>3. NewlyDown(loc[c].seen, loc[c].threshold) => Tells(c, t)'
      BY <2>0, <3>1 DEF TodoAfterFailure, NewlyDown, Tells
    <3>4. ~Tells(c, t)
      BY <3>1 DEF Tells
    <3> QED BY <1>0, <2>0, <2>3, <2>4, <3>2, <3>3, <3>4
  <2>6. CASE Remind(c)
    <3>1. pc[c] = "remind" /\ pc'[c] = "fresh" /\ loc'[c].todo = "reminder"
      BY <2>0, <2>6 DEF Remind, Goto, Locals, TypeInv, TypeOK
    <3>2. pending'[t] => pending[t] \/ row[t] # Null
      BY <2>0, <2>6, Zenon DEF Remind, TypeInv, TypeOK
    <3>3. Tells(c, t)'
      BY <2>0, <3>1 DEF Tells
    <3> QED BY <1>0, <2>0, <2>4, <3>2, <3>3
  <2>7. CASE FreshState(c)
    <3>1. /\ pending' = pending /\ loc'[c].todo = loc[c].todo
          /\ loc[c].todo \in {"down", "reminder"} => pc'[c] = "notify"
      BY <2>0, <2>7 DEF FreshState, Goto, Locals, TypeInv, TypeOK
    <3>2. Tells(c, t) => Tells(c, t)'
      BY <2>0, <3>1 DEF Tells
    <3> QED BY <1>0, <2>0, <2>3, <3>1, <3>2
  <2>8. CASE Notify(c)
    <3>1. pending'[t] => pending[t] /\ loc[c].todo = "recovery"
      BY <2>0, <2>8, Zenon DEF Notify, TypeInv, TypeOK
    <3>2. loc[c].todo = "recovery" => ~Tells(c, t)
      BY DEF Tells
    <3> QED BY <1>0, <2>0, <2>3, <3>1, <3>2
  <2>9. CASE Vanished(c)
    BY <1>0, <2>0, <2>9 DEF Vanished
  <2>10. CASE GetTarget(c) \/ (\E ok \in BOOLEAN : Probe(c, ok)) \/ ReadState(c)
              \/ RecordCheck(c) \/ UpdateOk(c) \/ RemindNotDue(c)
    <3>1. pc[c] \notin {"fresh", "notify"} /\ pending' = pending
      BY <2>10 DEF GetTarget, Probe, ReadState, RecordCheck, UpdateOk, RemindNotDue
    <3> QED BY <1>0, <2>0, <2>3, <3>1 DEF Tells
  <2>11. ~CheckFails(c)
    BY DEF Calm, CheckFails
  <2> QED BY <1>2, <2>5, <2>6, <2>7, <2>8, <2>9, <2>10, <2>11 DEF InnerStep
<1>3. ASSUME NEW c \in Checkers, Release(c)
      PROVE  \A u \in Targets : Told(u)'
  BY <1>0, <1>3 DEF Release, Goto, targetVars, Tells, TypeInv, TypeOK
<1>4. ASSUME NEW a \in Admins, AdminStep(a)
      PROVE  \A u \in Targets : Told(u)'
  <2>1. UNCHANGED <<pc, job, loc, pending>>
    BY <1>4, OuterFrame
  <2>2. born \subseteq born'
    BY <1>4 DEF AdminStep, CreateTarget, CloneTarget, UpdateTarget, InsertState,
       ToggleTarget, SetEnabled, ForgetStatus, DeleteTarget
  <2>3. \A u \in Targets : tgt'[u] # Null => tgt[u] # Null \/ u \notin born
    BY <1>4, AdminRows
  <2> QED BY <1>0, <2>1, <2>2, <2>3 DEF Tells
<1>5. CASE Tick \/ DueTargets \/ UNCHANGED vars
  BY <1>0, <1>5 DEF Tick, DueTargets, vars, targetVars, checkVars, Tells
<1>6. ~Crash /\ \A a \in Admins : ~AdminFails(a)
  BY DEF Calm, Crash, AdminFails
<1> QED
  BY <1>1, <1>2, <1>3, <1>4, <1>5, <1>6 DEF Next, CheckStep, InnerStep

\* While no statement fails and the process lives, no alert stays behind: it
\* is with a check that still holds the claim of its target.
THEOREM Alerts == ASSUME Calm PROVE Spec => []NoAlertForgotten
<1>1. Init => ToldInv
  BY DEF Init, ToldInv
<1>2. Inv /\ ToldInv /\ [Next]_vars => ToldInv'
  BY ToldStep DEF Inv
<1>3. Inv /\ ToldInv => NoAlertForgotten
  BY DEF Inv, RowInv, ClaimExclusive, Busy, ToldInv, Tells, NoAlertForgotten
<1> QED BY <1>1, <1>2, <1>3, Invariance, PTL DEF Spec

-----------------------------------------------------------------------------
(* Failures. *)

\* The failures that a check has read, and the one it has just recorded, are
\* in the history of its target.
FailsInv ==
    /\ FailuresAreReal
    /\ \A c \in Checkers :
          pc[c] = "record" /\ tgt[job[c]] # Null => loc[c].seen.fails <= tail[job[c]]
    /\ \A c \in Checkers :
          pc[c] = "update" /\ ~loc[c].ok /\ tgt[job[c]] # Null
              => loc[c].seen.fails + 1 <= tail[job[c]]

\* Only RecordCheck changes the history of a target that is kept.
LEMMA InnerTail ==
    ASSUME TypeInv, NEW c \in Checkers, InnerStep(c), ~RecordCheck(c)
    PROVE  tail' = tail
BY DEF InnerStep, GetTarget, Probe, ReadState, UpdateOk,
       UpdateFail, FreshState, Remind, RemindNotDue, Notify, Vanished, CheckFails

LEMMA AdminTail ==
    ASSUME TypeInv, NEW a \in Admins, AdminStep(a), NEW t \in Targets
    PROVE  tail'[t] = tail[t] \/ (tgt'[t] = Null /\ row'[t] = Null)
BY DEF TypeInv, TypeOK, AdminStep, CreateTarget, CloneTarget, UpdateTarget, InsertState,
       ToggleTarget, SetEnabled, ForgetStatus, DeleteTarget

\* The counter after a failed check.
LEMMA ApplyFails ==
    ASSUME NEW r \in Row, NEW seen \in Row, NEW threshold \in Nat, NEW at \in Nat
    PROVE  ApplyFail(r, seen, threshold, at).fails = seen.fails + 1
BY DEF ApplyFail, Row

LEMMA FailsStep ==
    ASSUME Calm
    PROVE  TypeInv /\ ClaimExclusive /\ RowInv /\ FailsInv /\ [Next]_vars => FailsInv'
<1> SUFFICES ASSUME TypeInv, ClaimExclusive, RowInv, FailsInv, [Next]_vars
             PROVE  FailsInv'
  OBVIOUS
<1> DEFINE Settled(t) == \A c \in Checkers : ~(pc[c] = "update" /\ job[c] = t)
           Real(t)    == row[t] # Null /\ Settled(t) => row[t].fails <= tail[t]
           Read(c)    == pc[c] = "record" /\ tgt[job[c]] # Null
                            => loc[c].seen.fails <= tail[job[c]]
           Failed(c)  == pc[c] = "update" /\ ~loc[c].ok /\ tgt[job[c]] # Null
                            => loc[c].seen.fails + 1 <= tail[job[c]]
           Good(c)    == Read(c) /\ Failed(c)
<1>a. TypeInv'
  BY TypeStep
<1>0. (\A c \in Checkers : Good(c)) /\ \A t \in Targets : Real(t)
  BY DEF FailsInv, FailuresAreReal
<1> SUFFICES (\A c \in Checkers : Good(c)') /\ \A t \in Targets : Real(t)'
  BY DEF FailsInv, FailuresAreReal
<1>1. ASSUME NEW c \in Checkers, NEW t \in Targets, Claim(c, t)
      PROVE  (\A d \in Checkers : Good(d)') /\ \A u \in Targets : Real(u)'
  BY <1>0, <1>1 DEF Claim, Goto, targetVars, TypeInv, TypeOK
<1>2. ASSUME NEW c \in Checkers, InnerStep(c)
      PROVE  (\A d \in Checkers : Good(d)') /\ \A u \in Targets : Real(u)'
  <2> DEFINE t == job[c]
  <2>0. /\ t \in Targets /\ job' = job /\ tgt' = tgt
        /\ pc[c] \notin {"idle", "release"} /\ loc[c] \in Locals
        /\ row[t] \in Row \cup {Null} /\ row'[t] \in Row \cup {Null}
        /\ tail[t] \in Nat
    BY <1>2, <1>a, InnerFrame DEF TypeInv, TypeOK
  <2>1. \A u \in Targets : u # t => tail'[u] = tail[u]
    BY <1>2, <2>0, InnerTail DEF RecordCheck, TypeInv, TypeOK
  <2>2. ASSUME NEW u \in Targets, u # t
        PROVE  Real(u)'
    <3>1. row'[u] = row[u] /\ tail'[u] = tail[u]
      BY <1>2, <2>1, <2>2, InnerRows
    <3>2. Settled(u)' => Settled(u)
      BY <1>2, <2>0, <2>2, InnerFrame
    <3> QED BY <1>0, <3>1, <3>2
  <2>3. ASSUME NEW d \in Checkers, d # c
        PROVE  Good(d)'
    <3> SUFFICES ASSUME pc'[d] \in {"record", "update"}
                 PROVE  Good(d)'
      OBVIOUS
    <3>1. /\ pc'[d] = pc[d] /\ loc'[d] = loc[d]
          /\ job[d] # t /\ job[d] \in Targets
      BY <1>2, <2>3, InnerFrame DEF ClaimExclusive, Busy, TypeInv, JobInv
    <3> QED BY <1>0, <2>0, <2>1, <3>1
  <2>4. SUFFICES Good(c)' /\ Real(t)'
    BY <2>0, <2>2, <2>3
  <2>5. \A d \in Checkers : pc[d] = "update" /\ job[d] = t => d = c
    BY <2>0 DEF ClaimExclusive, Busy
  <2>6. row[t] # Null => tgt[t] # Null
    BY <2>0 DEF RowInv
  <2>7. CASE ReadState(c)
    <3>1. /\ row'[t] \in {row[t], NewRow} /\ row'[t] \in Row
          /\ loc'[c].seen = row'[t]
          /\ pc[c] = "read" /\ pc'[c] = "record"
          /\ tail' = tail
      BY <2>0, <2>7, RowNotNull, NullAssumption
         DEF ReadState, EnsureRow, Goto, Locals, TypeInv, TypeOK
    <3>2. row'[t].fails <= tail[t]
      BY <1>0, <2>0, <2>5, <3>1, NullAssumption DEF NewRow
    <3> QED BY <2>0, <3>1, <3>2
  <2>8. CASE RecordCheck(c)
    <3>1. /\ pc[c] = "record" /\ pc'[c] = "update" /\ UNCHANGED <<row, loc>>
          /\ tgt[t] # Null
          /\ ~loc[c].ok => tail'[t] = tail[t] + 1
      BY <2>0, <2>8 DEF RecordCheck, Goto, TypeInv, TypeOK
    <3>2. loc[c].seen.fails \in Nat
      BY <2>0 DEF Locals, Row
    <3> QED BY <1>0, <2>0, <3>1, <3>2
  <2>9. CASE UpdateOk(c)
    <3>1. pc'[c] \notin {"record", "update"} /\ tail' = tail
      BY <2>0, <2>9 DEF UpdateOk, Goto, TypeInv, TypeOK
    <3>2. ASSUME row[t] # Null
          PROVE  row'[t].fails = 0
      <4>1. row'[t] = ApplyOk(row[t], loc[c].seen) /\ loc[c].seen \in Row
        BY <2>0, <2>9, <3>2 DEF UpdateOk, Locals, TypeInv, TypeOK
      <4>2. row[t] \in Row
        BY <2>0, <3>2
      <4> QED BY <4>1, <4>2 DEF ApplyOk, Row
    <3>3. row[t] = Null => row'[t] = Null
      BY <2>0, <2>9 DEF UpdateOk
    <3> QED BY <2>0, <3>1, <3>2, <3>3
  <2>10. CASE UpdateFail(c)
    <3>1. pc[c] = "update" /\ pc'[c] = "fresh" /\ ~loc[c].ok /\ tail' = tail
      BY <2>10 DEF UpdateFail, Goto, TypeInv, TypeOK
    <3>2. ASSUME row[t] # Null
          PROVE  row'[t].fails = loc[c].seen.fails + 1
      <4>1. /\ row'[t] = ApplyFail(row[t], loc[c].seen, loc[c].threshold, loc[c].at)
            /\ loc[c].seen \in Row /\ loc[c].threshold \in Nat /\ loc[c].at \in Nat
            /\ row[t] \in Row
        BY <2>0, <2>10, <3>2 DEF UpdateFail, Locals, TypeInv, TypeOK
      <4> QED BY <4>1, ApplyFails
    <3>3. row[t] = Null => row'[t] = Null
      BY <2>0, <2>10 DEF UpdateFail
    <3> QED BY <1>0, <2>0, <2>6, <3>1, <3>2, <3>3
  <2>11. CASE FreshState(c) \/ Remind(c)
    <3>1. /\ pc[c] \in {"fresh", "remind"} /\ pc'[c] \notin {"record", "update"}
          /\ tail' = tail
      BY <2>11 DEF FreshState, Remind, Goto, TypeInv, TypeOK
    <3>2. CASE FreshState(c)
      <4>1. row'[t] \in {row[t], NewRow}
        BY <2>0, <3>2 DEF FreshState, EnsureRow, TypeInv, TypeOK
      <4> QED BY <1>0, <2>0, <2>5, <3>1, <4>1 DEF NewRow
    <3>3. CASE Remind(c)
      <4>1. /\ row[t] = Null => row'[t] = Null
            /\ row[t] # Null => row'[t].fails = row[t].fails
        BY <2>0, <3>3 DEF Remind, Row, TypeInv, TypeOK
      <4> QED BY <1>0, <2>0, <2>5, <3>1, <4>1
    <3> QED BY <2>11, <3>2, <3>3
  <2>12. CASE GetTarget(c) \/ (\E ok \in BOOLEAN : Probe(c, ok))
              \/ RemindNotDue(c) \/ Notify(c) \/ Vanished(c)
    <3>1. pc'[c] \in {"probe", "read", "release"} /\ UNCHANGED <<row, tail>>
      BY <2>12 DEF GetTarget, Probe, RemindNotDue, Notify, Vanished, Goto, TypeInv, TypeOK
    <3>2. CASE Vanished(c)
      BY <2>0, <2>6, <3>1, <3>2 DEF Vanished
    <3>3. CASE ~Vanished(c)
      <4>1. pc[c] # "update"
        BY <2>12, <3>3 DEF GetTarget, Probe, RemindNotDue, Notify
      <4> QED BY <1>0, <2>0, <2>5, <3>1, <4>1
    <3> QED BY <3>2, <3>3
  <2>13. ~CheckFails(c)
    BY DEF Calm, CheckFails
  <2> QED BY <1>2, <2>7, <2>8, <2>9, <2>10, <2>11, <2>12, <2>13 DEF InnerStep
<1>3. ASSUME NEW c \in Checkers, Release(c)
      PROVE  (\A d \in Checkers : Good(d)') /\ \A u \in Targets : Real(u)'
  BY <1>0, <1>3 DEF Release, Goto, targetVars, TypeInv, TypeOK
<1>4. ASSUME NEW a \in Admins, AdminStep(a)
      PROVE  (\A d \in Checkers : Good(d)') /\ \A u \in Targets : Real(u)'
  <2>1. UNCHANGED <<pc, job, loc>>
    BY <1>4, OuterFrame
  <2>2. ASSUME NEW u \in Targets
        PROVE  Real(u)'
    <3>1. row[u] \in Row \cup {Null} /\ tail[u] \in Nat
      BY DEF TypeInv, TypeOK
    <3>2. tail'[u] = tail[u] \/ row'[u] = Null
      BY <1>4, AdminTail
    <3>3. row'[u] # Null => \/ row[u] # Null /\ row'[u].fails = row[u].fails
                            \/ row'[u].fails = 0
      BY <1>4, <3>1, AdminRows, ForgetRow DEF NewRow
    <3> QED BY <1>0, <2>1, <3>1, <3>2, <3>3
  <2>3. ASSUME NEW d \in Checkers, pc'[d] \in {"record", "update"}
        PROVE  Good(d)'
    <3>1. job[d] \in Targets /\ job[d] \in born
      BY <2>1, <2>3 DEF RowInv, Busy, TypeInv, JobInv
    <3>2. tgt'[job[d]] # Null => tgt[job[d]] # Null /\ tail'[job[d]] = tail[job[d]]
      BY <1>4, <3>1, AdminRows, AdminTail
    <3> QED BY <1>0, <2>1, <3>2
  <2> QED BY <2>2, <2>3
<1>5. CASE Tick \/ DueTargets \/ UNCHANGED vars
  BY <1>0, <1>5 DEF Tick, DueTargets, vars, targetVars, checkVars
<1>6. ~Crash /\ \A a \in Admins : ~AdminFails(a)
  BY DEF Calm, Crash, AdminFails
<1> QED
  BY <1>1, <1>2, <1>3, <1>4, <1>5, <1>6 DEF Next, CheckStep, InnerStep

LEMMA FailsInvariance == ASSUME Calm PROVE Spec => [](Inv /\ FailsInv)
<1>1. Init => FailsInv
  BY DEF Init, FailsInv, FailuresAreReal
<1>2. Inv /\ FailsInv /\ [Next]_vars => FailsInv'
  BY FailsStep DEF Inv
<1> QED BY <1>1, <1>2, Invariance, PTL DEF Spec

\* While no statement fails and the process lives, consecutive_failures counts
\* failures that are at the end of the target's history.
THEOREM Failures == ASSUME Calm PROVE Spec => []FailuresAreReal
<1>1. FailsInv => FailuresAreReal
  BY DEF FailsInv
<1> QED BY <1>1, FailsInvariance, PTL

\* A target is declared DOWN only when at least fail_threshold failures in a
\* row end its history.
THEOREM Declared == ASSUME Calm PROVE Spec => DownAfterNFailures
<1> DEFINE Justified == \A c \in Checkers, t \in Targets :
                           Declares(c, t) => tail[t] >= loc[c].threshold
<1>1. Inv /\ FailsInv /\ [Next]_vars => [Justified]_vars
  <2> SUFFICES ASSUME Inv, FailsInv, Next,
                      NEW c \in Checkers, NEW t \in Targets, Declares(c, t)
               PROVE  tail[t] >= loc[c].threshold
    OBVIOUS
  <2>1. /\ pc[c] = "update" /\ pc'[c] = "fresh" /\ job[c] = t /\ row[t] # Null
        /\ loc'[c].todo = "down"
    BY DEF Declares
  <2>2. TypeInv /\ tgt[t] # Null
    BY <2>1 DEF Inv, RowInv
  <2>3. UpdateFail(c)
    <3>1. PICK d \in Checkers : (\E u \in Targets : Claim(d, u)) \/ Release(d) \/ InnerStep(d)
      <4>1. \A a \in Admins : ~AdminStep(a) /\ ~AdminFails(a)
        BY <2>1, OuterFrame
      <4>2. ~Tick /\ ~Crash /\ ~DueTargets
        BY <2>1 DEF Tick, Crash, DueTargets, checkVars
      <4> QED BY <4>1, <4>2 DEF Next, CheckStep, InnerStep
    <3>2. InnerStep(d) => d = c
      BY <2>1, <2>2, InnerFrame
    <3>3. InnerStep(c)
      BY <2>1, <2>2, <3>1, <3>2 DEF Claim, Release, Goto, TypeInv, TypeOK
    <3>4. ~UpdateOk(c)
      BY <2>1, <2>2 DEF UpdateOk, Goto, Locals, TypeInv, TypeOK
    <3>5. ~CheckFails(c)
      BY DEF Calm, CheckFails
    <3> QED BY <2>1, <3>3, <3>4, <3>5
            DEF InnerStep, GetTarget, Probe, ReadState, RecordCheck, FreshState, Remind,
                RemindNotDue, Notify, Vanished
  <2>4. loc'[c].todo = TodoAfterFailure(loc[c].seen, loc[c].threshold) /\ ~loc[c].ok
    BY <2>2, <2>3 DEF UpdateFail, Locals, TypeInv, TypeOK
  <2>5. NewlyDown(loc[c].seen, loc[c].threshold)
    BY <2>1, <2>4 DEF TodoAfterFailure
  <2>6. loc[c].seen.fails + 1 <= tail[t]
    BY <2>1, <2>2, <2>4 DEF FailsInv
  <2>7. loc[c].seen.fails \in Nat /\ loc[c].threshold \in Nat /\ tail[t] \in Nat
    BY <2>2 DEF Locals, Row, TypeInv, TypeOK
  <2> QED BY <2>5, <2>6, <2>7 DEF NewlyDown
<1> QED BY <1>1, FailsInvariance, PTL DEF Spec, DownAfterNFailures

-----------------------------------------------------------------------------
(* Alerting implements AlertPolicy, and throttles its reminders.  The two  *)
(* theorems share one lemma, CheckMoves, that says what a step of a check  *)
(* may do to the status and the stamp of its target.                       *)

\* The snapshot that a check writes from agrees with the row but for a pause.
LEMMA SnapshotRow ==
    ASSUME Inv, NEW c \in Checkers, pc[c] = "update", row[job[c]] # Null
    PROVE  /\ job[c] \in Targets /\ row[job[c]] \in Row
           /\ loc[c].seen \in Row /\ loc[c].at \in Nat /\ loc[c].threshold \in Nat
           /\ row[job[c]].alertAt = loc[c].seen.alertAt
           /\ row[job[c]].status \in {loc[c].seen.status, "unknown"}
           /\ loc[c].at <= now
           /\ loc[c].seen.alertAt # Null => loc[c].seen.alertAt <= loc[c].at
           /\ loc[c].seen.status = "down" => loc[c].seen.alertAt # Null
<1>1. job[c] \in Targets /\ row[job[c]] \in Row /\ loc[c] \in Locals
  BY DEF Inv, TypeInv, TypeOK, JobInv, Busy
<1>2. loc[c].seen \in Row /\ loc[c].at \in Nat /\ loc[c].threshold \in Nat
  BY <1>1 DEF Locals
<1>3. row[job[c]] = loc[c].seen \/ row[job[c]] = Forget(loc[c].seen)
  BY DEF Inv, SnapshotInv, SnapshotCurrent
<1> QED BY <1>1, <1>2, <1>3, ForgetRow DEF Inv, SnapshotInv, StampInv

\* The ways in which a check may change status and stamp from r to n.
Move(r, n) ==
    \/ n.status = "up" /\ n.alertAt = Null /\ r.status \in {"down", "unknown"}
    \/ n.status = "up" /\ n.alertAt = r.alertAt /\ r.status # "down"
    \/ /\ n.status = "down" /\ r.status # "down"
       /\ n.alertAt \in 0..now
       /\ r.alertAt = Null \/ n.alertAt >= r.alertAt
    \/ n.status = "down" /\ n.alertAt = r.alertAt /\ r.status = "unknown" /\ r.alertAt # Null
    \/ n.status = r.status /\ n.alertAt = r.alertAt
    \/ /\ n.status = r.status /\ r.status \in {"down", "unknown"}
       /\ n.alertAt = now /\ r.alertAt # Null
       /\ ReminderDue(r.alertAt, now, ReminderHours)

LEMMA CheckMoves ==
    ASSUME Inv, NEW c \in Checkers, InnerStep(c)
    PROVE  \/ row'[job[c]] = row[job[c]]
           \/ row[job[c]] = Null /\ row'[job[c]] = NewRow
           \/ /\ row[job[c]] # Null /\ row'[job[c]] # Null
              /\ Move(row[job[c]], row'[job[c]])
<1> DEFINE t == job[c]
<1>0. /\ TypeInv /\ t \in Targets /\ row[t] \in Row \cup {Null} /\ now \in Nat
      /\ loc[c] \in Locals
      /\ row[t] # Null => row'[t] # Null
  BY InnerFrame, InnerRows DEF Inv, TypeInv, TypeOK
<1>1. CASE GetTarget(c) \/ (\E ok \in BOOLEAN : Probe(c, ok)) \/ RecordCheck(c)
           \/ RemindNotDue(c) \/ Notify(c) \/ Vanished(c) \/ CheckFails(c)
  BY <1>1 DEF GetTarget, Probe, RecordCheck, RemindNotDue, Notify, Vanished, CheckFails
<1>2. CASE ReadState(c) \/ FreshState(c)
  BY <1>0, <1>2 DEF ReadState, FreshState, EnsureRow, TypeInv, TypeOK
<1>3. CASE UpdateOk(c)
  <2> SUFFICES ASSUME row[t] # Null PROVE Move(row[t], row'[t])
    BY <1>0, <1>3 DEF UpdateOk
  <2>1. row'[t] = ApplyOk(row[t], loc[c].seen) /\ pc[c] = "update"
    BY <1>0, <1>3 DEF UpdateOk, TypeInv, TypeOK
  <2>2. CASE Recovered(loc[c].seen)
    BY <2>1, <2>2, SnapshotRow, ApplyOkRow DEF Move, Recovered
  <2>3. CASE ~Recovered(loc[c].seen)
    BY <2>1, <2>3, SnapshotRow, ApplyOkRow DEF Move, Recovered
  <2> QED BY <2>2, <2>3
<1>4. CASE UpdateFail(c)
  <2> SUFFICES ASSUME row[t] # Null PROVE Move(row[t], row'[t])
    BY <1>0, <1>4 DEF UpdateFail
  <2> DEFINE seen == loc[c].seen
             threshold == loc[c].threshold
             at == loc[c].at
  <2>1. row'[t] = ApplyFail(row[t], seen, threshold, at) /\ pc[c] = "update"
    BY <1>0, <1>4 DEF UpdateFail, TypeInv, TypeOK
  <2>2. CASE NewlyDown(seen, threshold)
    <3>1. row'[t].status = "down" /\ row'[t].alertAt = at
      BY <2>1, <2>2, SnapshotRow, ApplyFailRow
    <3>2. at \in 0..now /\ row[t].status # "down"
      BY <1>0, <2>1, <2>2, SnapshotRow DEF NewlyDown
    <3>3. row[t].alertAt = Null \/ at >= row[t].alertAt
      BY <2>1, SnapshotRow DEF Row
    <3> QED BY <3>1, <3>2, <3>3 DEF Move
  <2>3. CASE ~NewlyDown(seen, threshold)
    <3>1. row'[t].status = seen.status /\ row'[t].alertAt = row[t].alertAt
      BY <2>1, <2>3, SnapshotRow, ApplyFailRow
    <3>2. seen.status \in Status
      BY <2>1, SnapshotRow DEF Row
    <3> QED BY <2>1, <3>1, <3>2, SnapshotRow DEF Move, Status
  <2> QED BY <2>2, <2>3
<1>5. CASE Remind(c)
  <2> SUFFICES ASSUME row[t] # Null PROVE Move(row[t], row'[t])
    BY <1>0, <1>5 DEF Remind
  <2>1. /\ pc[c] = "remind" /\ row[t] \in Row
        /\ ReminderDue(loc[c].stamp, now, ReminderHours)
        /\ row'[t] = [row[t] EXCEPT !.alertAt = now]
    BY <1>0, <1>5 DEF Remind, TypeInv, TypeOK
  <2>2. /\ row[t].status \in {"down", "unknown"} /\ row[t].alertAt # Null
        /\ row[t].alertAt = loc[c].stamp
    BY <2>1 DEF Inv, StampInv, Reminds
  <2>3. row'[t].status = row[t].status /\ row'[t].alertAt = now
    BY <2>1 DEF Row
  <2> QED BY <2>1, <2>2, <2>3 DEF Move
<1> QED BY <1>1, <1>2, <1>3, <1>4, <1>5 DEF InnerStep

-----------------------------------------------------------------------------
(* The throttle. *)

LEMMA ThrottleStep ==
    ASSUME Inv, [Next]_vars, NEW t \in Targets,
           row[t] # Null, row'[t] # Null,
           row[t].alertAt # Null, row'[t].alertAt \notin {Null, row[t].alertAt}
    PROVE  \/ row[t].status # "down" /\ row'[t].status = "down"
           \/ /\ ReminderHours > 0
              /\ row'[t].alertAt - row[t].alertAt >= ReminderHours
<1>0. TypeInv /\ row[t] \in Row
  BY DEF Inv, TypeInv, TypeOK
<1>1. ASSUME NEW c \in Checkers, InnerStep(c)
      PROVE  \/ row[t].status # "down" /\ row'[t].status = "down"
             \/ /\ ReminderHours > 0
                /\ row'[t].alertAt - row[t].alertAt >= ReminderHours
  <2>1. t = job[c]
    BY <1>0, <1>1, InnerRows
  <2>2. Move(row[t], row'[t])
    BY <1>1, <2>1, CheckMoves DEF NewRow
  <2> QED BY <2>2 DEF Move, ReminderDue
<1>2. ASSUME NEW a \in Admins, AdminStep(a) \/ AdminFails(a)
      PROVE  FALSE
  BY <1>0, <1>2, AdminRows, ForgetRow
<1>3. ASSUME NEW c \in Checkers, Release(c) \/ \E u \in Targets : Claim(c, u)
      PROVE  FALSE
  BY <1>3 DEF Release, Claim
<1>4. CASE Crash \/ Tick \/ DueTargets \/ UNCHANGED vars
  BY <1>4 DEF Crash, Tick, DueTargets, vars, targetVars
<1> QED BY <1>1, <1>2, <1>3, <1>4 DEF Next, CheckStep, InnerStep

\* The stamp of a target that stays down moves forward by crash_reminder_hours
\* at least, and stands still when reminders are off: README's "at most one
\* reminder per throttle window", over crashes, pauses and failed statements.
THEOREM Throttle == Spec => ReminderThrottle
<1>1. Inv /\ [Next]_vars =>
        [\A t \in Targets :
           /\ row[t] # Null /\ row'[t] # Null
           /\ row[t].alertAt # Null /\ row'[t].alertAt \notin {Null, row[t].alertAt}
           => \/ row[t].status # "down" /\ row'[t].status = "down"
              \/ /\ ReminderHours > 0
                 /\ row'[t].alertAt - row[t].alertAt >= ReminderHours]_vars
  BY ThrottleStep
<1> QED BY <1>1, Invariance, PTL DEF Spec, ReminderThrottle

-----------------------------------------------------------------------------
(* The refinement. *)

\* The abstract status and stamp, as functions.
Statuses == [t \in Targets |-> StatusOf(row[t])]
Stampings == [t \in Targets |-> StampOf(row[t])]

\* A step that changes one row changes the abstract state of one target.
LEMMA OneRow ==
    ASSUME NEW t \in Targets, \A u \in Targets : u # t => row'[u] = row[u]
    PROVE  /\ Statuses' = [Statuses EXCEPT ![t] = StatusOf(row'[t])]
           /\ Stampings' = [Stampings EXCEPT ![t] = StampOf(row'[t])]
BY DEF Statuses, Stampings, StatusOf, StampOf

\* The same abstract status and stamp for every target.
LEMMA NoRow ==
    ASSUME NEW t \in Targets, \A u \in Targets : u # t => row'[u] = row[u],
           StatusOf(row'[t]) = StatusOf(row[t]), StampOf(row'[t]) = StampOf(row[t])
    PROVE  Statuses' = Statuses /\ Stampings' = Stampings
BY DEF Statuses, Stampings, StatusOf, StampOf

\* Operators change the row of one target at most.
LEMMA AdminOneRow ==
    ASSUME TypeInv, NEW a \in Admins, AdminStep(a) \/ AdminFails(a)
    PROVE  \/ row' = row
           \/ \E t \in Targets : \A u \in Targets : u # t => row'[u] = row[u]
<1> USE DEF TypeInv, TypeOK
<1>1. CASE AdminFails(a) \/ SetEnabled(a) \/ \E t \in Targets : ToggleTarget(a, t)
  BY <1>1 DEF AdminFails, SetEnabled, ToggleTarget
<1>2. CASE \E t \in Targets, new \in Target :
              CreateTarget(a, t, new) \/ UpdateTarget(a, t, new)
  BY <1>2 DEF CreateTarget, UpdateTarget
<1>3. CASE \E s, t \in Targets : CloneTarget(a, s, t)
  BY <1>3 DEF CloneTarget, CreateTarget
<1>4. CASE \E t \in Targets : DeleteTarget(a, t)
  BY <1>4 DEF DeleteTarget
<1>5. CASE InsertState(a)
  <2>1. adm[a].target \in Targets
    BY <1>5 DEF InsertState, AdminStates, Idle
  <2> QED BY <1>5, <2>1 DEF InsertState, EnsureRow
<1>6. CASE ForgetStatus(a)
  <2>1. adm[a].target \in Targets
    BY <1>6 DEF ForgetStatus, AdminStates, Idle
  <2> QED BY <1>6, <2>1 DEF ForgetStatus
<1> QED BY <1>1, <1>2, <1>3, <1>4, <1>5, <1>6 DEF AdminStep

LEMMA PolicyInit == Init => Policy!Init
BY DEF Init, Policy!Init, StatusOf, StampOf

LEMMA PolicyStep == Inv /\ [Next]_vars => [Policy!Next]_(Policy!vars)
<1> SUFFICES ASSUME Inv, [Next]_vars
             PROVE  Policy!Next \/ UNCHANGED Policy!vars
  OBVIOUS
<1>0. TypeInv /\ row \in [Targets -> Row \cup {Null}] /\ now \in Nat
  BY DEF Inv, TypeInv, TypeOK
<1>1. ASSUME NEW c \in Checkers, InnerStep(c)
      PROVE  Policy!Next \/ UNCHANGED Policy!vars
  <2> DEFINE t == job[c]
             r == row[t]
             n == row'[t]
  <2>0. /\ t \in Targets /\ now' = now
        /\ \A u \in Targets : u # t => row'[u] = row[u]
    BY <1>0, <1>1, InnerFrame, InnerRows
  <2>1. /\ Statuses' = [Statuses EXCEPT ![t] = StatusOf(n)]
        /\ Stampings' = [Stampings EXCEPT ![t] = StampOf(n)]
        /\ Statuses[t] = StatusOf(r) /\ Stampings[t] = StampOf(r)
    BY <2>0, OneRow DEF Statuses, Stampings
  <2>2. CASE n = r \/ (r = Null /\ n = NewRow)
    <3>1. StatusOf(n) = StatusOf(r) /\ StampOf(n) = StampOf(r)
      BY <2>2 DEF StatusOf, StampOf, NewRow
    <3> QED BY <2>0, <3>1, NoRow DEF Policy!vars, Statuses, Stampings
  <2>3. CASE r # Null /\ n # Null /\ Move(r, n)
    <3>1. /\ StatusOf(r) = r.status /\ StampOf(r) = r.alertAt
          /\ StatusOf(n) = n.status /\ StampOf(n) = n.alertAt
      BY <2>3 DEF StatusOf, StampOf
    <3>2. CASE n.status = "up" /\ n.alertAt = Null /\ r.status \in {"down", "unknown"}
      <4>1. Policy!Recover(t)
        BY <2>0, <2>1, <3>1, <3>2 DEF Policy!Recover, Statuses, Stampings
      <4> QED BY <2>0, <4>1 DEF Policy!Next
    <3>3. CASE n.status = "up" /\ n.alertAt = r.alertAt /\ r.status # "down"
      <4>1. Policy!SeeUp(t)
        BY <2>0, <2>1, <3>1, <3>3 DEF Policy!SeeUp, Statuses, Stampings
      <4> QED BY <2>0, <4>1 DEF Policy!Next
    <3>4. CASE /\ n.status = "down" /\ r.status # "down"
               /\ n.alertAt \in 0..now
               /\ r.alertAt = Null \/ n.alertAt >= r.alertAt
      <4>1. Policy!Declare(t)
        BY <2>0, <2>1, <3>1, <3>4 DEF Policy!Declare, Statuses, Stampings
      <4> QED BY <2>0, <4>1 DEF Policy!Next
    <3>5. CASE /\ n.status = "down" /\ n.alertAt = r.alertAt
               /\ r.status = "unknown" /\ r.alertAt # Null
      <4>1. Policy!Relapse(t)
        BY <2>0, <2>1, <3>1, <3>5 DEF Policy!Relapse, Statuses, Stampings
      <4> QED BY <2>0, <4>1 DEF Policy!Next
    <3>6. CASE n.status = r.status /\ n.alertAt = r.alertAt
      BY <2>0, <3>1, <3>6, NoRow DEF Policy!vars, Statuses, Stampings
    <3>7. CASE /\ n.status = r.status /\ r.status \in {"down", "unknown"}
               /\ n.alertAt = now /\ r.alertAt # Null
               /\ ReminderDue(r.alertAt, now, ReminderHours)
      <4>1. Policy!Remind(t)
        BY <2>0, <2>1, <3>1, <3>7
           DEF Policy!Remind, Policy!ReminderDue, ReminderDue, Statuses, Stampings
      <4> QED BY <2>0, <4>1 DEF Policy!Next
    <3> QED BY <2>3, <3>2, <3>3, <3>4, <3>5, <3>6, <3>7 DEF Move
  <2>4. n = r \/ (r = Null /\ n = NewRow) \/ (r # Null /\ n # Null /\ Move(r, n))
    BY <1>1, CheckMoves
  <2> QED BY <2>2, <2>3, <2>4
<1>2. ASSUME NEW a \in Admins, AdminStep(a) \/ AdminFails(a)
      PROVE  Policy!Next \/ UNCHANGED Policy!vars
  <2>1. CASE row' = row
    BY <1>0, <1>2, <2>1, AdminFrame DEF Policy!vars, StatusOf, StampOf
  <2>2. ASSUME NEW t \in Targets, \A u \in Targets : u # t => row'[u] = row[u]
        PROVE  Policy!Next \/ UNCHANGED Policy!vars
    <3> DEFINE r == row[t]
               n == row'[t]
    <3>0. now' = now
      BY <1>0, <1>2, AdminRows
    <3>1. /\ Statuses' = [Statuses EXCEPT ![t] = StatusOf(n)]
          /\ Stampings' = [Stampings EXCEPT ![t] = StampOf(n)]
          /\ Statuses[t] = StatusOf(r) /\ Stampings[t] = StampOf(r)
      BY <2>2, OneRow DEF Statuses, Stampings
    <3>2. CASE n = r \/ (r = Null /\ n = NewRow)
      <4>1. StatusOf(n) = StatusOf(r) /\ StampOf(n) = StampOf(r)
        BY <3>2 DEF StatusOf, StampOf, NewRow
      <4> QED BY <2>2, <3>0, <4>1, NoRow DEF Policy!vars, Statuses, Stampings
    <3>3. CASE n = Null
      <4>1. StatusOf(n) = "unknown" /\ StampOf(n) = Null
        BY <3>3 DEF StatusOf, StampOf
      <4>2. Policy!Drop(t)
        BY <3>0, <3>1, <4>1 DEF Policy!Drop, Statuses, Stampings
      <4> QED BY <4>2 DEF Policy!Next
    <3>4. CASE r # Null /\ n = Forget(r)
      <4>1. r \in Row /\ n # Null
        BY <1>0, <3>4, ForgetRow, NullAssumption
      <4>2. StatusOf(n) = "unknown" /\ StampOf(n) = StampOf(r)
        BY <3>4, <4>1, ForgetRow DEF StatusOf, StampOf
      <4>3. Policy!Pause(t)
        BY <3>0, <3>1, <4>2 DEF Policy!Pause, Statuses, Stampings
      <4> QED BY <4>3 DEF Policy!Next
    <3>5. \/ n = r
          \/ r = Null /\ n = NewRow
          \/ n = Null
          \/ r # Null /\ n = Forget(r)
      BY <1>0, <1>2, AdminRows
    <3> QED BY <3>2, <3>3, <3>4, <3>5
  <2> QED BY <1>0, <1>2, <2>1, <2>2, AdminOneRow
<1>3. ASSUME NEW c \in Checkers, Release(c) \/ \E t \in Targets : Claim(c, t)
      PROVE  UNCHANGED Policy!vars
  BY <1>3 DEF Release, Claim, Policy!vars, StatusOf, StampOf
<1>4. CASE Crash \/ DueTargets \/ UNCHANGED vars
  BY <1>4 DEF Crash, DueTargets, targetVars, vars, Policy!vars, StatusOf, StampOf
<1>5. CASE Tick
  <2>1. Policy!Tick
    BY <1>5 DEF Tick, Policy!Tick, StatusOf, StampOf
  <2> QED BY <2>1 DEF Policy!Next
<1> QED BY <1>1, <1>2, <1>3, <1>4, <1>5 DEF Next, CheckStep, InnerStep

\* The statements, threads, crashes and failures of Alerting never do to a
\* target what AlertPolicy does not allow in one atomic step.
THEOREM Refinement == Spec => PolicySpec
<1>1. Spec => Policy!Init /\ [][Policy!Next]_(Policy!vars)
  BY PolicyInit, PolicyStep, Invariance, PTL DEF Spec
<1> QED BY <1>1, PTL DEF PolicySpec, Policy!Spec

-----------------------------------------------------------------------------
(* The claims and the releases implement the claim protocol. *)

Checking(t) == \E c \in Checkers : Busy(c) /\ job[c] = t

\* What a target is at, in the protocol's words; Scheduler models the queue.
Stages == [t \in Targets |-> IF Checking(t) THEN "checking" ELSE "free"]

Protocol == INSTANCE ClaimProtocol WITH stage <- Stages

LEMMA SameStages ==
    ASSUME \A u \in Targets : Checking(u)' <=> Checking(u)
    PROVE  UNCHANGED Stages
BY DEF Stages

LEMMA Moved ==
    ASSUME NEW t \in Targets,
           \A u \in Targets : u # t => (Checking(u)' <=> Checking(u))
    PROVE  /\ Checking(t)' => Stages' = [Stages EXCEPT ![t] = "checking"]
           /\ ~Checking(t)' => Stages' = [Stages EXCEPT ![t] = "free"]
BY DEF Stages

LEMMA ProtocolStep ==
    TypeInv /\ ClaimExclusive /\ [Next]_vars => [Protocol!Next]_Stages
<1> SUFFICES ASSUME TypeInv, ClaimExclusive, [Next]_vars
             PROVE  [Protocol!Next]_Stages
  OBVIOUS
<1>0. /\ pc \in [Checkers -> PCs] /\ job \in [Checkers -> Targets \cup {Null}]
      /\ \A c \in Checkers : Busy(c) => job[c] \in Targets
  BY DEF TypeInv, TypeOK, JobInv
<1>1. ASSUME NEW c \in Checkers, NEW t \in Targets, Claim(c, t)
      PROVE  Protocol!Begin(t)
  <2>1. /\ ~Busy(c) /\ t \notin inflight
        /\ pc'[c] = "get" /\ job'[c] = t
        /\ \A d \in Checkers : d # c => pc'[d] = pc[d] /\ job'[d] = job[d]
    BY <1>0, <1>1 DEF Claim, Unclaimed, Goto, Busy
  <2>2. ~Checking(t)
    BY <2>1 DEF ClaimExclusive, Checking
  <2>3. Checking(t)' /\ \A u \in Targets : u # t => (Checking(u)' <=> Checking(u))
    BY <2>1 DEF Checking, Busy
  <2>4. Stages[t] = "free" /\ Stages' = [Stages EXCEPT ![t] = "checking"]
    BY <2>2, <2>3, Moved DEF Stages
  <2> QED BY <2>4 DEF Protocol!Begin, Protocol!Move
<1>2. ASSUME NEW c \in Checkers, InnerStep(c)
      PROVE  UNCHANGED Stages
  <2>1. \A d \in Checkers : job'[d] = job[d] /\ (Busy(d)' <=> Busy(d))
    BY <1>2, InnerFrame DEF Busy
  <2> QED BY <2>1, SameStages DEF Checking
<1>3. ASSUME NEW c \in Checkers, Release(c)
      PROVE  \E t \in Targets : Protocol!End(t)
  <2>1. PICK t \in Targets : t = job[c]
    BY <1>0, <1>3 DEF Release, Busy
  <2>2. /\ Busy(c) /\ pc'[c] = "idle"
        /\ \A d \in Checkers : d # c => pc'[d] = pc[d] /\ job'[d] = job[d]
    BY <1>0, <1>3 DEF Release, Goto, Busy
  <2>3. \A d \in Checkers : d # c /\ Busy(d) => job[d] # t
    BY <2>1, <2>2 DEF ClaimExclusive
  <2>4. ~Checking(t)' /\ \A u \in Targets : u # t => (Checking(u)' <=> Checking(u))
    BY <2>1, <2>2, <2>3 DEF Checking, Busy
  <2>5. Stages[t] = "checking" /\ Stages' = [Stages EXCEPT ![t] = "free"]
    BY <2>1, <2>2, <2>4, Moved DEF Stages, Checking
  <2> QED BY <2>5 DEF Protocol!End, Protocol!Move
<1>4. ASSUME NEW a \in Admins, AdminStep(a) \/ AdminFails(a)
      PROVE  UNCHANGED Stages
  BY <1>4, OuterFrame DEF Stages, Checking, Busy
<1>5. CASE Crash
  <2>1. \A u \in Targets : ~Checking(u)'
    BY <1>5 DEF Crash, Checking, Busy
  <2> QED BY <2>1 DEF Stages, Protocol!Restart, Protocol!Next
<1>6. CASE Tick \/ DueTargets \/ UNCHANGED vars
  BY <1>6 DEF Tick, DueTargets, targetVars, vars, checkVars, Stages, Checking, Busy
<1> QED
  BY <1>1, <1>2, <1>3, <1>4, <1>5, <1>6 DEF Next, CheckStep, InnerStep, Protocol!Next

\* However a check ends, deleted under its hands, with an exception or with an
\* email, it is one check of the claim protocol, which Scheduler implements
\* too: what Alerting leaves out, the queue and the loop, adds no other check.
THEOREM Protocols == Spec => Protocol!Spec
<1>1. Init => Protocol!Init
  BY DEF Init, Stages, Checking, Busy, Protocol!Init
<1>2. Spec => [](TypeInv /\ ClaimExclusive)
  BY Invariance, PTL DEF Inv
<1> QED BY <1>1, <1>2, ProtocolStep, PTL DEF Spec, Protocol!Spec

=============================================================================
