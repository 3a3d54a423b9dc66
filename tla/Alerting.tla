------------------------------ MODULE Alerting ------------------------------
(***************************************************************************)
(* One check of one target, from the claim to the alert: perform_check,    *)
(* _apply_result, _maybe_remind and check_now of app/monitor.py over the   *)
(* tables targets and target_state of app/models.py.                       *)
(*                                                                         *)
(* Every SQL statement commits on its own (db.execute), so a check is a    *)
(* sequence of atomic steps and other threads run in between: other        *)
(* checks, and operators who create, edit, pause, resume or delete.        *)
(* The process may crash between any two steps and any statement may fail. *)
(* When a check is due is the business of module Scheduler; here a         *)
(* scheduled check may start at any time.                                  *)
(***************************************************************************)
EXTENDS TargetState

CONSTANTS Targets,        \* target ids (AUTOINCREMENT: never used twice)
          Workers,        \* checks the monitor loop submits to the pool
          Requesters,     \* request threads that serve "Check now"
          Admins,         \* request threads that change targets
          Thresholds,     \* the values of fail_threshold in use
          ReminderHours,  \* crash_reminder_hours
          Faults,         \* which of "crash" and "db" may happen
          MaxTime,        \* bound of the clock
          MaxFails        \* bound of consecutive failures

\* The columns of table targets that the checks act on.
Target == [enabled : BOOLEAN, threshold : Thresholds]

ASSUME AlertingAssumption ==
    /\ Thresholds \subseteq Nat \ {0}
    /\ ReminderHours \in Int
    /\ Faults \subseteq {"crash", "db"}
    /\ MaxTime \in Nat
    /\ MaxFails \in Nat
    /\ Null \notin Targets \cup Target

Checkers == Workers \cup Requesters

VARIABLES
    tgt,       \* table targets: the enabled flag and threshold of each row
    row,       \* table target_state
    born,      \* ids already handed out
    due,       \* the targets left in the list that the loop works through
    inflight,  \* the set _inflight
    pc,        \* where each check is
    job,       \* the target each check works on
    loc,       \* the local variables of each check
    adm,       \* what each operator request has left to do
    now,       \* the clock
    tail,      \* length of the failing end of the target's check_history
    pending    \* history: a DOWN alert was stamped and notify not yet called

targetVars == <<tgt, born, adm>>
checkVars  == <<due, inflight, pc, job, loc>>
vars == <<targetVars, checkVars, row, now, tail, pending>>

PCs == {"idle", "get", "probe", "read", "record", "update", "fresh",
        "remind", "notify", "release"}

Todos == {"none", "down", "remind", "reminder", "recovery"}

Locals == [threshold : Nat, ok : BOOLEAN, at : Nat, seen : Row,
           todo : Todos, stamp : Nat \cup {Null}]

NoLocals == [threshold |-> 1, ok |-> TRUE, at |-> 0, seen |-> NewRow,
             todo |-> "none", stamp |-> Null]

Idle == [do |-> "idle", target |-> Null]

AdminStates == {Idle}
               \cup [do : {"insertState", "forget"}, target : Targets]
               \cup [do : {"setEnabled"}, target : Targets, want : BOOLEAN]

Init ==
    /\ tgt = [t \in Targets |-> Null]
    /\ row = [t \in Targets |-> Null]
    /\ born = {}
    /\ due = {}
    /\ inflight = {}
    /\ pc = [c \in Checkers |-> "idle"]
    /\ job = [c \in Checkers |-> Null]
    /\ loc = [c \in Checkers |-> NoLocals]
    /\ adm = [a \in Admins |-> Idle]
    /\ now = 0
    /\ tail = [t \in Targets |-> 0]
    /\ pending = [t \in Targets |-> FALSE]

-----------------------------------------------------------------------------
(* The check. *)

Goto(c, label) == pc' = [pc EXCEPT ![c] = label]

\* get_state inserts the row when it is missing.
EnsureRow(t) == row' = [row EXCEPT ![t] = IF @ = Null THEN NewRow ELSE @]

\* Mutant: _claim adds the target without looking.
UnclaimedUnseen(t) == TRUE

\* The test of _claim.
Unclaimed(t) == t \notin inflight

\* _due_targets lists enabled targets.  The loop works through the list and
\* looks at the table no more.
DueTargets ==
    /\ due' = {t \in Targets : tgt[t] # Null /\ tgt[t].enabled}
    /\ UNCHANGED <<targetVars, inflight, pc, job, loc, row, now, tail, pending>>

\* The loop claims the targets of its list, check_now one that the handler has
\* seen; either may be paused or deleted by now.  A claim that fails leaves
\* everything as it is.
Claim(c, t) ==
    /\ pc[c] = "idle"
    /\ \/ c \in Workers /\ t \in due /\ due' = due \ {t}
       \/ c \in Requesters /\ t \in born /\ UNCHANGED due
    /\ Unclaimed(t)
    /\ inflight' = inflight \cup {t}
    /\ job' = [job EXCEPT ![c] = t]
    /\ Goto(c, "get")
    /\ UNCHANGED <<targetVars, loc, row, now, tail, pending>>

\* get_target: the check works with this copy of the target from now on.
GetTarget(c) ==
    /\ pc[c] = "get"
    /\ tgt[job[c]] # Null
    /\ loc' = [loc EXCEPT ![c].threshold = tgt[job[c]].threshold]
    /\ Goto(c, "probe")
    /\ UNCHANGED <<targetVars, due, inflight, job, row, now, tail, pending>>

\* run_check never raises; MaxFails bounds the failures of a target.
Probe(c, ok) ==
    /\ pc[c] = "probe"
    /\ ok \/ /\ tail[job[c]] < MaxFails
             /\ row[job[c]] # Null => row[job[c]].fails < MaxFails
    /\ loc' = [loc EXCEPT ![c].ok = ok]
    /\ Goto(c, "read")
    /\ UNCHANGED <<targetVars, due, inflight, job, row, now, tail, pending>>

\* The clock and the state row are read before the result is stored.
ReadState(c) ==
    /\ pc[c] = "read"
    /\ tgt[job[c]] # Null
    /\ EnsureRow(job[c])
    /\ loc' = [loc EXCEPT ![c] = [@ EXCEPT !.at = now, !.seen = row'[job[c]]]]
    /\ Goto(c, "record")
    /\ UNCHANGED <<targetVars, due, inflight, job, now, tail, pending>>

\* record_check appends to check_history.
RecordCheck(c) ==
    /\ pc[c] = "record"
    /\ tgt[job[c]] # Null
    /\ tail' = [tail EXCEPT ![job[c]] = IF loc[c].ok THEN 0 ELSE @ + 1]
    /\ Goto(c, "update")
    /\ UNCHANGED <<targetVars, due, inflight, job, loc, row, now, pending>>

\* update_state after a success, and what is left to do: a recovery email if
\* the target had been down and send_recovery_emails is on.
UpdateOk(c) ==
    LET t == job[c] IN
    /\ pc[c] = "update"
    /\ loc[c].ok
    /\ row' = IF row[t] = Null THEN row
              ELSE [row EXCEPT ![t] = ApplyOk(@, loc[c].seen)]
    /\ \/ /\ Recovered(loc[c].seen)
          /\ loc' = [loc EXCEPT ![c].todo = "recovery"]
          /\ Goto(c, "fresh")
       \/ /\ Goto(c, "release")
          /\ UNCHANGED loc
    /\ UNCHANGED <<targetVars, due, inflight, job, now, tail, pending>>

\* Mutant: the branch of _maybe_remind is taken for every failing check.
TodoAfterFailureSwapped(seen, threshold) ==
    IF seen.status = "down" THEN "remind" ELSE "none"

\* What a failed check does after its update.
TodoAfterFailure(seen, threshold) ==
    CASE NewlyDown(seen, threshold) -> "down"
      [] seen.status = "down"       -> "remind"
      [] OTHER                      -> "none"

\* update_state after a failure.  Declaring the target DOWN stamps the alert
\* before it is sent.
UpdateFail(c) ==
    LET t    == job[c]
        seen == loc[c].seen
        todo == TodoAfterFailure(seen, loc[c].threshold) IN
    /\ pc[c] = "update"
    /\ ~loc[c].ok
    /\ row' = IF row[t] = Null THEN row
              ELSE [row EXCEPT ![t] = ApplyFail(@, seen, loc[c].threshold, loc[c].at)]
    /\ loc' = [loc EXCEPT ![c].todo = todo]
    /\ pending' = [pending EXCEPT ![t] =
                     @ \/ (NewlyDown(seen, loc[c].threshold) /\ row[t] # Null)]
    /\ Goto(c, "fresh")
    /\ UNCHANGED <<targetVars, due, inflight, job, now, tail>>

\* get_state after an update, for the text of the email or for the throttle.
FreshState(c) ==
    /\ pc[c] = "fresh"
    /\ tgt[job[c]] # Null
    /\ EnsureRow(job[c])
    /\ loc' = [loc EXCEPT ![c].stamp = row'[job[c]].alertAt]
    /\ Goto(c, CASE loc[c].todo = "none" -> "release"
                 [] loc[c].todo = "remind" -> "remind"
                 [] OTHER -> "notify")
    /\ UNCHANGED <<targetVars, due, inflight, job, now, tail, pending>>

\* _maybe_remind stamps the reminder, then reads the row again for its text.
Remind(c) ==
    LET t == job[c] IN
    /\ pc[c] = "remind"
    /\ ReminderDue(loc[c].stamp, now, ReminderHours)
    /\ row' = IF row[t] = Null THEN row ELSE [row EXCEPT ![t].alertAt = now]
    /\ pending' = [pending EXCEPT ![t] = @ \/ row[t] # Null]
    /\ loc' = [loc EXCEPT ![c].todo = "reminder"]
    /\ Goto(c, "fresh")
    /\ UNCHANGED <<targetVars, due, inflight, job, now, tail>>

RemindNotDue(c) ==
    /\ pc[c] = "remind"
    /\ ~ReminderDue(loc[c].stamp, now, ReminderHours)
    /\ Goto(c, "release")
    /\ UNCHANGED <<targetVars, due, inflight, job, loc, row, now, tail, pending>>

\* mailer.notify swallows every failure, so its outcome changes nothing here.
Notify(c) ==
    /\ pc[c] = "notify"
    /\ pending' = [pending EXCEPT ![job[c]] = @ /\ loc[c].todo = "recovery"]
    /\ Goto(c, "release")
    /\ UNCHANGED <<targetVars, due, inflight, job, loc, row, now, tail>>

\* The target was deleted: get_target finds nothing, and inserting a state or
\* history row for it violates the foreign key and raises.
Vanished(c) ==
    /\ pc[c] \in {"get", "read", "record", "fresh"}
    /\ tgt[job[c]] = Null
    /\ Goto(c, "release")
    /\ UNCHANGED <<targetVars, due, inflight, job, loc, row, now, tail, pending>>

\* _release discards the target.
Released(c) == inflight \ {job[c]}

\* The "finally" of _worker and check_now.
Release(c) ==
    /\ pc[c] = "release"
    /\ inflight' = Released(c)
    /\ job' = [job EXCEPT ![c] = Null]
    /\ loc' = [loc EXCEPT ![c] = NoLocals]
    /\ Goto(c, "idle")
    /\ UNCHANGED <<targetVars, due, row, now, tail, pending>>

CheckStep(c) ==
    \/ GetTarget(c)
    \/ \E ok \in BOOLEAN : Probe(c, ok)
    \/ ReadState(c)
    \/ RecordCheck(c)
    \/ UpdateOk(c)
    \/ UpdateFail(c)
    \/ FreshState(c)
    \/ Remind(c)
    \/ RemindNotDue(c)
    \/ Notify(c)
    \/ Vanished(c)
    \/ Release(c)

\* A statement raises (the database stays locked for 30 s, the disk is full).
\* Nothing is written and the rest of the check is skipped.
CheckFails(c) ==
    /\ "db" \in Faults
    /\ pc[c] \in {"get", "read", "record", "update", "fresh", "remind"}
    /\ Goto(c, "release")
    /\ UNCHANGED <<targetVars, due, inflight, job, loc, row, now, tail, pending>>

-----------------------------------------------------------------------------
(* Operators: each handler runs its statements one by one. *)

After(a, rest) == adm' = [adm EXCEPT ![a] = rest]

\* create_target: the row of targets first, then the row of target_state.
CreateTarget(a, t, new) ==
    /\ adm[a].do = "idle"
    /\ t \notin born
    /\ born' = born \cup {t}
    /\ tgt' = [tgt EXCEPT ![t] = new]
    /\ After(a, [do |-> "insertState", target |-> t])
    /\ UNCHANGED <<checkVars, row, now, tail, pending>>

\* clone_target copies the source, disabled.
CloneTarget(a, s, t) ==
    /\ tgt[s] # Null
    /\ CreateTarget(a, t, [tgt[s] EXCEPT !.enabled = FALSE])

\* update_target overwrites the row, then makes sure there is a state row.
UpdateTarget(a, t, new) ==
    /\ adm[a].do = "idle"
    /\ tgt[t] # Null
    /\ tgt' = [tgt EXCEPT ![t] = new]
    /\ After(a, [do |-> "insertState", target |-> t])
    /\ UNCHANGED <<born, checkVars, row, now, tail, pending>>

\* Mutant: INSERT OR REPLACE instead of OR IGNORE.
InsertStateReplaces(a) ==
    LET t == adm[a].target IN
    /\ adm[a].do = "insertState"
    /\ row' = IF tgt[t] # Null THEN [row EXCEPT ![t] = NewRow] ELSE row
    /\ After(a, Idle)
    /\ UNCHANGED <<tgt, born, checkVars, now, tail, pending>>

\* The second statement of create and update.  If a check was faster, or the
\* target is gone, the insert does nothing or raises: no row is written.
InsertState(a) ==
    LET t == adm[a].target IN
    /\ adm[a].do = "insertState"
    /\ IF tgt[t] # Null THEN EnsureRow(t) ELSE UNCHANGED row
    /\ After(a, Idle)
    /\ UNCHANGED <<tgt, born, checkVars, now, tail, pending>>

\* target_toggle reads the flag, and then writes its negation.
ToggleTarget(a, t) ==
    /\ adm[a].do = "idle"
    /\ tgt[t] # Null
    /\ After(a, [do |-> "setEnabled", target |-> t, want |-> ~tgt[t].enabled])
    /\ UNCHANGED <<tgt, born, checkVars, row, now, tail, pending>>

SetEnabled(a) ==
    LET t == adm[a].target IN
    /\ adm[a].do = "setEnabled"
    /\ tgt' = IF tgt[t] = Null THEN tgt
              ELSE [tgt EXCEPT ![t].enabled = adm[a].want]
    /\ After(a, IF adm[a].want THEN Idle ELSE [do |-> "forget", target |-> t])
    /\ UNCHANGED <<born, checkVars, row, now, tail, pending>>

ForgetStatus(a) ==
    LET t == adm[a].target IN
    /\ adm[a].do = "forget"
    /\ row' = IF row[t] = Null THEN row ELSE [row EXCEPT ![t] = Forget(@)]
    /\ After(a, Idle)
    /\ UNCHANGED <<tgt, born, checkVars, now, tail, pending>>

\* delete_target cascades to the state and history rows.
DeleteTarget(a, t) ==
    /\ adm[a].do = "idle"
    /\ tgt[t] # Null
    /\ tgt' = [tgt EXCEPT ![t] = Null]
    /\ row' = [row EXCEPT ![t] = Null]
    /\ tail' = [tail EXCEPT ![t] = 0]
    /\ UNCHANGED <<born, adm, checkVars, now, pending>>

\* A statement of a handler raises: the statements after it are not run.
AdminFails(a) ==
    /\ "db" \in Faults
    /\ adm[a].do # "idle"
    /\ After(a, Idle)
    /\ UNCHANGED <<tgt, born, checkVars, row, now, tail, pending>>

AdminStep(a) ==
    \/ \E t \in Targets, new \in Target : \/ CreateTarget(a, t, new)
                                          \/ UpdateTarget(a, t, new)
    \/ \E s, t \in Targets : CloneTarget(a, s, t)
    \/ \E t \in Targets : ToggleTarget(a, t) \/ DeleteTarget(a, t)
    \/ InsertState(a)
    \/ SetEnabled(a)
    \/ ForgetStatus(a)

-----------------------------------------------------------------------------

\* The process dies and is restarted.  Threads and claims are lost, the
\* tables are kept.
Crash ==
    /\ "crash" \in Faults
    /\ due' = {}
    /\ inflight' = {}
    /\ pc' = [c \in Checkers |-> "idle"]
    /\ job' = [c \in Checkers |-> Null]
    /\ loc' = [c \in Checkers |-> NoLocals]
    /\ adm' = [a \in Admins |-> Idle]
    /\ UNCHANGED <<tgt, born, row, now, tail, pending>>

Tick ==
    /\ now < MaxTime
    /\ now' = now + 1
    /\ UNCHANGED <<targetVars, checkVars, row, tail, pending>>

Next ==
    \/ \E c \in Checkers : \/ \E t \in Targets : Claim(c, t)
                           \/ CheckStep(c)
                           \/ CheckFails(c)
    \/ \E a \in Admins : AdminStep(a) \/ AdminFails(a)
    \/ DueTargets
    \/ Crash
    \/ Tick

Spec == Init /\ [][Next]_vars

-----------------------------------------------------------------------------
(* Properties. *)

\* The tables and the locals of the threads have the shape the code relies on.
TypeOK ==
    /\ tgt \in [Targets -> Target \cup {Null}]
    /\ row \in [Targets -> Row \cup {Null}]
    /\ born \subseteq Targets
    /\ due \subseteq Targets
    /\ inflight \subseteq Targets
    /\ pc \in [Checkers -> PCs]
    /\ job \in [Checkers -> Targets \cup {Null}]
    /\ loc \in [Checkers -> Locals]
    /\ adm \in [Admins -> AdminStates]
    /\ now \in Nat
    /\ tail \in [Targets -> Nat]
    /\ pending \in [Targets -> BOOLEAN]

Busy(c) == pc[c] # "idle"

\* _claim and _release: the claims are those of the running checks, none is
\* left behind by a check that vanished, raised or ended, and no target is
\* checked twice at the same time, by the loop or by "Check now".
ClaimExclusive ==
    /\ \A c \in Checkers : Busy(c) => job[c] \in inflight
    /\ \A t \in inflight : \E c \in Checkers : Busy(c) /\ job[c] = t
    /\ \A c, d \in Checkers : Busy(c) /\ Busy(d) /\ job[c] = job[d] => c = d

\* No lost update: between reading the state row and writing it back, a check
\* finds it unchanged, or reset by a pause, or deleted.
SnapshotCurrent ==
    \A c \in Checkers : pc[c] \in {"record", "update"} =>
        \/ row[job[c]] = Null
        \/ row[job[c]] = loc[c].seen
        \/ row[job[c]] = Forget(loc[c].seen)

\* A DOWN status always carries the stamp of its alert: the throttle of
\* _maybe_remind never starts from nothing and the first reminder waits.
DownIsStamped ==
    \A t \in Targets :
        row[t] # Null /\ row[t].status = "down" => row[t].alertAt # Null

\* A DOWN email about to be sent has a stamp of its own that no other email
\* has used: one email per stamp, also across crashes and failed statements.
OneEmailPerStamp ==
    \A c \in Checkers :
        pc[c] = "notify" /\ loc[c].todo \in {"down", "reminder"}
            => pending[job[c]]

\* While no statement fails and the process lives, every declared DOWN and
\* every stamped reminder has been handed to the mailer once its check ended.
NoAlertForgotten ==
    \A t \in Targets : row[t] # Null /\ t \notin inflight => ~pending[t]

\* While no statement fails and the process lives, consecutive_failures never
\* exceeds the failures that end check_history, except while an UPDATE is due.
FailuresAreReal ==
    \A t \in Targets :
        /\ row[t] # Null
        /\ \A c \in Checkers : ~(pc[c] = "update" /\ job[c] = t)
        => row[t].fails <= tail[t]

\* Reminder throttle: the stamp of a target that stays down moves forward by
\* at least crash_reminder_hours, and never when reminders are switched off.
ReminderThrottle ==
    [][\A t \in Targets :
         /\ row[t] # Null /\ row'[t] # Null
         /\ row[t].alertAt # Null /\ row'[t].alertAt \notin {Null, row[t].alertAt}
         => \/ row[t].status # "down" /\ row'[t].status = "down"
            \/ /\ ReminderHours > 0
               /\ row'[t].alertAt - row[t].alertAt >= ReminderHours]_vars

\* A check of target t, which still exists, declares it DOWN in this step.
Declares(c, t) ==
    /\ pc[c] = "update" /\ pc'[c] = "fresh" /\ job[c] = t /\ row[t] # Null
    /\ loc'[c].todo = "down"

\* README: "Declares a target DOWN after N consecutive failures".
DownAfterNFailures ==
    [][\A c \in Checkers, t \in Targets :
         Declares(c, t) => tail[t] >= loc[c].threshold]_vars

\* set_target_enabled says that a disabled target is neither up nor down.
DisabledIsUnknown ==
    \A t \in Targets :
        /\ tgt[t] # Null /\ row[t] # Null
        /\ ~tgt[t].enabled
        /\ \A a \in Admins : adm[a].target # t
        => row[t].status = "unknown"

\* What an operator sees of a state row; a missing row reads as "unknown".
StatusOf(r) == IF r = Null THEN "unknown" ELSE r.status
StampOf(r)  == IF r = Null THEN Null ELSE r.alertAt

\* The alert state of every target follows AlertPolicy.
Policy == INSTANCE AlertPolicy WITH
    status <- [t \in Targets |-> StatusOf(row[t])],
    stamp  <- [t \in Targets |-> StampOf(row[t])]

PolicySpec == Policy!Spec

=============================================================================
