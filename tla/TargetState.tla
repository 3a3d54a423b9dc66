---------------------------- MODULE TargetState ----------------------------
(***************************************************************************)
(* The row of table target_state that drives alerting, and the pure part   *)
(* of _apply_result in app/monitor.py: what a check, a pause and a         *)
(* reminder do to that row.  Columns that no decision reads (latency,      *)
(* last error, last_up_at) are left out.                                   *)
(***************************************************************************)
EXTENDS Integers

CONSTANT Null   \* SQL NULL, and "no such row"

Status == {"unknown", "up", "down"}

\* alertAt is last_alert_sent_at.
Row == [status : Status, fails : Nat, alertAt : Nat \cup {Null}]

ASSUME NullAssumption == Null \notin Nat /\ Null \notin Row

NewRow == [status |-> "unknown", fails |-> 0, alertAt |-> Null]

-----------------------------------------------------------------------------
\* "seen" is the row the check read before it recorded its result; "row" is
\* the row its UPDATE statement finds, which may have changed meanwhile.

Recovered(seen) == seen.status = "down"

\* Mutant: the failure is counted twice.
NewlyDownEarly(seen, threshold) ==
    /\ seen.fails + 2 >= threshold
    /\ seen.status # "down"

\* The failure that reaches the threshold, counted with the ones before it.
NewlyDown(seen, threshold) ==
    /\ seen.fails + 1 >= threshold
    /\ seen.status # "down"

\* Mutant: the counter survives a success.
ApplyOkKeepsFails(row, seen) ==
    [row EXCEPT !.status  = "up",
                !.alertAt = IF Recovered(seen) THEN Null ELSE @]

\* Mutant: the stamp survives a recovery.
ApplyOkKeepsStamp(row, seen) == [row EXCEPT !.status = "up", !.fails = 0]

\* UPDATE target_state after a successful check.
ApplyOk(row, seen) ==
    [row EXCEPT !.status  = "up",
                !.fails   = 0,
                !.alertAt = IF Recovered(seen) THEN Null ELSE @]

\* Mutant: declaring DOWN leaves the stamp to the mailer.
ApplyFailUnstamped(row, seen, threshold, at) ==
    [row EXCEPT !.status = IF NewlyDown(seen, threshold) THEN "down" ELSE seen.status,
                !.fails  = seen.fails + 1]

\* UPDATE target_state after a failed check that started its bookkeeping at
\* time "at".  Below the threshold, and while down, the status written back
\* is the one that was read.
ApplyFail(row, seen, threshold, at) ==
    IF NewlyDown(seen, threshold)
    THEN [status |-> "down", fails |-> seen.fails + 1, alertAt |-> at]
    ELSE [row EXCEPT !.status = seen.status, !.fails = seen.fails + 1]

\* Mutant: the counter becomes NULL.
ForgetToNull(row) == [row EXCEPT !.status = "unknown", !.fails = Null]

\* What pausing does to the row.
Forget(row) == [row EXCEPT !.status = "unknown", !.fails = 0]

\* Mutant: one hour too early.
ReminderDueEarly(alertAt, now, hours) ==
    /\ hours > 0
    /\ alertAt = Null \/ now - alertAt >= hours - 1

\* The throttle of _maybe_remind; hours <= 0 switches reminders off.
ReminderDue(alertAt, now, hours) ==
    /\ hours > 0
    /\ alertAt = Null \/ now - alertAt >= hours

=============================================================================
