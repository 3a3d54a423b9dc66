---------------------------- MODULE AlertPolicy ----------------------------
(***************************************************************************)
(* What the monitor promises about one target's alert state, as atomic     *)
(* steps: the status an operator reads and the stamp of the last alert     *)
(* that throttles reminders.  Alerting implements it with several SQL      *)
(* statements per check, run by threads that interleave with operators,    *)
(* crashes and failing statements.                                         *)
(***************************************************************************)
EXTENDS TargetState

CONSTANTS Targets,        \* target ids
          ReminderHours,  \* crash_reminder_hours
          MaxTime         \* bound of the clock

VARIABLES status, stamp, now

vars == <<status, stamp, now>>

Init ==
    /\ status = [t \in Targets |-> "unknown"]
    /\ stamp = [t \in Targets |-> Null]
    /\ now = 0

\* A target that was not down goes down.  The stamp is the time at which the
\* check began its bookkeeping, never older than the stamp it replaces.
Declare(t) ==
    /\ status[t] # "down"
    /\ \E at \in 0..now :
          /\ stamp[t] = Null \/ at >= stamp[t]
          /\ status' = [status EXCEPT ![t] = "down"]
          /\ stamp' = [stamp EXCEPT ![t] = at]
    /\ UNCHANGED now

\* A reminder moves the stamp by at least the throttle.  The target is down,
\* or was paused after the check found it down.
Remind(t) ==
    /\ status[t] \in {"down", "unknown"}
    /\ stamp[t] # Null
    /\ ReminderDue(stamp[t], now, ReminderHours)
    /\ stamp' = [stamp EXCEPT ![t] = now]
    /\ UNCHANGED <<status, now>>

\* A recovery ends the outage: the next one starts with a clean stamp.
Recover(t) ==
    /\ status[t] \in {"down", "unknown"}
    /\ status' = [status EXCEPT ![t] = "up"]
    /\ stamp' = [stamp EXCEPT ![t] = Null]
    /\ UNCHANGED now

\* A target that was not down is seen up.
SeeUp(t) ==
    /\ status[t] # "down"
    /\ status' = [status EXCEPT ![t] = "up"]
    /\ UNCHANGED <<stamp, now>>

\* Pausing forgets the status and keeps the stamp.
Pause(t) ==
    /\ status' = [status EXCEPT ![t] = "unknown"]
    /\ UNCHANGED <<stamp, now>>

\* A check that straddled a pause writes back the DOWN it had read.  It is
\* part of the promise because the code does it, and it announces nothing.
Relapse(t) ==
    /\ status[t] = "unknown"
    /\ stamp[t] # Null
    /\ status' = [status EXCEPT ![t] = "down"]
    /\ UNCHANGED <<stamp, now>>

\* Deleting the target removes its row.
Drop(t) ==
    /\ status' = [status EXCEPT ![t] = "unknown"]
    /\ stamp' = [stamp EXCEPT ![t] = Null]
    /\ UNCHANGED now

Tick ==
    /\ now < MaxTime
    /\ now' = now + 1
    /\ UNCHANGED <<status, stamp>>

Next ==
    \/ Tick
    \/ \E t \in Targets : \/ Declare(t) \/ Remind(t) \/ Recover(t)
                          \/ SeeUp(t)   \/ Pause(t)  \/ Relapse(t) \/ Drop(t)

Spec == Init /\ [][Next]_vars

=============================================================================
