---------------------------- MODULE ClaimProtocol ----------------------------
(***************************************************************************)
(* What _claim and _release promise about each target, as atomic steps: a  *)
(* target is with one check at most, which waits in the queue of the pool  *)
(* or runs, and it is free again before the next one.  Alerting and        *)
(* Scheduler, which model a check in different detail, both implement it:  *)
(* they know of queues, threads and the set _inflight, it knows of none.   *)
(***************************************************************************)

CONSTANT Targets

VARIABLE stage  \* of each target: "free", "queued" or "checking"

Init == stage = [t \in Targets |-> "free"]

Move(t, from, to) ==
    /\ stage[t] = from
    /\ stage' = [stage EXCEPT ![t] = to]

\* The loop claims a target and hands its check to the pool.
Submit(t) == Move(t, "free", "queued")

\* A thread of the pool takes the check.
Take(t) == Move(t, "queued", "checking")

\* A check that starts as it is claimed: Check now, or any check where the
\* queue is left out.
Begin(t) == Move(t, "free", "checking")

\* The check is over, however it ended.
End(t) == Move(t, "checking", "free")

\* The process is restarted: queue, threads and claims are gone.
Restart == stage' = [t \in Targets |-> "free"]

Next ==
    \/ \E t \in Targets : Submit(t) \/ Take(t) \/ Begin(t) \/ End(t)
    \/ Restart

Spec == Init /\ [][Next]_stage

=============================================================================
