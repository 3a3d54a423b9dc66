------------------------------ MODULE Scheduler ------------------------------
(***************************************************************************)
(* When a target is checked, and by whom: the monitor loop, its thread     *)
(* pool and "Check now" (_due_targets, _worker, _loop, start and check_now *)
(* of app/monitor.py).  What a check does to the alert state is the        *)
(* business of Alerting; here it only renews last_checked_at.              *)
(*                                                                         *)
(* Times are ages: age[t] is the time since last_checked_at and "since"    *)
(* the time since the last housekeeping, each up to the value from which   *)
(* on nothing depends on it.                                               *)
(***************************************************************************)
EXTENDS Integers, Sequences

CONSTANTS Null,        \* SQL NULL, and "nothing"
          Targets,     \* target ids (AUTOINCREMENT: never used twice)
          Workers,     \* threads of the pool: max_workers
          Requesters,  \* request threads that serve "Check now"
          Intervals,   \* the values of interval_seconds in use
          MaxAge,      \* ages are counted up to here
          PruneEvery,  \* PRUNE_EVERY_SECONDS
          UpdateJob,   \* updates.maybe_check, submitted by the housekeeping
          MaxFaults    \* bound: crashes and failing statements in a behaviour

\* The columns of table targets that the loop acts on.
Target == [enabled : BOOLEAN, interval : Intervals]

ASSUME SchedulerAssumption ==
    /\ MaxAge \in Nat /\ PruneEvery \in Nat /\ MaxFaults \in Nat
    /\ Intervals \subseteq 1..MaxAge
    /\ Null \notin Nat \cup Targets \cup Target
    /\ UpdateJob \notin Targets \cup {Null}
    /\ Workers \cap Requesters = {}

Threads == Workers \cup Requesters
Jobs == Targets \cup {UpdateJob}

VARIABLES
    tgt,       \* table targets
    age,       \* table target_state: the age of last_checked_at
    born,      \* ids already handed out
    inflight,  \* the set _inflight
    loop,      \* where the monitor loop is
    due,       \* the rest of the list the loop is working through
    queue,     \* the jobs waiting for a thread of the pool
    pc,        \* where each thread is
    job,       \* what each thread works on
    since,     \* the age of last_prune
    faults     \* faults so far

tables == <<tgt, age, born>>
loopVars == <<loop, due, since>>
threadVars == <<pc, job>>
vars == <<tables, loopVars, threadVars, inflight, queue, faults>>

TypeOK ==
    /\ tgt \in [Targets -> Target \cup {Null}]
    /\ age \in [Targets -> 0..MaxAge \cup {Null}]
    /\ born \subseteq Targets
    /\ inflight \subseteq Targets
    /\ loop \in {"start", "list", "claim", "house", "wait", "dead"}
    /\ due \subseteq Targets
    /\ queue \in Seq(Jobs)
    /\ pc \in [Threads -> {"idle", "start", "apply", "release", "update"}]
    /\ job \in [Threads -> Jobs \cup {Null}]
    /\ since \in 0..PruneEvery
    /\ faults \in 0..MaxFaults

Init ==
    /\ tgt = [t \in Targets |-> Null]
    /\ age = [t \in Targets |-> Null]
    /\ born = {}
    /\ inflight = {}
    /\ loop = "start"
    /\ due = {}
    /\ queue = <<>>
    /\ pc = [c \in Threads |-> "idle"]
    /\ job = [c \in Threads |-> Null]
    /\ since = PruneEvery
    /\ faults = 0

-----------------------------------------------------------------------------
(* The loop. *)

\* The thread reads max_workers and creates the pool.
Begin ==
    /\ loop = "start"
    /\ loop' = "list"
    /\ UNCHANGED <<tables, threadVars, inflight, queue, due, since>>

\* The read of max_workers raises outside every try: the thread ends, and
\* start() is not called again in this process.
BeginFails ==
    /\ loop = "start"
    /\ loop' = "dead"
    /\ UNCHANGED <<tables, threadVars, inflight, queue, due, since>>

\* Enabled, and never checked or checked an interval ago.
Due(t) ==
    /\ tgt[t] # Null
    /\ tgt[t].enabled
    /\ age[t] = Null \/ age[t] >= tgt[t].interval

\* _due_targets: one query, whose result the loop then works through.
List ==
    /\ loop = "list"
    /\ due' = {t \in Targets : Due(t)}
    /\ loop' = "claim"
    /\ UNCHANGED <<tables, threadVars, inflight, queue, since>>

\* Mutant: the loop submits what it listed without asking for the claim.
SubmitUnclaimed(t) ==
    /\ loop = "claim" /\ t \in due
    /\ due' = due \ {t}
    /\ inflight' = inflight \cup {t}
    /\ queue' = Append(queue, t)
    /\ UNCHANGED <<tables, threadVars, loop, since>>

\* Mutant: the loop waits for a free thread before it hands over a check.
SubmitWaits(t) ==
    /\ loop = "claim" /\ t \in due
    /\ t \notin inflight
    /\ queue = <<>> /\ \E w \in Workers : pc[w] = "idle"
    /\ due' = due \ {t}
    /\ inflight' = inflight \cup {t}
    /\ queue' = Append(queue, t)
    /\ UNCHANGED <<tables, threadVars, loop, since>>

\* _claim succeeds, and the check is queued.
Submit(t) ==
    /\ loop = "claim" /\ t \in due
    /\ t \notin inflight
    /\ due' = due \ {t}
    /\ inflight' = inflight \cup {t}
    /\ queue' = Append(queue, t)
    /\ UNCHANGED <<tables, threadVars, loop, since>>

\* _claim fails: the target is queued or being checked.
Skip(t) ==
    /\ loop = "claim" /\ t \in due
    /\ t \in inflight
    /\ due' = due \ {t}
    /\ UNCHANGED <<tables, threadVars, inflight, queue, loop, since>>

ClaimsDone ==
    /\ loop = "claim" /\ due = {}
    /\ loop' = "house"
    /\ UNCHANGED <<tables, threadVars, inflight, queue, due, since>>

\* Mutant: last_prune is set to the time of the next pruning.
HousekeepAhead ==
    /\ loop = "house" /\ since = PruneEvery
    /\ since' = 0 - PruneEvery
    /\ queue' = Append(queue, UpdateJob)
    /\ loop' = "wait"
    /\ UNCHANGED <<tables, threadVars, inflight, due>>

\* Mutant: history is pruned and no update check is queued.
HousekeepPruneOnly ==
    /\ loop = "house" /\ since = PruneEvery
    /\ since' = 0
    /\ loop' = "wait"
    /\ UNCHANGED <<tables, threadVars, inflight, due, queue>>

\* Housekeeping: history is pruned, and an update check is queued.
Housekeep ==
    /\ loop = "house" /\ since = PruneEvery
    /\ since' = 0
    /\ queue' = Append(queue, UpdateJob)
    /\ loop' = "wait"
    /\ UNCHANGED <<tables, threadVars, inflight, due>>

NoHousekeeping ==
    /\ loop = "house" /\ since < PruneEvery
    /\ loop' = "wait"
    /\ UNCHANGED <<tables, threadVars, inflight, queue, due, since>>

\* _stop_event is never set: the wait ends after TICK_SECONDS.
Wake ==
    /\ loop = "wait"
    /\ loop' = "list"
    /\ UNCHANGED <<tables, threadVars, inflight, queue, due, since>>

LoopStep ==
    \/ Begin
    \/ List
    \/ \E t \in Targets : Submit(t) \/ Skip(t)
    \/ ClaimsDone
    \/ Housekeep
    \/ NoHousekeeping
    \/ Wake

\* The query of the loop raises, or the pruning: the rest of the block is
\* skipped and the loop goes on.
LoopFails ==
    /\ \/ loop = "list" /\ loop' = "house" /\ UNCHANGED since
       \/ loop = "house" /\ since = PruneEvery /\ loop' = "wait" /\ since' = 0
    /\ UNCHANGED <<tables, threadVars, inflight, queue, due>>

-----------------------------------------------------------------------------
(* Threads. *)

Goto(c, label) == pc' = [pc EXCEPT ![c] = label]

\* An idle thread of the pool takes the first job.
Take(w) ==
    /\ pc[w] = "idle" /\ queue # <<>>
    /\ job' = [job EXCEPT ![w] = Head(queue)]
    /\ queue' = Tail(queue)
    /\ Goto(w, IF Head(queue) = UpdateJob THEN "update" ELSE "start")
    /\ UNCHANGED <<tables, loopVars, inflight>>

\* maybe_check ends, whatever it found.
UpdateDone(w) ==
    /\ pc[w] = "update"
    /\ job' = [job EXCEPT ![w] = Null]
    /\ Goto(w, "idle")
    /\ UNCHANGED <<tables, loopVars, inflight, queue>>

\* check_now; when the claim fails it returns at once.
CheckNow(r, t) ==
    /\ pc[r] = "idle" /\ tgt[t] # Null
    /\ t \notin inflight
    /\ inflight' = inflight \cup {t}
    /\ job' = [job EXCEPT ![r] = t]
    /\ Goto(r, "start")
    /\ UNCHANGED <<tables, loopVars, queue>>

\* get_target finds nothing, or run_check runs to its end.
Start(c) ==
    /\ pc[c] = "start"
    /\ Goto(c, IF tgt[job[c]] = Null THEN "release" ELSE "apply")
    /\ UNCHANGED <<tables, loopVars, inflight, queue, job>>

\* _apply_result stores last_checked_at.  Without the target it stores nothing.
Apply(c) ==
    /\ pc[c] = "apply"
    /\ age' = IF tgt[job[c]] = Null THEN age ELSE [age EXCEPT ![job[c]] = 0]
    /\ Goto(c, "release")
    /\ UNCHANGED <<tgt, born, loopVars, inflight, queue, job>>

\* A statement of the check raises, and last_checked_at stays as it was.
CheckFails(c) ==
    /\ pc[c] \in {"start", "apply"}
    /\ Goto(c, "release")
    /\ UNCHANGED <<tables, loopVars, inflight, queue, job>>

\* Mutant: no finally, the claim stays.
ReleaseNever(c) ==
    /\ pc[c] = "release"
    /\ job' = [job EXCEPT ![c] = Null]
    /\ Goto(c, "idle")
    /\ UNCHANGED <<tables, loopVars, inflight, queue>>

\* The "finally" of _worker and check_now.
Release(c) ==
    /\ pc[c] = "release"
    /\ inflight' = inflight \ {job[c]}
    /\ job' = [job EXCEPT ![c] = Null]
    /\ Goto(c, "idle")
    /\ UNCHANGED <<tables, loopVars, queue>>

CheckStep(c) == Start(c) \/ Apply(c) \/ Release(c)

WorkerStep(w) == Take(w) \/ UpdateDone(w) \/ CheckStep(w)

-----------------------------------------------------------------------------
(* Operators, time and crashes. *)

\* create_target: a new id, never checked.
Create(t, new) ==
    /\ t \notin born
    /\ born' = born \cup {t}
    /\ tgt' = [tgt EXCEPT ![t] = new]
    /\ UNCHANGED <<age, loopVars, threadVars, inflight, queue>>

\* update_target and set_target_enabled leave last_checked_at alone.
Edit(t, new) ==
    /\ tgt[t] # Null
    /\ tgt' = [tgt EXCEPT ![t] = new]
    /\ UNCHANGED <<age, born, loopVars, threadVars, inflight, queue>>

\* delete_target cascades to the state row.
Delete(t) ==
    /\ tgt[t] # Null
    /\ tgt' = [tgt EXCEPT ![t] = Null]
    /\ age' = [age EXCEPT ![t] = Null]
    /\ UNCHANGED <<born, loopVars, threadVars, inflight, queue>>

AdminStep ==
    \E t \in Targets : \/ \E new \in Target : Create(t, new) \/ Edit(t, new)
                       \/ Delete(t)

Older(a, limit) == IF a < limit THEN a + 1 ELSE limit

\* Bound: the pool is through with an update check, which gives up after 20 s,
\* when the next one is due an hour later.
UpdatePending ==
    \/ \E i \in DOMAIN queue : queue[i] = UpdateJob
    \/ \E w \in Workers : job[w] = UpdateJob

Tick ==
    /\ age' = [t \in Targets |-> IF age[t] = Null THEN Null ELSE Older(age[t], MaxAge)]
    /\ since' = IF UpdatePending THEN since ELSE Older(since, PruneEvery)
    /\ UNCHANGED <<tgt, born, loop, due, threadVars, inflight, queue>>

\* The process dies and is restarted; start() begins a new loop.
Crash ==
    /\ inflight' = {}
    /\ loop' = "start"
    /\ due' = {}
    /\ queue' = <<>>
    /\ pc' = [c \in Threads |-> "idle"]
    /\ job' = [c \in Threads |-> Null]
    /\ since' = PruneEvery
    /\ UNCHANGED tables

Step ==
    \/ LoopStep
    \/ \E w \in Workers : WorkerStep(w)
    \/ \E r \in Requesters : CheckStep(r) \/ \E t \in Targets : CheckNow(r, t)
    \/ AdminStep
    \/ Tick

Fault ==
    \/ BeginFails
    \/ LoopFails
    \/ \E c \in Threads : CheckFails(c)
    \/ Crash

Next ==
    \/ Step /\ UNCHANGED faults
    \/ Fault /\ faults < MaxFaults /\ faults' = faults + 1

\* The loop thread is scheduled and waits for nothing but its statements, each
\* of which has a timeout; and time passes.
LoopFairness ==
    /\ WF_vars(LoopStep /\ UNCHANGED faults)
    /\ WF_vars(Tick /\ UNCHANGED faults)

\* The threads that check are scheduled, and every probe has a timeout.
PoolFairness ==
    /\ \A w \in Workers : WF_vars(WorkerStep(w) /\ UNCHANGED faults)
    /\ \A r \in Requesters : WF_vars(CheckStep(r) /\ UNCHANGED faults)

Spec == Init /\ [][Next]_vars /\ LoopFairness

-----------------------------------------------------------------------------
(* Properties. *)

\* _inflight is exact.  A claimed target is in the queue or held by a thread,
\* in one place only, and a target that is in neither is not claimed: the
\* stale list of the loop never makes it submit a check that is still to run,
\* and no claim outlives its check.
ClaimsExact ==
    /\ \A i, j \in DOMAIN queue : queue[i] = queue[j] /\ i # j => queue[i] = UpdateJob
    /\ \A c, d \in Threads : job[c] = job[d] /\ c # d => job[c] \in {UpdateJob, Null}
    /\ \A i \in DOMAIN queue, c \in Threads : queue[i] = job[c] => job[c] = UpdateJob
    /\ \A t \in Targets :
          t \in inflight <=> \/ \E i \in DOMAIN queue : queue[i] = t
                             \/ \E c \in Threads : job[c] = t

\* Sending, probing or an exhausted pool never holds the loop up: it looks at
\* the targets again and again even if no check ever ends, unless its first
\* statement failed.
LoopNeverBlocks == []<>(loop = "list") \/ <>[](loop = "dead")

\* While checks end, every target that is due is checked, or stops being due
\* because an operator pauses, edits or deletes it: a busy pool, crashes and
\* failing statements only delay it.
DueIsChecked ==
    PoolFairness => \A t \in Targets : Due(t) ~> ~Due(t) \/ loop = "dead"

\* When housekeeping is due, a thread of the pool comes to ask for updates,
\* however many checks are queued before it.  After a pruning that failed, which
\* takes the update check with it, that is an hour later.
UpdatesAskedFor ==
    PoolFairness =>
        (since = PruneEvery ~> loop = "dead" \/ \E w \in Workers : pc[w] = "update")

=============================================================================
