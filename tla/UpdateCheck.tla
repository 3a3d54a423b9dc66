----------------------------- MODULE UpdateCheck -----------------------------
(***************************************************************************)
(* The update check: maybe_check and check of app/updates.py, driven by    *)
(* the hourly housekeeping of the monitor loop and by the button that      *)
(* forces a check.  The cached result is four rows of table settings that  *)
(* set_many writes one after the other.                                    *)
(*                                                                         *)
(* Ages are counted in a unit that divides the three intervals.  A check   *)
(* takes seconds, so time passes between checks only.  A restart may come  *)
(* between any two statements, and a statement outside the try of check    *)
(* may raise: the housekeeping of that hour is then lost and the next one  *)
(* comes an hour later, where a restart makes up for it at once.  Versions *)
(* are compared as the tuples are.                                         *)
(***************************************************************************)
EXTENDS Integers

CONSTANTS Null,        \* a setting that was never written
          Monitor,     \* the pool thread that runs maybe_check
          Requesters,  \* request threads that force a check
          Tags,        \* release tags the remote may have
          Current,     \* VERSION, the version that runs
          Retry,       \* RETRY_AFTER_MINUTES
          Interval,    \* CHECK_INTERVAL_HOURS
          PruneEvery,  \* PRUNE_EVERY_SECONDS
          CanRestart,  \* the process may be restarted, at any point
          MaxSkipped   \* bound of the time that lost housekeepings cost in a row

NoTag == 0

\* A failed check retries sooner than the happy path.
ASSUME UpdateCheckAssumption ==
    /\ Retry \in Nat /\ Interval \in Nat /\ PruneEvery \in Nat /\ MaxSkipped \in Nat
    /\ Retry <= Interval
    /\ Tags \subseteq Nat \ {NoTag} /\ Current \in Nat
    /\ Null \notin Nat
    /\ Monitor \notin Requesters
    /\ CanRestart \in BOOLEAN

VARIABLES
    at,      \* update_last_checked_at, as an age
    status,  \* update_last_status
    reason,  \* update_last_error holds a text
    latest,  \* update_latest_version
    since,   \* the age of last_prune in the monitor loop
    on,      \* update_check_enabled: the age of the switch, or Null when off
    pc,      \* where each thread is
    loc,     \* its locals: the age it read, and what git answered
    told,    \* history: what the remote told the last checks that overlap
    cut,     \* history: the last set_many was cut off, by a restart or a raise
    skipped  \* history: what the housekeepings lost since one got through cost

cache == <<at, status, reason, latest>>
ghosts == <<told, cut, skipped>>
vars == <<cache, since, on, pc, loc, ghosts>>

Threads == Requesters \cup {Monitor}

\* Ages are counted up to here.
Limit == Interval + PruneEvery + MaxSkipped

\* The age of the switch is counted up to here.
LongOn == PruneEvery + MaxSkipped

\* answer is Null for a check that failed.
Locals == [seen : 0..Limit \cup {Null}, answer : Tags \cup {NoTag, Null}]

Labels == {"idle", "maybe", "readAt", "readStatus", "check", "ask", "at", "status",
           "reason", "latest"}

TypeOK ==
    /\ at \in 0..Limit \cup {Null}
    /\ status \in {"", "ok", "failed"}
    /\ reason \in BOOLEAN
    /\ latest \in Tags \cup {NoTag}
    /\ since \in 0..PruneEvery
    /\ on \in 0..LongOn \cup {Null}
    /\ pc \in [Threads -> Labels]
    /\ loc \in [Threads -> Locals]
    /\ told \subseteq {"failed", "newer", "current"}
    /\ cut \in BOOLEAN
    /\ skipped \in 0..MaxSkipped

NoLocals == [seen |-> Null, answer |-> Null]

Init ==
    /\ at = Null
    /\ status = ""
    /\ reason = FALSE
    /\ latest = NoTag
    /\ since = PruneEvery
    /\ on = PruneEvery
    /\ pc = [c \in Threads |-> "idle"]
    /\ loc = [c \in Threads |-> NoLocals]
    /\ told = {}
    /\ cut = FALSE
    /\ skipped = 0

Goto(c, label) == pc' = [pc EXCEPT ![c] = label]

-----------------------------------------------------------------------------
(* maybe_check. *)

\* The housekeeping of this hour gets through, or is lost.
GotThrough == skipped' = 0
GotLost == skipped + PruneEvery <= MaxSkipped /\ skipped' = skipped + PruneEvery

\* The loop prunes and submits maybe_check once an hour, and when the process
\* starts.
Housekeep ==
    /\ since = PruneEvery
    /\ pc[Monitor] = "idle"
    /\ since' = 0
    /\ Goto(Monitor, "maybe")
    /\ UNCHANGED <<cache, on, loc, ghosts>>

\* last_prune is set before prune_history: when that raises, maybe_check is not
\* submitted, and not before another hour.
HousekeepFails ==
    /\ since = PruneEvery
    /\ pc[Monitor] = "idle"
    /\ since' = 0
    /\ GotLost
    /\ UNCHANGED <<cache, on, pc, loc, told, cut>>

MaybeCheck ==
    /\ pc[Monitor] = "maybe"
    /\ \/ on = Null /\ Goto(Monitor, "idle") /\ GotThrough
       \/ on # Null /\ Goto(Monitor, "readAt") /\ UNCHANGED skipped
    /\ UNCHANGED <<cache, since, on, loc, told, cut>>

ReadAt ==
    /\ pc[Monitor] = "readAt"
    /\ loc' = [loc EXCEPT ![Monitor].seen = at]
    /\ Goto(Monitor, "readStatus")
    /\ UNCHANGED <<cache, since, on, ghosts>>

\* Mutant: a failed check waits as long as a good one.
StaleWithoutRetry(seen, s) == seen = Null \/ seen >= Interval

\* The cached result is old enough to ask again.
Stale(seen, s) ==
    \/ seen = Null
    \/ s = "failed" /\ seen >= Retry
    \/ s # "failed" /\ seen >= Interval

ReadStatus ==
    /\ pc[Monitor] = "readStatus"
    /\ IF Stale(loc[Monitor].seen, status)
       THEN Goto(Monitor, "check") /\ UNCHANGED skipped
       ELSE Goto(Monitor, "idle") /\ GotThrough
    /\ loc' = [loc EXCEPT ![Monitor] = NoLocals]
    /\ UNCHANGED <<cache, since, on, told, cut>>

-----------------------------------------------------------------------------
(* check. *)

\* api_update_check calls check, unless checking is off.
ForceCheck(r) ==
    /\ pc[r] = "idle" /\ on # Null
    /\ Goto(r, "check")
    /\ UNCHANGED <<cache, since, on, loc, ghosts>>

\* check looks at the switch itself.
Check(c) ==
    /\ pc[c] = "check"
    /\ Goto(c, IF on = Null THEN "idle" ELSE "ask")
    /\ IF c = Monitor /\ on = Null THEN GotThrough ELSE UNCHANGED skipped
    /\ UNCHANGED <<cache, since, on, loc, told, cut>>

Writing(c) == pc[c] \in {"at", "status", "reason", "latest"}

\* What a remote with these tags tells a program of this version.
Tells(tags) == IF \E tag \in tags : tag > Current THEN "newer" ELSE "current"

\* git answers or not; told begins anew with a check that no other overlaps.
Answered(c, answer, tells) ==
    /\ pc[c] = "ask"
    /\ loc' = [loc EXCEPT ![c].answer = answer]
    /\ Goto(c, "at")
    /\ told' = {tells} \cup (IF \E d \in Threads : Writing(d) THEN told ELSE {})
    /\ cut' = (cut /\ \E d \in Threads : Writing(d))
    /\ UNCHANGED <<cache, since, on, skipped>>

\* Mutant: the first tag in the list, which git sorts by name.
IsFirst(tags, tag) ==
    IF tags = {} THEN tag = NoTag ELSE tag \in tags /\ \A other \in tags : tag <= other

\* The newest of the tags that git ls-remote lists.
IsNewest(tags, tag) ==
    IF tags = {} THEN tag = NoTag ELSE tag \in tags /\ \A other \in tags : tag >= other

Ask(c) ==
    \E tags \in SUBSET Tags, tag \in Tags \cup {NoTag} :
        IsNewest(tags, tag) /\ Answered(c, tag, Tells(tags))

\* No repository, no network, no answer in time.
AskFails(c) == Answered(c, Null, "failed")

\* set_many, statement by statement.
WriteAt(c) ==
    /\ pc[c] = "at"
    /\ at' = 0
    /\ Goto(c, "status")
    /\ IF c = Monitor THEN GotThrough ELSE UNCHANGED skipped
    /\ UNCHANGED <<status, reason, latest, since, on, loc, told, cut>>

\* Mutant: a failure is stored under a name that no reader knows.
WriteStatusError(c) ==
    /\ pc[c] = "status"
    /\ status' = IF loc[c].answer = Null THEN "error" ELSE "ok"
    /\ Goto(c, "reason")
    /\ UNCHANGED <<at, reason, latest, since, on, loc, ghosts>>

WriteStatus(c) ==
    /\ pc[c] = "status"
    /\ status' = IF loc[c].answer = Null THEN "failed" ELSE "ok"
    /\ Goto(c, "reason")
    /\ UNCHANGED <<at, reason, latest, since, on, loc, ghosts>>

\* The reason of a failure, or the empty text.
WriteReason(c) ==
    /\ pc[c] = "reason"
    /\ reason' = (loc[c].answer = Null)
    /\ Goto(c, IF loc[c].answer = Null THEN "idle" ELSE "latest")
    /\ loc' = IF loc[c].answer = Null THEN [loc EXCEPT ![c] = NoLocals] ELSE loc
    /\ UNCHANGED <<at, status, latest, since, on, ghosts>>

\* A failed check keeps the version it knew.
WriteLatest(c) ==
    /\ pc[c] = "latest"
    /\ latest' = loc[c].answer
    /\ Goto(c, "idle")
    /\ loc' = [loc EXCEPT ![c] = NoLocals]
    /\ UNCHANGED <<at, status, reason, since, on, ghosts>>

\* The thread of the loop has not yet decided or not yet written.
Busy == pc[Monitor] \in {"maybe", "readAt", "readStatus", "check", "ask", "at"}

\* A statement raises and the check ends there, half written: the pool swallows
\* it, the page answers 500.  What check does inside its try makes a failed
\* check instead (AskFails).
Raises(c) ==
    /\ pc[c] \notin {"idle", "ask"}
    /\ Goto(c, "idle")
    /\ loc' = [loc EXCEPT ![c] = NoLocals]
    /\ cut' = (cut \/ Writing(c))
    /\ IF c = Monitor /\ Busy THEN GotLost ELSE UNCHANGED skipped
    /\ UNCHANGED <<cache, since, on, told>>

CheckStep(c) ==
    \/ Check(c)
    \/ Ask(c)
    \/ AskFails(c)
    \/ WriteAt(c)
    \/ WriteStatus(c)
    \/ WriteReason(c)
    \/ WriteLatest(c)
    \/ Raises(c)

-----------------------------------------------------------------------------

Older(a, limit) == IF a < limit THEN a + 1 ELSE limit

AllIdle == \A c \in Threads : pc[c] = "idle"

\* Time passes while nothing is being checked and nothing is due.
Tick ==
    /\ AllIdle /\ since < PruneEvery
    /\ since' = since + 1
    /\ at' = IF at = Null THEN Null ELSE Older(at, Limit)
    /\ on' = IF on = Null THEN Null ELSE Older(on, LongOn)
    /\ UNCHANGED <<status, reason, latest, pc, loc, ghosts>>

\* The settings form switches update checking on or off.
SetEnabled ==
    /\ on' = IF on = Null THEN 0 ELSE Null
    /\ UNCHANGED <<cache, since, pc, loc, ghosts>>

\* The process is restarted: last_prune starts again at 0.0, so that the next
\* housekeeping is due at once.
Restart ==
    /\ CanRestart
    /\ pc' = [c \in Threads |-> "idle"]
    /\ loc' = [c \in Threads |-> NoLocals]
    /\ since' = PruneEvery
    /\ cut' = (cut \/ \E c \in Threads : Writing(c))
    /\ UNCHANGED <<cache, on, told, skipped>>

Next ==
    \/ Housekeep
    \/ HousekeepFails
    \/ MaybeCheck
    \/ ReadAt
    \/ ReadStatus
    \/ \E r \in Requesters : ForceCheck(r)
    \/ \E c \in Threads : CheckStep(c)
    \/ Tick
    \/ SetEnabled
    \/ Restart

Spec == Init /\ [][Next]_vars

-----------------------------------------------------------------------------
(* Properties. *)

\* At rest: no check is running and none is due.
AtRest == AllIdle /\ since < PruneEvery

\* The cached result never gets older than the loop can make it, whatever
\* forced checks run in between: a failed one is renewed at the next
\* housekeeping but for the shortest wait, a good one within an hour of its
\* six.  A restart in the middle does not change that; a pruning that fails or
\* a statement of the check that raises costs one hour each, and no more.  After
\* checking is switched on it takes one housekeeping until that is so.
CacheIsFresh ==
    AtRest /\ on # Null /\ on > since + skipped =>
        /\ at # Null
        /\ at < Interval + PruneEvery + skipped
        /\ status = "failed" => at < Retry + PruneEvery + skipped

\* The text that updates.status makes of the rows.
Footer ==
    IF on = Null THEN "off"
    ELSE IF status # "ok" THEN "failed"
    ELSE IF latest > Current THEN "newer"
    ELSE "current"

\* When checks have overlapped, the footer says what the remote told one of
\* them, and when only one ran, what it told that one: rows of two checks never
\* add up to a third answer.  (A restart or a raise in the middle of set_many
\* may leave "ok" of an earlier check beside a new time, or beside an earlier
\* version, and the footer says so for hours: cut.)
FooterTellsTheAnswer ==
    AtRest /\ on # Null /\ at # Null /\ ~cut => Footer \in told

=============================================================================
