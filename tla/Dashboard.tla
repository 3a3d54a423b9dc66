------------------------------ MODULE Dashboard ------------------------------
(***************************************************************************)
(* The open dashboard: polls of /api/status every 15 s and "Check now"     *)
(* requests (app/views.py), whose answers the page puts into its rows and  *)
(* its header in the order they arrive (static/js/app.js).  Meanwhile      *)
(* checks and operators change the tables; how they do is the business of  *)
(* Alerting, and here a status may become anything at any time.  Uptimes   *)
(* are in History.                                                         *)
(***************************************************************************)
EXTENDS Integers, FiniteSets

CONSTANTS Null,      \* no row
          Targets,   \* target ids
          Requests,  \* requests of the page that may be under way at once
          MaxLost    \* bound: requests that fail on the network

Statuses == {"up", "down", "unknown"}

\* What list_targets tells of a target.
Target == [enabled : BOOLEAN, status : Statuses]

VARIABLES
    tgt,      \* the tables: each target, or Null
    gone,     \* the targets that were deleted: no id is used twice
    req,      \* each request: its kind, where it is, and what it has read; history:
              \* the targets that moved between its rows and its counts
    shown,    \* the status pill of each row of the page, Null without a row
    header,   \* the counts in the header
    lost      \* requests that failed

vars == <<tgt, gone, req, shown, header, lost>>

\* The status in _target_payload; Null for a target that is not listed.
Payload(r) == IF r = Null THEN Null ELSE IF r.enabled THEN r.status ELSE "unknown"

\* Mutant: list_targets(enabled_only=True).
ListedEnabled == [t \in Targets |-> IF tgt[t] # Null /\ ~tgt[t].enabled THEN Null
                                    ELSE Payload(tgt[t])]

\* The rows of api_status, by list_targets.
Listed == [t \in Targets |-> Payload(tgt[t])]

\* status_counts looks at the state row alone, paused or not.
StatusCounts ==
    [s \in Statuses |-> Cardinality({t \in Targets : tgt[t] # Null /\ tgt[t].status = s})]

NoRows == [t \in Targets |-> Null]
NoCounts == [s \in Statuses |-> 0]
Idle == [kind |-> "none", at |-> "idle", target |-> Null,
         rows |-> NoRows, paused |-> {}, counts |-> NoCounts, moved |-> {}]

\* dashboard() renders the page.
Init ==
    /\ tgt \in [Targets -> Target \cup {Null}]
    /\ gone \in SUBSET {t \in Targets : tgt[t] = Null}
    /\ req = [q \in Requests |-> Idle]
    /\ shown = Listed
    /\ header = StatusCounts
    /\ lost = 0

-----------------------------------------------------------------------------
(* The tables. *)

\* A request that has its rows and not yet its counts misses the change.
Change(t, r) ==
    /\ tgt' = [tgt EXCEPT ![t] = r]
    /\ req' = [q \in Requests |->
                 IF req[q].at = "counts" THEN [req[q] EXCEPT !.moved = @ \cup {t}] ELSE req[q]]
    /\ UNCHANGED <<shown, header, lost>>

\* A check or a pause writes the status.
WriteStatus(t, s) ==
    /\ tgt[t] # Null /\ tgt[t].status # s
    /\ Change(t, [tgt[t] EXCEPT !.status = s])
    /\ UNCHANGED gone

\* target_toggle or target_edit writes the flag.
SetEnabled(t) ==
    /\ tgt[t] # Null
    /\ Change(t, [tgt[t] EXCEPT !.enabled = ~@])
    /\ UNCHANGED gone

\* A target without its state row yet counts as unknown, like one with it.
CreateTarget(t) ==
    /\ tgt[t] = Null /\ t \notin gone
    /\ \E enabled \in BOOLEAN : Change(t, [enabled |-> enabled, status |-> "unknown"])
    /\ UNCHANGED gone

DeleteTarget(t) ==
    /\ tgt[t] # Null
    /\ Change(t, Null)
    /\ gone' = gone \cup {t}

TableStep ==
    \E t \in Targets : \/ \E s \in Statuses : WriteStatus(t, s)
                       \/ SetEnabled(t)
                       \/ CreateTarget(t) \/ DeleteTarget(t)

-----------------------------------------------------------------------------
(* Requests. *)

Begin(q, r) ==
    /\ req[q] = Idle
    /\ req' = [req EXCEPT ![q] = r]
    /\ UNCHANGED <<tgt, gone, shown, header, lost>>

Serve(q, from, r) ==
    /\ req[q].at = from
    /\ req' = [req EXCEPT ![q] = r]
    /\ UNCHANGED <<tgt, gone, shown, header, lost>>

\* The interval of startDashboardPoll, whether or not the last poll came back.
Poll(q) == Begin(q, [Idle EXCEPT !.kind = "poll", !.at = "list"])

\* api_status: one statement for the targets, and one for the counts.
\* Each row says whether its target is enabled.
List(q) ==
    Serve(q, "list", [req[q] EXCEPT !.at = "counts", !.rows = Listed,
                        !.paused = {t \in Targets : Listed[t] # Null /\ ~tgt[t].enabled}])

Count(q) == Serve(q, "counts", [req[q] EXCEPT !.at = "sent", !.counts = StatusCounts])

\* bindCheckNow: the button is disabled until its request is through.
CheckNow(q, t) ==
    /\ shown[t] # Null
    /\ \A p \in Requests : req[p].target # t
    /\ Begin(q, [Idle EXCEPT !.kind = "check", !.at = "check", !.target = t])

\* api_check_now: the target is gone (404), or its claim is taken (202).
NotChecked(q) == Serve(q, "check", [req[q] EXCEPT !.at = "sent"])

\* The check has run; the steps in which it writes are those of the tables.
Checked(q) == Serve(q, "check", [req[q] EXCEPT !.at = "payload"])

\* get_target once more; a target that was deleted meanwhile is an error 500.
ShowTarget(q) ==
    LET t == req[q].target
    IN Serve(q, "payload", [req[q] EXCEPT !.at = "sent", !.rows[t] = Payload(tgt[t])])

\* applyStatus and applyTarget: rows the page does not have are left out, and
\* rows the answer does not have stay.
Deliver(q) ==
    /\ req[q].at = "sent"
    /\ shown' = [t \in Targets |->
                   IF shown[t] = Null \/ req[q].rows[t] = Null THEN shown[t]
                   ELSE req[q].rows[t]]
    /\ header' = IF req[q].kind = "poll" THEN req[q].counts ELSE header
    /\ req' = [req EXCEPT ![q] = Idle]
    /\ UNCHANGED <<tgt, gone, lost>>

\* The network fails; the page ignores it.
Lose(q) ==
    /\ req[q].at # "idle" /\ lost < MaxLost
    /\ lost' = lost + 1
    /\ req' = [req EXCEPT ![q] = Idle]
    /\ UNCHANGED <<tgt, gone, shown, header>>

ServerStep(q) ==
    List(q) \/ Count(q) \/ NotChecked(q) \/ Checked(q) \/ ShowTarget(q) \/ Deliver(q)

Next ==
    \/ TableStep
    \/ \E q \in Requests : \/ Poll(q) \/ ServerStep(q) \/ Lose(q)
                           \/ \E t \in Targets : CheckNow(q, t)

\* The page polls for ever, whatever else it has under way: that a poll must
\* find one of Requests free is a bound of the model.  And the server answers:
\* every probe has a timeout.
Fairness ==
    /\ SF_vars(\E q \in Requests : Poll(q))
    /\ \A q \in Requests : WF_vars(ServerStep(q))

Spec == Init /\ [][Next]_vars /\ Fairness

-----------------------------------------------------------------------------
(* Properties. *)

\* The targets that an answer has as paused, or that moved between its two
\* statements.
Unsettled(a) == a.paused \cup a.moved

RowsThatSay(a, s) == {t \in Targets \ Unsettled(a) : a.rows[t] = s}

\* The rows and the counts of a poll are read at two moments, and the counts go
\* by the stored status of a paused target where its row says "unknown".  They
\* differ by no more than that: every row of another target is counted under the
\* status it shows, and every target that is counted besides is paused or moved
\* while the poll was served.
CountsFitRows ==
    \A q \in Requests, s \in Statuses :
        req[q].at = "sent" /\ req[q].kind = "poll" =>
            req[q].counts[s] - Cardinality(RowsThatSay(req[q], s))
                \in 0..Cardinality(Unsettled(req[q]))

\* When checks and operators leave the tables alone, the page comes to show
\* them and stays so, in whatever order the answers arrive: every row whose
\* target still exists, and the header.
PageSettles ==
    <>[][FALSE]_tgt =>
        <>[](/\ header = StatusCounts
             /\ \A t \in Targets : shown[t] # Null /\ tgt[t] # Null => shown[t] = Payload(tgt[t]))

=============================================================================
