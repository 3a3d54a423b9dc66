------------------------------- MODULE History -------------------------------
(***************************************************************************)
(* The table check_history (app/models.py): checks append to it, the       *)
(* hourly housekeeping prunes it, a deleted target takes its rows along,   *)
(* and the pages average over the part of it inside a window.  Everybody   *)
(* computes a moment first and uses it in a statement later.               *)
(* The unit of time is the second of the stored stamps.  A row stands for  *)
(* its result as well; the percentage is that of the rows counted.         *)
(***************************************************************************)
EXTENDS Integers, FiniteSets

CONSTANTS Null,
          Targets,     \* target ids
          Pages,       \* requests that ask for an uptime
          Windows,     \* the uptimes they ask for: 24 hours, 7 days
          Retentions,  \* values of history_retention_days
          Day,         \* 24 hours
          MaxTime,     \* bound of the clock
          MaxRows      \* bound on rows ever recorded

Row == [id : 1..MaxRows, target : Targets, at : Nat]
Prune == [days : Retentions, cutoff : Int, begun : Nat]
Page == [target : Targets, hours : Windows, since : Int, asked : Nat]

\* Times, windows and retentions are counts of one unit.
ASSUME HistoryAssumption ==
    /\ Windows \subseteq Nat /\ Retentions \subseteq Int /\ Day \in Nat
    /\ MaxTime \in Nat /\ MaxRows \in Nat
    /\ Null \notin Nat \cup Prune \cup Page

VARIABLES
    now,       \* the clock
    live,      \* the targets that exist
    history,   \* the rows of check_history
    log,       \* history: every row ever recorded
    pruned,    \* history: the prunes that rows were deleted by
    checked,   \* the stamp of the check of each target, or Null
    prune,     \* the retention and cutoff of a prune under way, or Null
    page       \* the target, window and cutoff of each page, or Null; of both
               \* also the moment they began, for the properties

vars == <<now, live, history, log, pruned, checked, prune, page>>

Init ==
    /\ now = 0
    /\ live = Targets
    /\ history = {} /\ log = {} /\ pruned = {}
    /\ checked = [t \in Targets |-> Null]
    /\ prune = Null
    /\ page = [q \in Pages |-> Null]

Tick ==
    /\ now < MaxTime
    /\ now' = now + 1
    /\ UNCHANGED <<live, history, log, pruned, checked, prune, page>>

-----------------------------------------------------------------------------
(* A check: the stamp is taken before the state row is read, the row of the *)
(* history is inserted after it.                                            *)

ApplyResult(t) ==
    /\ t \in live /\ checked[t] = Null
    /\ checked' = [checked EXCEPT ![t] = now]
    /\ UNCHANGED <<now, live, history, log, pruned, prune, page>>

\* The foreign key refuses the row of a target that is gone.
RecordCheck(t) ==
    LET row == [id |-> Cardinality(log) + 1, target |-> t, at |-> checked[t]]
        new == IF t \in live THEN {row} ELSE {}
    IN /\ checked[t] # Null
       /\ Cardinality(log) < MaxRows
       /\ history' = history \cup new
       /\ log' = log \cup new
       /\ checked' = [checked EXCEPT ![t] = Null]
       /\ UNCHANGED <<now, live, pruned, prune, page>>

DeleteTarget(t) ==
    /\ t \in live
    /\ live' = live \ {t}
    /\ history' = {row \in history : row.target # t}
    /\ UNCHANGED <<now, log, pruned, checked, prune, page>>

-----------------------------------------------------------------------------
(* Pruning. *)

\* since_iso of the retention.
Cutoff(days) == now - days * Day

\* A retention that is not positive keeps everything.
BeginPrune ==
    /\ prune = Null
    /\ \E days \in Retentions :
         /\ days > 0
         /\ prune' = [days |-> days, cutoff |-> Cutoff(days), begun |-> now]
    /\ UNCHANGED <<now, live, history, log, pruned, checked, page>>

\* Mutant: the row on the cutoff goes too.
ExpiredOrOnCutoff(row) == row.at <= prune.cutoff

Expired(row) == row.at < prune.cutoff

EndPrune ==
    /\ prune # Null
    /\ history' = {row \in history : ~Expired(row)}
    /\ pruned' = pruned \cup {prune}
    /\ prune' = Null
    /\ UNCHANGED <<now, live, log, checked, page>>

-----------------------------------------------------------------------------
(* Uptimes. *)

Since(q) ==
    /\ page[q] = Null
    /\ \E t \in live, hours \in Windows :
         page' = [page EXCEPT ![q] =
                     [target |-> t, hours |-> hours, since |-> now - hours, asked |-> now]]
    /\ UNCHANGED <<now, live, history, log, pruned, checked, prune>>

\* The rows that uptime_percent counts when its query runs.
Counted(p) == {row \in history : row.target = p.target /\ row.at >= p.since}

UptimePercent(q) ==
    /\ page[q] # Null
    /\ page' = [page EXCEPT ![q] = Null]
    /\ UNCHANGED <<now, live, history, log, pruned, checked, prune>>

Next ==
    \/ Tick \/ BeginPrune \/ EndPrune
    \/ \E t \in Targets : ApplyResult(t) \/ RecordCheck(t) \/ DeleteTarget(t)
    \/ \E q \in Pages : Since(q) \/ UptimePercent(q)

Spec == Init /\ [][Next]_vars

-----------------------------------------------------------------------------
(* Properties. *)

\* The recorded rows and the stamps, cutoffs and windows in use are of their
\* kinds, and the table holds only rows that were recorded for a live target.
RowsOK ==
    /\ now \in 0..MaxTime
    /\ live \subseteq Targets /\ pruned \subseteq Prune
    /\ log \subseteq Row /\ history \subseteq log
    /\ \A row \in history : row.target \in live
    /\ checked \in [Targets -> Nat \cup {Null}]
    /\ prune \in Prune \cup {Null}
    /\ page \in [Pages -> Page \cup {Null}]

\* A prune that leaves the window of a page alone: its retention is as long as
\* the window, and longer by the time for which the page had already waited when
\* the prune began.
Spares(r, p) == p.hours + (r.begun - p.asked) <= r.days * Day

\* An uptime misses no check of the window that its page asked for, edge
\* included, as long as every prune spares that window.  So with the retention
\* just as long as the window (7 days, and the uptime of 7 days) only a prune
\* that begins between the page's cutoff and its query takes rows off the edge,
\* and with a longer one no prune does while the request takes less time than
\* the difference.
UptimeIsWhole ==
    \A q \in Pages : page[q] # Null =>
        LET p == page[q]
        IN p.target \in live /\ (\A r \in pruned : Spares(r, p)) =>
             {row \in log : row.target = p.target /\ row.at >= p.asked - p.hours} \subseteq Counted(p)

=============================================================================
