--------------------------- MODULE DashboardProofs ---------------------------
(***************************************************************************)
(* What the dashboard shows, for any targets, requests, pages, windows and *)
(* retentions: an uptime is that of the whole window, and the rows and the *)
(* counts of an answer fit each other.                                     *)
(***************************************************************************)
EXTENDS MCDashboard, FiniteSetTheorems, TLAPS

-----------------------------------------------------------------------------
(* The history. *)

TypeInv == RowsOK /\ IsFiniteSet(log)

\* A row that was recorded is missing only with its target, or after a prune
\* that it was too old for when the prune began; cutoffs and windows are those
\* of the moment at which they were computed.
Kept ==
    /\ \A row \in log :
         \/ row.target \notin live
         \/ row \in history
         \/ \E r \in pruned : row.at < r.begun - r.days * Day
    /\ prune # Null => prune.cutoff = prune.begun - prune.days * Day
    /\ \A q \in Pages : page[q] # Null => page[q].since = page[q].asked - page[q].hours

\* Products of days are times.
LEMMA Hours == \A days \in Retentions : days * Day \in Int
<1> SUFFICES ASSUME NEW days \in Retentions PROVE days * Day \in Int
    OBVIOUS
<1>1. days \in Int /\ Day \in Int
  BY HistoryAssumption
<1> QED BY ONLY <1>1

\* Every step keeps the kinds of the rows, stamps, cutoffs and windows.
LEMMA TypeStep == TypeInv /\ [Next]_vars => TypeInv'
<1> SUFFICES ASSUME TypeInv, [Next]_vars PROVE TypeInv'
    OBVIOUS
<1> USE HistoryAssumption DEF TypeInv, RowsOK
<1>1. CASE Tick
  BY <1>1 DEF Tick
<1>2. CASE BeginPrune
  <2>1. PICK days \in Retentions :
          prune' = [days |-> days, cutoff |-> now - days * Day, begun |-> now]
    BY <1>2 DEF BeginPrune, Cutoff
  <2>2. now - days * Day \in Int
    BY Hours
  <2>3. prune' \in Prune
    BY <2>1, <2>2 DEF Prune
  <2> QED BY <1>2, <2>3 DEF BeginPrune
<1>3. CASE EndPrune
  BY <1>3 DEF EndPrune
<1>4. ASSUME NEW t \in Targets, ApplyResult(t) PROVE TypeInv'
  BY <1>4 DEF ApplyResult
<1>5. ASSUME NEW t \in Targets, RecordCheck(t) PROVE TypeInv'
  <2> DEFINE row == [id |-> Cardinality(log) + 1, target |-> t, at |-> checked[t]]
  <2>1. Cardinality(log) \in Nat
    BY FS_CardinalityType
  <2>2. row \in Row
    BY <1>5, <2>1 DEF RecordCheck, Row
  <2>3. ASSUME NEW r PROVE IsFiniteSet(log \cup {r})
    <3>1. IsFiniteSet(log)
      BY DEF TypeInv
    <3> QED BY ONLY <3>1, FS_AddElement
  <2>4. CASE t \in live
    <3>1. log' = log \cup {row} /\ history' = history \cup {row}
      BY <1>5, <2>4 DEF RecordCheck
    <3>2. checked' \in [Targets -> Nat \cup {Null}]
      BY <1>5 DEF RecordCheck
    <3> HIDE DEF row
    <3>3. \A r \in history' : r.target \in live
      BY <2>4, <3>1 DEF row
    <3>4. UNCHANGED <<now, live, pruned, prune, page>>
      BY <1>5 DEF RecordCheck
    <3> QED BY <2>2, <2>3, <3>1, <3>2, <3>3, <3>4
  <2>5. CASE t \notin live
    <3>1. log' = log /\ history' = history
      BY <1>5, <2>5 DEF RecordCheck
    <3> QED BY <1>5, <3>1 DEF RecordCheck
  <2> QED BY <2>4, <2>5
<1>6. ASSUME NEW t \in Targets, DeleteTarget(t) PROVE TypeInv'
  BY <1>6 DEF DeleteTarget
<1>7. ASSUME NEW q \in Pages, Since(q) PROVE TypeInv'
  <2>1. PICK t \in live, hours \in Windows :
          page' = [page EXCEPT ![q] = [target |-> t, hours |-> hours,
                                       since |-> now - hours, asked |-> now]]
    BY <1>7 DEF Since
  <2>2. t \in Targets /\ now - hours \in Int
    BY <2>1
  <2>3. [target |-> t, hours |-> hours, since |-> now - hours, asked |-> now] \in Page
    BY <2>1, <2>2 DEF Page
  <2> QED BY <1>7, <2>1, <2>3 DEF Since
<1>8. ASSUME NEW q \in Pages, UptimePercent(q) PROVE TypeInv'
  BY <1>8 DEF UptimePercent
<1>9. CASE UNCHANGED vars
  BY <1>9 DEF vars
<1> QED BY <1>1, <1>2, <1>3, <1>4, <1>5, <1>6, <1>7, <1>8, <1>9 DEF Next

\* Every step keeps the rows that a window may still ask for.
LEMMA KeptStep == TypeInv /\ Kept /\ [Next]_vars => Kept'
<1> SUFFICES ASSUME TypeInv, Kept, [Next]_vars PROVE Kept'
    OBVIOUS
<1> USE HistoryAssumption
<1>1. CASE Tick
  BY <1>1 DEF Tick, Kept
<1>2. CASE BeginPrune
  <2>1. PICK days \in Retentions :
          prune' = [days |-> days, cutoff |-> now - days * Day, begun |-> now]
    BY <1>2 DEF BeginPrune, Cutoff
  <2>2. prune'.cutoff = prune'.begun - prune'.days * Day
    BY <2>1
  <2> QED BY <1>2, <2>2 DEF BeginPrune, Kept
<1>3. CASE EndPrune
  <2>1. prune.cutoff = prune.begun - prune.days * Day /\ prune \in pruned'
    BY <1>3 DEF EndPrune, Kept
  <2>2. ASSUME NEW row \in log, row.target \in live, row \notin history'
        PROVE  \E r \in pruned' : row.at < r.begun - r.days * Day
    <3>1. CASE row \in history
      <4>1. row.at < prune.cutoff
        BY <1>3, <2>2, <3>1 DEF EndPrune, Expired
      <4> QED BY <2>1, <4>1
    <3>2. CASE row \notin history
      BY <1>3, <2>2, <3>2 DEF EndPrune, Kept
    <3> QED BY <3>1, <3>2
  <2> QED BY <1>3, <2>2 DEF EndPrune, Kept
<1>4. ASSUME NEW t \in Targets, ApplyResult(t) PROVE Kept'
  BY <1>4 DEF ApplyResult, Kept
<1>5. ASSUME NEW t \in Targets, RecordCheck(t) PROVE Kept'
  BY <1>5 DEF RecordCheck, Kept
<1>6. ASSUME NEW t \in Targets, DeleteTarget(t) PROVE Kept'
  BY <1>6 DEF DeleteTarget, Kept
<1>7. ASSUME NEW q \in Pages, Since(q) PROVE Kept'
  <2>1. PICK t \in live, hours \in Windows :
          page' = [page EXCEPT ![q] = [target |-> t, hours |-> hours,
                                       since |-> now - hours, asked |-> now]]
    BY <1>7 DEF Since
  <2>2. ASSUME NEW p \in Pages, page'[p] # Null
        PROVE  page'[p].since = page'[p].asked - page'[p].hours
    <3>1. CASE p = q
      BY <2>1, <3>1 DEF TypeInv, RowsOK
    <3>2. CASE p # q
      BY <2>1, <2>2, <3>2 DEF Kept, TypeInv, RowsOK
    <3> QED BY <3>1, <3>2
  <2> QED BY <1>7, <2>2 DEF Since, Kept
<1>8. ASSUME NEW q \in Pages, UptimePercent(q) PROVE Kept'
  BY <1>8 DEF UptimePercent, Kept, TypeInv, RowsOK
<1>9. CASE UNCHANGED vars
  BY <1>9 DEF vars, Kept
<1> QED BY <1>1, <1>2, <1>3, <1>4, <1>5, <1>6, <1>7, <1>8, <1>9 DEF Next

\* What is kept is enough for every window.
LEMMA Enough == TypeInv /\ Kept => UptimeIsWhole
<1> SUFFICES ASSUME TypeInv, Kept, NEW q \in Pages, page[q] # Null,
                    page[q].target \in live,
                    \A r \in pruned : Spares(r, page[q]),
                    NEW row \in log, row.target = page[q].target,
                    row.at >= page[q].asked - page[q].hours
             PROVE  row \in history /\ row.at >= page[q].since
    BY DEF UptimeIsWhole, Counted
<1>1. page[q] \in Page /\ row \in Row /\ pruned \subseteq Prune
  BY DEF TypeInv, RowsOK
<1>2. page[q].asked \in Nat /\ page[q].hours \in Nat /\ row.at \in Nat
  BY <1>1, HistoryAssumption DEF Page, Row
<1>3. row.at >= page[q].since
  BY DEF Kept
<1>4. ASSUME NEW r \in pruned PROVE ~(row.at < r.begun - r.days * Day)
  <2>1. r.begun \in Nat /\ r.days * Day \in Int
    BY ONLY <1>1, Hours DEF Prune
  <2>2. page[q].hours + (r.begun - page[q].asked) <= r.days * Day
    BY DEF Spares
  <2> DEFINE kept == r.days * Day
  <2> HIDE DEF kept
  <2>3. kept \in Int /\ page[q].hours + (r.begun - page[q].asked) <= kept
    BY <2>1, <2>2 DEF kept
  <2>4. ~(row.at < r.begun - kept)
    BY <1>2, <2>1, <2>3
  <2> QED BY <2>4 DEF kept
<1> QED BY <1>3, <1>4 DEF Kept

\* The table, the stamps and the pages stay well typed.
THEOREM Typing == Spec => []RowsOK
<1>1. Init => TypeInv
  BY HistoryAssumption, FS_EmptySet DEF Init, TypeInv, RowsOK
<1>2. TypeInv => RowsOK
  BY DEF TypeInv
<1> QED BY <1>1, <1>2, TypeStep, PTL DEF Spec

\* An uptime counts every check of the window its page asked for, edge
\* included, as long as every prune spares the window; Spares says how much
\* longer the retention must be when the prune begins after the page asked.
THEOREM Whole == Spec => []UptimeIsWhole
<1>1. Init => TypeInv /\ Kept
  BY HistoryAssumption, FS_EmptySet DEF Init, TypeInv, RowsOK, Kept
<1> QED BY <1>1, TypeStep, KeptStep, Enough, PTL DEF Spec

-----------------------------------------------------------------------------
(* The page. *)

\* The requests of the page.
Shown == D!Statuses \cup {Null}
Request == [kind : {"none", "poll", "check"},
            at : {"idle", "list", "counts", "check", "payload", "sent"},
            target : PageTargets \cup {Null},
            rows : [PageTargets -> Shown],
            paused : SUBSET PageTargets,
            counts : [D!Statuses -> Nat],
            moved : SUBSET PageTargets]

\* The tables and the requests are of their kinds.
PageTypeInv ==
    /\ tgt \in [PageTargets -> D!Target \cup {Null}]
    /\ req \in [Requests -> Request]

\* A row of an answer still says what the tables do.
Holds(a, t) ==
    /\ a.rows[t] = D!Payload(tgt[t])
    /\ tgt[t] # Null => tgt[t].enabled

Fits(a) ==
    \A s \in D!Statuses :
        a.counts[s] - Cardinality(D!RowsThatSay(a, s)) \in 0..Cardinality(D!Unsettled(a))

\* Until a poll counts, the rows of the targets that have not moved since hold;
\* once it has counted they fit.
ReadOK(a) ==
    /\ a.at \in {"check", "payload"} => a.kind = "check"
    /\ a.at = "counts" => \A t \in PageTargets \ D!Unsettled(a) : Holds(a, t)
    /\ a.at = "sent" /\ a.kind = "poll" => Fits(a)

ReadInv == \A q \in Requests : ReadOK(req[q])

\* A row is shown with a status, or not at all.
LEMMA PayloadTyped ==
    ASSUME NEW r \in D!Target \cup {Null}
    PROVE  D!Payload(r) \in Shown
BY DEF D!Payload, D!Target, D!Statuses, Shown

\* The page counts as this module does.
LEMMA SameCount == \A S : D!Cardinality(S) = Cardinality(S)
BY DEF D!Cardinality, Cardinality

\* status_counts counts some of the targets.
LEMMA CountsTyped == D!StatusCounts \in [D!Statuses -> Nat]
<1>1. ASSUME NEW s \in D!Statuses
      PROVE  Cardinality({t \in PageTargets : tgt[t] # Null /\ tgt[t].status = s}) \in Nat
  BY PageAssumption, FS_Subset, FS_CardinalityType
<1> QED BY <1>1, SameCount DEF D!StatusCounts

\* A request that is not under way shows nothing.
LEMMA IdleTyped == D!Idle \in Request /\ D!Idle.at = "idle"
<1>1. D!NoCounts \in [D!Statuses -> Nat]
  BY DEF D!NoCounts
<1>2. D!NoRows \in [PageTargets -> Shown]
  BY DEF D!NoRows, Shown
<1> QED BY <1>1, <1>2 DEF D!Idle, Request

LEMMA PageInit == D!Init => PageTypeInv /\ ReadInv
  BY IdleTyped DEF D!Init, PageTypeInv, ReadInv, ReadOK

\* Counting rows that hold makes an answer that fits: a target that is counted
\* under s and has no row that says so is one of the unsettled.
LEMMA Counting ==
    ASSUME PageTypeInv, NEW a \in Request,
           \A t \in PageTargets \ D!Unsettled(a) : Holds(a, t),
           a.counts = D!StatusCounts
    PROVE  Fits(a)
<1> SUFFICES ASSUME NEW s \in D!Statuses
             PROVE  a.counts[s] - Cardinality(D!RowsThatSay(a, s)) \in 0..Cardinality(D!Unsettled(a))
    BY DEF Fits
<1> DEFINE all == {t \in PageTargets : tgt[t] # Null /\ tgt[t].status = s}
           say == D!RowsThatSay(a, s)
           rest == D!Unsettled(a)
<1>1. a.counts[s] = Cardinality(all)
  BY SameCount DEF D!StatusCounts
<1>2. say \subseteq all
  <2>1. ASSUME NEW t \in say PROVE t \in all
    <3>1. t \in PageTargets /\ t \notin D!Unsettled(a) /\ a.rows[t] = s
      BY DEF D!RowsThatSay
    <3>2. Holds(a, t)
      BY <3>1
    <3>3. s # Null
      BY PageAssumption
    <3> QED BY <3>1, <3>2, <3>3 DEF Holds, D!Payload
  <2> QED BY <2>1
<1>3. all \ say \subseteq rest
  <2>1. ASSUME NEW t \in all, t \notin rest PROVE t \in say
    <3>1. Holds(a, t) /\ tgt[t] # Null /\ tgt[t].status = s
      BY <2>1
    <3> QED BY <2>1, <3>1 DEF Holds, D!Payload, D!RowsThatSay
  <2> QED BY <2>1
<1>4. IsFiniteSet(all) /\ IsFiniteSet(rest)
  <2>1. rest \subseteq PageTargets
    BY DEF Request, D!Unsettled
  <2> QED BY <2>1, PageAssumption, FS_Subset
<1> HIDE DEF all, say, rest
<1>5. IsFiniteSet(say) /\ IsFiniteSet(all \ say)
  BY <1>2, <1>4, FS_Subset
<1>6. all \cap say = say
  BY <1>2
<1>7. Cardinality(all \ say) = Cardinality(all) - Cardinality(say)
  BY <1>4, <1>6, FS_Difference
<1>8. Cardinality(all \ say) \in Nat /\ Cardinality(rest) \in Nat
  BY <1>4, <1>5, FS_CardinalityType
<1>9. Cardinality(all \ say) <= Cardinality(rest)
  BY <1>3, <1>4, FS_Subset
<1>10. Cardinality(all) - Cardinality(say) \in 0..Cardinality(rest)
  BY ONLY <1>7, <1>8, <1>9
<1> QED BY <1>1, <1>10 DEF say, rest

\* Rows and counts are read from the tables, and whatever changes a target in
\* between is noted.
LEMMA PageStep == PageTypeInv /\ ReadInv /\ [D!Next]_(D!vars) => PageTypeInv' /\ ReadInv'
<1> SUFFICES ASSUME PageTypeInv, ReadInv, [D!Next]_(D!vars)
             PROVE  PageTypeInv' /\ ReadInv'
  OBVIOUS
<1>1. CASE UNCHANGED D!vars
  BY <1>1 DEF D!vars, PageTypeInv, ReadInv, ReadOK, Holds
<1>2. ASSUME NEW t \in PageTargets, NEW r \in D!Target \cup {Null}, D!Change(t, r)
      PROVE  PageTypeInv' /\ ReadInv'
  <2>1. tgt' = [tgt EXCEPT ![t] = r]
    BY <1>2 DEF D!Change
  <2>2. ASSUME NEW q \in Requests
        PROVE  req'[q] \in Request /\ ReadOK(req[q])' 
    <3>1. req[q] \in Request /\ ReadOK(req[q])
      BY DEF PageTypeInv, ReadInv
    <3>2. CASE req[q].at = "counts"
      <4>1. req'[q] = [req[q] EXCEPT !.moved = @ \cup {t}]
        BY <1>2, <3>2 DEF D!Change
      <4>2. req'[q] \in Request /\ req'[q].at = "counts" /\ req'[q].rows = req[q].rows
        BY <3>1, <3>2, <4>1 DEF Request
      <4>3. D!Unsettled(req'[q]) = D!Unsettled(req[q]) \cup {t}
        BY <3>1, <4>1 DEF D!Unsettled, Request
      <4>4. ASSUME NEW u \in PageTargets, u \notin D!Unsettled(req'[q])
            PROVE  Holds(req[q], u)'
        <5>1. u # t /\ u \notin D!Unsettled(req[q])
          BY <4>3, <4>4
        <5>2. tgt'[u] = tgt[u]
          BY <2>1, <5>1 DEF PageTypeInv
        <5>3. Holds(req[q], u)
          BY <3>1, <3>2, <5>1 DEF ReadOK
        <5> QED BY <4>2, <5>2, <5>3 DEF Holds
      <4> QED BY <4>2, <4>4 DEF ReadOK
    <3>3. CASE req[q].at # "counts"
      <4>1. req'[q] = req[q]
        BY <1>2, <3>3 DEF D!Change
      <4> QED BY <3>1, <3>3, <4>1 DEF ReadOK, Fits
    <3> QED BY <3>2, <3>3
  <2>3. req' \in [Requests -> Request]
    <3>1. \A q \in Requests : req'[q] \in Request
      BY <2>2
    <3>2. \E f : req' = [q \in Requests |-> f[q]]
      <4>1. req' = [q \in Requests |-> req'[q]]
        BY <1>2 DEF D!Change
      <4> QED BY <4>1
    <3> QED BY <3>1, <3>2
  <2>4. tgt' \in [PageTargets -> D!Target \cup {Null}]
    BY <2>1 DEF PageTypeInv
  <2> QED BY <2>2, <2>3, <2>4 DEF PageTypeInv, ReadInv
<1>3. ASSUME NEW q \in Requests, NEW r \in Request, req' = [req EXCEPT ![q] = r], ReadOK(r),
             UNCHANGED tgt
      PROVE  PageTypeInv' /\ ReadInv'
  <2>1. PageTypeInv'
    BY <1>3 DEF PageTypeInv
  <2>2. ASSUME NEW p \in Requests PROVE ReadOK(req[p])'
    <3>1. req'[p] = IF p = q THEN r ELSE req[p]
      BY <1>3 DEF PageTypeInv
    <3>2. ReadOK(req'[p])
      BY <1>3, <3>1 DEF ReadInv
    <3> QED BY <1>3, <3>2 DEF ReadOK, Holds, Fits
  <2> QED BY <2>1, <2>2 DEF ReadInv
<1>4. CASE D!TableStep
  <2>1. ASSUME NEW t \in PageTargets, NEW s \in D!Statuses, D!WriteStatus(t, s)
        PROVE  PageTypeInv' /\ ReadInv'
    <3>1. [tgt[t] EXCEPT !.status = s] \in D!Target
      BY <2>1 DEF D!WriteStatus, PageTypeInv, D!Target
    <3> QED BY <1>2, <2>1, <3>1 DEF D!WriteStatus
  <2>2. ASSUME NEW t \in PageTargets, D!SetEnabled(t)
        PROVE  PageTypeInv' /\ ReadInv'
    <3>1. [tgt[t] EXCEPT !.enabled = ~@] \in D!Target
      BY <2>2 DEF D!SetEnabled, PageTypeInv, D!Target
    <3> QED BY <1>2, <2>2, <3>1 DEF D!SetEnabled
  <2>3. ASSUME NEW t \in PageTargets, D!CreateTarget(t)
        PROVE  PageTypeInv' /\ ReadInv'
    <3>1. \A enabled \in BOOLEAN : [enabled |-> enabled, status |-> "unknown"] \in D!Target
      BY DEF D!Target, D!Statuses
    <3> QED BY <1>2, <2>3, <3>1 DEF D!CreateTarget
  <2>4. ASSUME NEW t \in PageTargets, D!DeleteTarget(t)
        PROVE  PageTypeInv' /\ ReadInv'
    BY <1>2, <2>4 DEF D!DeleteTarget
  <2> QED BY <1>4, <2>1, <2>2, <2>3, <2>4 DEF D!TableStep
<1>5. ASSUME NEW q \in Requests, D!Poll(q) \/ \E t \in PageTargets : D!CheckNow(q, t)
      PROVE  PageTypeInv' /\ ReadInv'
  <2>1. CASE D!Poll(q)
    <3> DEFINE r == [D!Idle EXCEPT !.kind = "poll", !.at = "list"]
    <3>1. r \in Request /\ ReadOK(r)
      BY IdleTyped DEF Request, D!Idle, ReadOK
    <3> QED BY <1>3, <2>1, <3>1 DEF D!Poll, D!Begin
  <2>2. ASSUME NEW t \in PageTargets, D!CheckNow(q, t)
        PROVE  PageTypeInv' /\ ReadInv'
    <3> DEFINE r == [D!Idle EXCEPT !.kind = "check", !.at = "check", !.target = t]
    <3>1. r \in Request /\ ReadOK(r)
      BY IdleTyped DEF Request, D!Idle, ReadOK
    <3> QED BY <1>3, <2>2, <3>1 DEF D!CheckNow, D!Begin
  <2> QED BY <1>5, <2>1, <2>2
<1>6. ASSUME NEW q \in Requests, D!ServerStep(q)
      PROVE  PageTypeInv' /\ ReadInv'
  <2>0. req[q] \in Request /\ ReadOK(req[q])
    BY DEF PageTypeInv, ReadInv
  <2>1. CASE D!List(q)
    <3> DEFINE listed == {t \in PageTargets : D!Listed[t] # Null /\ ~tgt[t].enabled}
               r == [req[q] EXCEPT !.at = "counts", !.rows = D!Listed, !.paused = listed]
    <3>1. D!Listed \in [PageTargets -> Shown] /\ \A t \in PageTargets : D!Listed[t] = D!Payload(tgt[t])
      BY PayloadTyped DEF D!Listed, PageTypeInv
    <3>2. r \in Request /\ r.at = "counts" /\ r.rows = D!Listed /\ r.paused = listed
      BY <2>0, <3>1 DEF Request
    <3>3. ASSUME NEW t \in PageTargets, t \notin D!Unsettled(r)
          PROVE  Holds(r, t)
      <4>1. t \notin listed
        BY <3>2, <3>3 DEF D!Unsettled
      <4>2. tgt[t] # Null => D!Payload(tgt[t]) # Null
        BY PageAssumption DEF PageTypeInv, D!Payload, D!Target, D!Statuses
      <4> QED BY <3>1, <3>2, <4>1, <4>2 DEF Holds
    <3>4. ReadOK(r)
      BY <3>2, <3>3 DEF ReadOK
    <3> HIDE DEF r
    <3>5. req' = [req EXCEPT ![q] = r] /\ UNCHANGED tgt
      BY <2>1 DEF D!List, D!Serve, r
    <3> QED BY <1>3, <3>2, <3>4, <3>5
  <2>2. CASE D!Count(q)
    <3> DEFINE r == [req[q] EXCEPT !.at = "sent", !.counts = D!StatusCounts]
    <3>1. /\ r \in Request /\ r.at = "sent" /\ r.counts = D!StatusCounts
          /\ r.rows = req[q].rows /\ D!Unsettled(r) = D!Unsettled(req[q])
      BY <2>0, CountsTyped DEF Request, D!Unsettled
    <3>2. \A t \in PageTargets \ D!Unsettled(r) : Holds(r, t)
      BY <2>0, <2>2, <3>1 DEF ReadOK, Holds, D!Count, D!Serve
    <3> HIDE DEF r
    <3>3. Fits(r)
      BY <3>1, <3>2, Counting
    <3>4. ReadOK(r)
      BY <3>1, <3>3 DEF ReadOK
    <3>5. req' = [req EXCEPT ![q] = r] /\ UNCHANGED tgt
      BY <2>2 DEF D!Count, D!Serve, r
    <3> QED BY <1>3, <3>1, <3>4, <3>5
  <2>3. CASE D!NotChecked(q) \/ D!Checked(q)
    <3> DEFINE r(at) == [req[q] EXCEPT !.at = at]
    <3>1. req[q].at = "check" /\ req[q].kind = "check"
      BY <2>0, <2>3 DEF D!NotChecked, D!Checked, D!Serve, ReadOK
    <3>2. \A at \in {"sent", "payload"} : r(at) \in Request /\ ReadOK(r(at))
      BY <2>0, <3>1 DEF Request, ReadOK
    <3>3. /\ req' = [req EXCEPT ![q] = r("sent")] \/ req' = [req EXCEPT ![q] = r("payload")]
          /\ UNCHANGED tgt
      BY <2>3 DEF D!NotChecked, D!Checked, D!Serve
    <3> HIDE DEF r
    <3> QED BY <1>3, <3>2, <3>3
  <2>4. CASE D!ShowTarget(q)
    <3> DEFINE u == req[q].target
               r == [req[q] EXCEPT !.at = "sent", !.rows[u] = D!Payload(tgt[u])]
    <3>1. req[q].kind = "check"
      BY <2>0, <2>4 DEF D!ShowTarget, D!Serve, ReadOK
    <3>2. u \in PageTargets => D!Payload(tgt[u]) \in Shown
      BY PayloadTyped DEF PageTypeInv
    <3>3. r \in Request /\ ReadOK(r)
      BY <2>0, <3>1, <3>2 DEF Request, ReadOK
    <3>4. req' = [req EXCEPT ![q] = r] /\ UNCHANGED tgt
      BY <2>4 DEF D!ShowTarget, D!Serve
    <3> HIDE DEF r
    <3> QED BY <1>3, <3>3, <3>4
  <2>5. CASE D!Deliver(q)
    BY <1>3, <2>5, IdleTyped DEF D!Deliver, ReadOK
  <2> QED BY <1>6, <2>1, <2>2, <2>3, <2>4, <2>5 DEF D!ServerStep
<1>7. ASSUME NEW q \in Requests, D!Lose(q)
      PROVE  PageTypeInv' /\ ReadInv'
  BY <1>3, <1>7, IdleTyped DEF D!Lose, ReadOK
<1> QED BY <1>1, <1>4, <1>5, <1>6, <1>7 DEF D!Next

\* The rows and the counts of an answer differ by no more than the targets that
\* were paused or moved between the two statements, for any number of targets
\* and requests and whatever is written meanwhile.
THEOREM RowsAndCounts == D!Spec => []CountsFitRows
<1>1. PageTypeInv /\ ReadInv => CountsFitRows
  BY SameCount DEF ReadInv, ReadOK, Fits, CountsFitRows, D!CountsFitRows
<1> QED BY <1>1, PageInit, PageStep, PTL DEF D!Spec

=============================================================================
