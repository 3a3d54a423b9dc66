----------------------------- MODULE MCDashboard -----------------------------
\* The page and the history behind it.  Dashboard and History share no state,
\* so each is explored by itself, while the other stays where it starts.  The
\* page is explored twice: with one target and every request, and with every
\* target and one request.
EXTENDS History

CONSTANTS PageTargets, Requests, MaxLost
VARIABLES tgt, gone, req, shown, header, lost, part

D == INSTANCE Dashboard WITH Targets <- PageTargets

\* A row has a status or is not there, and there are finitely many targets.
ASSUME PageAssumption == Null \notin D!Statuses /\ IsFiniteSet(PageTargets)

pageVars == <<tgt, gone, req, shown, header, lost>>

OneRequest == {CHOOSE q \in Requests : TRUE}
OtherTargets == PageTargets \ {CHOOSE t \in PageTargets : TRUE}

\* part says what moves.  With every target the page is opened when there is
\* none yet, so it has no row and asks for no check.
MCInit ==
    /\ part \in {"requests", "targets", "history"}
    /\ Init /\ D!Init
    /\ part = "requests" => gone = OtherTargets /\ \A t \in OtherTargets : tgt[t] = Null
    /\ part # "requests" => gone = {} /\ tgt = D!NoRows

Moving == IF part = "requests" THEN Requests ELSE IF part = "targets" THEN OneRequest ELSE {}

MCNext ==
    /\ UNCHANGED part
    /\ \/ /\ part # "history" /\ D!Next /\ UNCHANGED vars
          /\ \A q \in Requests \ Moving : req'[q].at = "idle"
       \/ part = "history" /\ Next /\ UNCHANGED pageVars

MCSpec ==
    /\ MCInit /\ [][MCNext]_<<vars, pageVars, part>>
    /\ SF_pageVars(\E q \in Moving : D!Poll(q))
    /\ \A q \in Requests : WF_pageVars(D!ServerStep(q))

CountsFitRows == D!CountsFitRows
PageSettles == D!PageSettles

=============================================================================
