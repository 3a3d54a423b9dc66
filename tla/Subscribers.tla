----------------------------- MODULE Subscribers -----------------------------
(***************************************************************************)
(* Who is emailed: table subscribers, the group column of table targets    *)
(* and recipients_for_target of app/models.py, under the handlers of       *)
(* app/views.py that change them and a check that raises an alert.  A      *)
(* check works with the copy of its target that it read when it began.     *)
(***************************************************************************)
EXTENDS Integers, Sequences, SequencesExt

CONSTANTS Null,     \* SQL NULL, and "no such row"
          Subs,     \* subscriber ids (AUTOINCREMENT: never used twice)
          Targets,  \* target ids (likewise)
          Groups,   \* group names, without blanks around them
          Emails,   \* addresses as they were typed
          Key       \* the lower-case form of each address

\* A scope is everything, one target, or one group.
Subscriber == [email : Emails, enabled : BOOLEAN,
               target : Targets \cup {Null}, group : Groups \cup {Null}]

\* Mutant: a group is kept besides a target.
FormValuesBoth == Subscriber

\* What _read_subscriber_form lets through.
FormValues == {v \in Subscriber : v.target = Null \/ v.group = Null}

Target == [group : Groups \cup {Null}]

ASSUME SubscribersAssumption ==
    /\ DOMAIN Key = Emails
    /\ IsFiniteSet(Subs)
    /\ Null \notin Targets \cup Groups \cup Subscriber \cup Target

VARIABLES
    subs,      \* table subscribers
    bornSubs,  \* ids of subscribers already handed out
    tgt,       \* table targets
    born,      \* ids of targets already handed out
    check,     \* the copy of the target that a running check holds
    toggle     \* a handler between reading the enabled flag and writing it

vars == <<subs, bornSubs, tgt, born, check, toggle>>

TypeOK ==
    /\ subs \in [Subs -> Subscriber \cup {Null}]
    /\ \A s \in Subs : subs[s] # Null => Null \in {subs[s].target, subs[s].group}
    /\ bornSubs \subseteq Subs
    /\ tgt \in [Targets -> Target \cup {Null}]
    /\ born \subseteq Targets
    /\ check \in [target : Targets, group : Groups \cup {Null}] \cup {Null}
    /\ toggle \in [sub : Subs, want : BOOLEAN] \cup {Null}

Init ==
    /\ subs = [s \in Subs |-> Null]
    /\ bornSubs = {}
    /\ tgt = [t \in Targets |-> Null]
    /\ born = {}
    /\ check = Null
    /\ toggle = Null

-----------------------------------------------------------------------------
(* recipients_for_target. *)

\* The WHERE clause.
Wants(s, target) ==
    /\ subs[s] # Null /\ subs[s].enabled
    /\ \/ subs[s].target = target.target
       \/ subs[s].target = Null /\ subs[s].group = Null
       \/ subs[s].target = Null /\ subs[s].group = target.group /\ target.group # Null

KeyOf(s) == Key[subs[s].email]

\* Mutant: addresses are compared as they were typed.
KeepAsTyped(out, s) ==
    IF \E i \in DOMAIN out : subs[out[i]].email = subs[s].email THEN out ELSE Append(out, s)

\* One turn of the loop: a row is kept unless one with its address was.
Keep(out, s) ==
    IF \E i \in DOMAIN out : KeyOf(out[i]) = KeyOf(s) THEN out ELSE Append(out, s)

\* The loop over the rows.
Distinct(rows) ==
    LET out[n \in 0..Len(rows)] == IF n = 0 THEN <<>> ELSE Keep(out[n - 1], rows[n])
    IN out[Len(rows)]

\* The rows of the query, in any order that it may return them: it leaves rows
\* with the same address in any.
Queries(target) ==
    LET rows == {s \in Subs : Wants(s, target)}
    IN Bijection(1..Cardinality(rows), rows)

Recipients(target) == {Distinct(rows) : rows \in Queries(target)}

-----------------------------------------------------------------------------
(* Subscribers. *)

\* Mutant: the connection does not enforce foreign keys.
ForeignKeyOff(v) == TRUE

\* The foreign key: the statement raises when the target is gone.
ForeignKey(v) == v.target \in {Null} \cup {t \in Targets : tgt[t] # Null}

CreateSubscriber(s, v) ==
    /\ s \notin bornSubs /\ ForeignKey(v)
    /\ bornSubs' = bornSubs \cup {s}
    /\ subs' = [subs EXCEPT ![s] = v]
    /\ UNCHANGED <<tgt, born, check, toggle>>

\* Updating a row that has gone changes nothing, like not finding it.
UpdateSubscriber(s, v) ==
    /\ subs[s] # Null /\ ForeignKey(v)
    /\ subs' = [subs EXCEPT ![s] = v]
    /\ UNCHANGED <<bornSubs, tgt, born, check, toggle>>

DeleteSubscriber(s) ==
    /\ subs[s] # Null
    /\ subs' = [subs EXCEPT ![s] = Null]
    /\ UNCHANGED <<bornSubs, tgt, born, check, toggle>>

\* subscriber_toggle reads the flag, and then writes its negation.
ReadEnabled(s) ==
    /\ toggle = Null
    /\ subs[s] # Null
    /\ toggle' = [sub |-> s, want |-> ~subs[s].enabled]
    /\ UNCHANGED <<subs, bornSubs, tgt, born, check>>

SetEnabled ==
    /\ toggle # Null
    /\ subs' = IF subs[toggle.sub] = Null THEN subs
               ELSE [subs EXCEPT ![toggle.sub].enabled = toggle.want]
    /\ toggle' = Null
    /\ UNCHANGED <<bornSubs, tgt, born, check>>

-----------------------------------------------------------------------------
(* Targets and checks. *)

CreateTarget(t, new) ==
    /\ t \notin born
    /\ born' = born \cup {t}
    /\ tgt' = [tgt EXCEPT ![t] = new]
    /\ UNCHANGED <<subs, bornSubs, check, toggle>>

UpdateTarget(t, new) ==
    /\ tgt[t] # Null
    /\ tgt' = [tgt EXCEPT ![t] = new]
    /\ UNCHANGED <<subs, bornSubs, born, check, toggle>>

\* Mutant: the subscribers of the target stay, without it.
DeleteTargetSetNull(t) ==
    /\ tgt[t] # Null
    /\ tgt' = [tgt EXCEPT ![t] = Null]
    /\ subs' = [s \in Subs |-> IF subs[s] # Null /\ subs[s].target = t
                               THEN [subs[s] EXCEPT !.target = Null] ELSE subs[s]]
    /\ UNCHANGED <<bornSubs, born, check, toggle>>

\* delete_target cascades to the subscribers of the target.
DeleteTarget(t) ==
    /\ tgt[t] # Null
    /\ tgt' = [tgt EXCEPT ![t] = Null]
    /\ subs' = [s \in Subs |-> IF subs[s] # Null /\ subs[s].target = t
                               THEN Null ELSE subs[s]]
    /\ UNCHANGED <<bornSubs, born, check, toggle>>

\* perform_check reads its target.
GetTarget(t) ==
    /\ check = Null
    /\ tgt[t] # Null
    /\ check' = [target |-> t, group |-> tgt[t].group]
    /\ UNCHANGED <<subs, bornSubs, tgt, born, toggle>>

\* The check is over.  Whether it called notify or not, the tables do not
\* change; notify writes to one of Recipients(check).
EndCheck ==
    /\ check # Null
    /\ check' = Null
    /\ UNCHANGED <<subs, bornSubs, tgt, born, toggle>>

Next ==
    \/ \E s \in Subs : \/ \E v \in FormValues : \/ CreateSubscriber(s, v)
                                                \/ UpdateSubscriber(s, v)
                       \/ DeleteSubscriber(s)
                       \/ ReadEnabled(s)
    \/ SetEnabled
    \/ \E t \in Targets : \/ \E new \in Target : CreateTarget(t, new) \/ UpdateTarget(t, new)
                          \/ DeleteTarget(t)
                          \/ GetTarget(t)
    \/ EndCheck

Spec == Init /\ [][Next]_vars

-----------------------------------------------------------------------------
(* Properties. *)

\* What the page promises of a scope: all targets, the targets of one group,
\* or one target.
Covers(s) ==
    {t \in Targets : /\ tgt[t] # Null
                     /\ IF subs[s].target # Null THEN t = subs[s].target
                        ELSE subs[s].group \in {Null, tgt[t].group}}

\* An alert whose target is still as the check read it goes to every address
\* whose subscriber is enabled and covers the target, to no other, and to each
\* once, however it is spelt and in whatever order the rows come.
EachAddressOnce ==
    check # Null /\ tgt[check.target] = [group |-> check.group] =>
        \A to \in Recipients(check) :
            /\ {KeyOf(to[i]) : i \in DOMAIN to}
                 = {KeyOf(s) : s \in {u \in Subs : /\ subs[u] # Null
                                                   /\ subs[u].enabled
                                                   /\ check.target \in Covers(u)}}
            /\ \A i, j \in DOMAIN to : KeyOf(to[i]) = KeyOf(to[j]) => i = j

\* A subscriber to one target never outlives it, whichever of deleting the
\* target and saving the subscriber comes first.
NoDanglingScope ==
    \A s \in Subs : subs[s] # Null /\ subs[s].target # Null => tgt[subs[s].target] # Null

\* Deleting a target never makes anybody a subscriber to other targets.
DeleteWidensNothing ==
    [][\A t \in Targets : DeleteTarget(t) =>
          \A s \in Subs : subs[s] # Null /\ subs'[s] # Null => Covers(s)' \subseteq Covers(s)]_vars

=============================================================================
