----------------------------- MODULE MCAlerting -----------------------------
(* Instances of Alerting for TLC: what may go wrong, and a bound. *)
EXTENDS Alerting, FiniteSets, TLC

NoFaults == {}
AllFaults == {"crash", "db"}

\* Targets and operators are interchangeable.
Symmetric == Permutations(Targets) \cup Permutations(Admins)

Working == {c \in Checkers : pc[c] # "idle"}
Editing == {a \in Admins : adm[a] # Idle}

\* Bound: once there was a second target, checks (by Check now) and operators
\* take turns, and time stands still.
SecondTarget ==
    Cardinality(born) > 1 =>
        now = 0 /\ due = {} /\ Cardinality(Working) + Cardinality(Editing) <= 1

=============================================================================
