---------------------------- MODULE MCSubscribers ----------------------------
(* Instances of Subscribers for TLC. *)
EXTENDS Subscribers

CONSTANTS ann, ANN, bob

\* Two spellings of one address, and another address.
Addresses == {ann, ANN, bob}
LowerCase == (ann :> ann) @@ (ANN :> ann) @@ (bob :> bob)

Symmetry == Permutations(Subs) \cup Permutations(Targets) \cup Permutations(Groups)

=============================================================================
