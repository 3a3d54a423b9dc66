------------------------------ MODULE MCStartup ------------------------------
(* Instances of Startup for TLC. *)
EXTENDS Startup, TLC

Symmetry == Permutations(Processes) \cup Permutations(Keys) \cup Permutations(Secrets)

=============================================================================
