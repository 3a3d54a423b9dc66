---------------------------- MODULE MCUpdateCheck ----------------------------
(* An instance of UpdateCheck for TLC. *)
EXTENDS UpdateCheck

\* A release that is the running version, and the one after it.
Releases == {Current, Current + 1}

=============================================================================
