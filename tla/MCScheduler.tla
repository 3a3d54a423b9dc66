----------------------------- MODULE MCScheduler -----------------------------
(* Instances of Scheduler for TLC.  No symmetry: TLC checks liveness. *)
EXTENDS Scheduler

=============================================================================
