----------------------------- MODULE MCDatabase -----------------------------
(* An instance of Database for TLC. *)
EXTENDS Database

=============================================================================
