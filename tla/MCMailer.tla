------------------------------ MODULE MCMailer ------------------------------
(* Instances of Mailer for TLC. *)
EXTENDS Mailer, TLC

CONSTANTS relay, provider, ann, secret

RelayForm ==
    [mode |-> "internal_relay", host |-> relay, username |-> ann, password |-> Null,
     enabled |-> TRUE]

AuthForm ==
    [mode |-> "smtp_auth", host |-> provider, username |-> ann, password |-> secret,
     enabled |-> TRUE]

\* The password is left blank, and sending is switched off.
OffForm == [AuthForm EXCEPT !.password = Null, !.enabled = FALSE]

AllForms == {RelayForm, AuthForm, OffForm}

Symmetry == Permutations(Senders) \cup Permutations(Testers)

=============================================================================
