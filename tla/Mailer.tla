------------------------------- MODULE Mailer -------------------------------
(***************************************************************************)
(* Sending email while the settings change: notify, send_email and         *)
(* send_test_email of app/mailer.py, the settings page of app/views.py,    *)
(* and the key-by-key store of app/settings.py that they share.            *)
(*                                                                         *)
(* Each settings.get and each set_value is a statement of its own, so a    *)
(* sender may read the keys of a form that is half written, and two        *)
(* writers may interleave.  Port, security and from address are read and   *)
(* written between host and user name and are left out, and so are the     *)
(* keys that no step of a delivery reads.                                  *)
(***************************************************************************)
EXTENDS Integers, Sequences, FiniteSets

CONSTANTS Null,       \* the empty text
          Senders,    \* threads of the pool that send alerts
          Testers,    \* request threads that send the test email
          Savers,     \* request threads that save the settings page
          Forms,      \* what operators may submit
          MaxSaves,   \* bound of the number of forms submitted
          CanCrash    \* the process may die and be restarted, at any point

Modes == {"internal_relay", "smtp_auth"}

ASSUME MailerAssumption ==
    /\ \A f \in Forms : /\ DOMAIN f = {"mode", "host", "username", "password", "enabled"}
                        /\ f.mode \in Modes
                        /\ f.enabled \in BOOLEAN
    /\ Senders \cap Testers = {}
    /\ MaxSaves \in Nat
    /\ CanCrash \in BOOLEAN

VARIABLES
    set,         \* table settings
    pc,          \* where each thread is
    read,        \* the settings each sender has read
    todo,        \* the statements each thread has left of a set_many
    submitted,   \* history: the forms that operators have submitted
    unwritten,   \* history: the password of the last form is not stored yet
    outcomes     \* history: how the attempts ended that overlapped last

saves == <<submitted, unwritten>>
vars == <<set, pc, read, todo, saves, outcomes>>

Mailers == Senders \cup Testers
Threads == Mailers \cup Savers

Hosts     == {f.host : f \in Forms} \cup {Null}
Usernames == {f.username : f \in Forms} \cup {Null}
Passwords == {f.password : f \in Forms} \cup {Null}

\* What a sender has read.  early is a history: it read the password while the
\* form still had to store it, or never would.
Read == [host : Hosts, mode : Modes, username : Usernames, password : Passwords,
         early : BOOLEAN]

NothingRead == [host |-> Null, mode |-> "internal_relay", username |-> Null,
                password |-> Null, early |-> FALSE]

\* DEFAULTS: unconfigured, and switched off.
Defaults == [mode |-> "internal_relay", host |-> Null, username |-> Null,
             password |-> Null, enabled |-> FALSE, error |-> FALSE, errorAt |-> FALSE]

Init ==
    /\ set = Defaults
    /\ pc = [c \in Threads |-> "idle"]
    /\ read = [c \in Mailers |-> NothingRead]
    /\ todo = [c \in Threads |-> <<>>]
    /\ submitted = {}
    /\ unwritten = FALSE
    /\ outcomes = {}

Goto(c, label) == pc' = [pc EXCEPT ![c] = label]

-----------------------------------------------------------------------------
(* set_many: one statement for each key. *)

SetMany(c, writes) ==
    /\ todo' = [todo EXCEPT ![c] = writes]
    /\ Goto(c, "write")

SetValue(c) ==
    /\ pc[c] = "write"
    /\ set' = [set EXCEPT ![Head(todo[c]).key] = Head(todo[c]).value]
    /\ todo' = [todo EXCEPT ![c] = Tail(@)]
    /\ Goto(c, IF Len(todo[c]) = 1 THEN "idle" ELSE "write")
    /\ unwritten' = (unwritten /\ Head(todo[c]).key # "password")
    /\ UNCHANGED <<read, submitted, outcomes>>

Write(k, v) == [key |-> k, value |-> v]

\* Mutant: the time of the error is not cleared with it.
RecordedKeepsTime(failed) ==
    IF failed THEN << Write("error", TRUE), Write("errorAt", TRUE) >>
    ELSE << Write("error", FALSE) >>

\* _record_error and the end of a delivery: the text of the last error and its
\* time, or two empty texts.
Recorded(failed) == << Write("error", failed), Write("errorAt", failed) >>

-----------------------------------------------------------------------------
(* The settings page. *)

\* The relay mode drops the user name that came with the form.
UsernameOf(f) == IF f.mode = "internal_relay" THEN Null ELSE f.username

\* A blank password keeps the stored one; the relay mode clears it.
PasswordWrites(f) ==
    CASE f.mode = "internal_relay" -> << Write("password", Null) >>
      [] f.mode = "smtp_auth" /\ f.password # Null -> << Write("password", f.password) >>
      [] OTHER -> <<>>

\* The password that the settings hold when the first form has been stored.
PasswordOf(f) == IF f.mode = "internal_relay" THEN Null ELSE f.password

\* Mutant: the switch is the first key of the form.
FormWritesSwitchFirst(f) ==
    << Write("enabled", f.enabled), Write("mode", f.mode), Write("host", f.host),
       Write("username", UsernameOf(f)) >> \o PasswordWrites(f)

\* Mutant: the values of two keys are swapped.
FormWritesSwapped(f) ==
    << Write("mode", f.host), Write("host", f.mode), Write("username", UsernameOf(f)),
       Write("enabled", f.enabled) >> \o PasswordWrites(f)

\* The order of the dictionary that settings_email hands to set_many.
FormWrites(f) ==
    << Write("mode", f.mode), Write("host", f.host), Write("username", UsernameOf(f)),
       Write("enabled", f.enabled) >> \o PasswordWrites(f)

Save(c, f) ==
    /\ pc[c] = "idle"
    /\ f \notin submitted /\ Cardinality(submitted) < MaxSaves
    /\ submitted' = submitted \cup {f}
    /\ unwritten' = (PasswordWrites(f) # <<>>)
    /\ SetMany(c, FormWrites(f))
    /\ UNCHANGED <<set, read, outcomes>>

-----------------------------------------------------------------------------
(* Sending. *)

Move(c, from, to) ==
    /\ pc[c] = from
    /\ Goto(c, to)
    /\ UNCHANGED <<set, todo, saves>>

Step(c, from, to) == Move(c, from, to) /\ UNCHANGED outcomes

Attempting(c) == pc[c] \in {"mode", "username", "password", "session", "write"}

\* The outcomes so far, when an attempt begins.
Before(c) == IF \E d \in Mailers \ {c} : Attempting(d) THEN outcomes ELSE {}

\* The monitor raises an alert and calls notify.
Alert(c) == Step(c, "idle", "notify") /\ UNCHANGED read

\* notify looks at the switch first.
Notify(c) ==
    Step(c, "notify", IF set.enabled THEN "recipients" ELSE "idle") /\ UNCHANGED read

\* recipients_for_target finds somebody, or nobody.
Recipients(c) ==
    /\ Step(c, "recipients", "send") \/ Step(c, "recipients", "idle")
    /\ UNCHANGED read

\* send_email looks at the switch again.
SendEmail(c) ==
    Step(c, "send", IF set.enabled THEN "host" ELSE "idle") /\ UNCHANGED read

\* The test email is forced past the switch.
TestEmail(c) == Step(c, "idle", "host") /\ UNCHANGED read

ReadHost(c) ==
    /\ Move(c, "host", "mode")
    /\ set.host # Null
    /\ outcomes' = Before(c)
    /\ read' = [read EXCEPT ![c].host = set.host]

NoHost(c) ==
    /\ pc[c] = "host"
    /\ set.host = Null
    /\ outcomes' = Before(c) \cup {FALSE}
    /\ SetMany(c, Recorded(TRUE))
    /\ UNCHANGED <<set, read, saves>>

ReadMode(c) ==
    Step(c, "mode", "username") /\ read' = [read EXCEPT ![c].mode = set.mode]

ReadUsername(c) ==
    Step(c, "username", "password") /\ read' = [read EXCEPT ![c].username = set.username]

ReadPassword(c) ==
    /\ Step(c, "password", "session")
    /\ read' = [read EXCEPT ![c] = [@ EXCEPT !.password = set.password, !.early = unwritten]]

\* The SMTP session, and what is stored about it.
Session(c, ok) ==
    /\ pc[c] = "session"
    /\ outcomes' = outcomes \cup {ok}
    /\ SetMany(c, Recorded(~ok))
    /\ read' = [read EXCEPT ![c] = NothingRead]
    /\ UNCHANGED <<set, saves>>

MailStep(c) ==
    \/ Notify(c) \/ Recipients(c) \/ SendEmail(c)
    \/ ReadHost(c) \/ NoHost(c) \/ ReadMode(c) \/ ReadUsername(c) \/ ReadPassword(c)
    \/ \E ok \in BOOLEAN : Session(c, ok)

-----------------------------------------------------------------------------

\* The process dies and is restarted; what set_many had left is not written.
Crash ==
    /\ CanCrash
    /\ pc' = [c \in Threads |-> "idle"]
    /\ read' = [c \in Mailers |-> NothingRead]
    /\ todo' = [c \in Threads |-> <<>>]
    /\ outcomes' = BOOLEAN
    /\ UNCHANGED <<set, saves>>

Next ==
    \/ \E c \in Threads : SetValue(c)
    \/ \E c \in Savers, f \in Forms : Save(c, f)
    \/ \E c \in Senders : Alert(c)
    \/ \E c \in Testers : TestEmail(c)
    \/ \E c \in Mailers : MailStep(c)
    \/ Crash

Spec == Init /\ [][Next]_vars

-----------------------------------------------------------------------------
(* Properties. *)

TypeOK ==
    /\ set \in [mode : Modes, host : Hosts, username : Usernames, password : Passwords,
                enabled : BOOLEAN, error : BOOLEAN, errorAt : BOOLEAN]
    /\ pc \in [Threads -> {"idle", "write", "notify", "recipients", "send", "host",
                           "mode", "username", "password", "session"}]
    /\ read \in [Mailers -> Read]
    /\ \A c \in Threads : pc[c] = "write" <=> todo[c] # <<>>
    /\ submitted \subseteq Forms
    /\ unwritten \in BOOLEAN
    /\ outcomes \subseteq BOOLEAN

\* An installation is configured with one form that also switches sending on.
\* An alert that is raised meanwhile finds sending switched off, or it uses the
\* server, the mode and the user name of that form, also when the process dies
\* in the middle of it.  The password is the one key that is stored after the
\* switch: a sender that reads it in between, or after a crash in between, goes
\* without, and no other sender does.
AlertsUseTheForm ==
    \A c \in Senders : pc[c] = "session" =>
        \E f \in submitted :
            /\ read[c].host = f.host
            /\ read[c].mode = f.mode
            /\ read[c].username = UsernameOf(f)
            /\ \/ read[c].password = PasswordOf(f)
               \/ read[c].password = Null /\ read[c].early

\* README: "the last error is shown at the top of the settings page".  When
\* attempts that overlapped have ended alike, the page shows an error with its
\* time if they failed, and none if they did not, in whatever order they stored
\* it.
LastErrorExact ==
    \A ok \in BOOLEAN :
        outcomes = {ok} /\ (\A c \in Mailers : ~Attempting(c))
            => set.error = ~ok /\ set.errorAt = ~ok

=============================================================================
