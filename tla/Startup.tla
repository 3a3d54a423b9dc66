------------------------------- MODULE Startup -------------------------------
(***************************************************************************)
(* What a process does before it serves: migrate of app/schema.py,         *)
(* ensure_defaults of app/settings.py and _secret_key of app/__init__.py,  *)
(* in the order of create_app.  "run.py --init-db", which the installers   *)
(* and updaters in deploy/ call, does the same and exits.                  *)
(*                                                                         *)
(* Each CREATE TABLE and each set_value commits on its own, and a process  *)
(* may die between any two of them.  SERVERPINGER_SECRET_KEY is not set.   *)
(***************************************************************************)
EXTENDS Integers, FiniteSets

CONSTANTS Null,        \* a key without a row, and a process without a secret
          Processes,   \* the service, and runs of --init-db
          Keys,        \* settings that operators can change
          Default, Saved, Blank, \* values: as shipped, as an operator saved it, ""
          Secrets,     \* what secrets.token_hex returns, one after the other
          NumTables,   \* tables of migration 001; the first is settings
          Together     \* whether several processes may start at the same time

VARIABLES
    made,   \* how many tables there are
    set,    \* table settings
    pc,     \* where each process is
    loc,    \* its locals: the table it creates, the keys it fills, its secret
    used,     \* the secrets generated
    together  \* chosen once: several processes may start at the same time

vars == <<made, set, pc, loc, used, together>>

AllKeys == Keys \cup {"schema_version", "secret_key"}

Values(k) ==
    CASE k = "schema_version" -> {"0", "1"}
      [] k = "secret_key"     -> Secrets \cup {Blank}
      [] OTHER                -> {Default, Saved}

DefaultOf(k) ==
    CASE k = "schema_version" -> "0"
      [] k = "secret_key"     -> Blank
      [] OTHER                -> Default

ASSUME StartupAssumption ==
    /\ NumTables \in Nat \ {0}
    /\ Together \subseteq BOOLEAN
    /\ Default # Saved /\ Blank \notin Secrets
    /\ \A k \in AllKeys : Null \notin Values(k)
    /\ Keys \cap {"schema_version", "secret_key"} = {}

NoLocals == [table |-> 1, missing |-> {}, secret |-> Null]

TypeOK ==
    /\ made \in 0..NumTables
    /\ DOMAIN set = AllKeys
    /\ \A k \in AllKeys : set[k] \in Values(k) \cup {Null}
    /\ pc \in [Processes -> {"idle", "version", "create", "stamp", "existing", "fill",
                             "secret", "store", "serving"}]
    /\ loc \in [Processes -> [table : 1..NumTables, missing : SUBSET AllKeys,
                              secret : Secrets \cup {Null}]]
    /\ used \subseteq Secrets
    /\ together \in Together

\* The data directory is new, or an older version left its database there and
\* the settings that are new since have no row yet.
Init ==
    /\ \/ /\ made = 0
          /\ set = [k \in AllKeys |-> Null]
          /\ used = {}
       \/ /\ made = NumTables
          /\ \E old \in [Keys -> {Null, Default, Saved}], s \in Secrets :
                /\ set = [k \in AllKeys |-> CASE k = "schema_version" -> "1"
                                              [] k = "secret_key" -> s
                                              [] OTHER -> old[k]]
                /\ used = {s}
    /\ pc = [p \in Processes |-> "idle"]
    /\ loc = [p \in Processes |-> NoLocals]
    /\ together \in Together

Goto(p, label) == pc' = [pc EXCEPT ![p] = label]

-----------------------------------------------------------------------------
(* create_app. *)

Start(p) ==
    /\ pc[p] = "idle"
    /\ together \/ \A q \in Processes : pc[q] \in {"idle", "serving"}
    /\ Goto(p, "version")
    /\ UNCHANGED <<made, set, loc, used>>

\* _current_version: without the table, or the row, the version is 0.
CurrentVersion(p) ==
    /\ pc[p] = "version"
    /\ Goto(p, IF made > 0 /\ set["schema_version"] = "1" THEN "existing" ELSE "create")
    /\ UNCHANGED <<made, set, loc, used>>

\* Mutant: a table is created whether it exists or not.
CreateTableAgain(p) ==
    /\ pc[p] = "create"
    /\ made' = made + 1
    /\ IF loc[p].table < NumTables
       THEN /\ loc' = [loc EXCEPT ![p].table = @ + 1]
            /\ Goto(p, "create")
       ELSE /\ Goto(p, "stamp")
            /\ UNCHANGED loc
    /\ UNCHANGED <<set, used>>

\* Mutant: the version is stored with the first table.
CreateTableStamped(p) ==
    /\ pc[p] = "create"
    /\ made' = IF made < loc[p].table THEN loc[p].table ELSE made
    /\ set' = [set EXCEPT !["schema_version"] = "1"]
    /\ IF loc[p].table < NumTables
       THEN /\ loc' = [loc EXCEPT ![p].table = @ + 1]
            /\ Goto(p, "create")
       ELSE /\ Goto(p, "stamp")
            /\ UNCHANGED loc
    /\ UNCHANGED used

\* _m001_initial: CREATE TABLE IF NOT EXISTS, one after the other.
CreateTable(p) ==
    /\ pc[p] = "create"
    /\ made' = IF made < loc[p].table THEN loc[p].table ELSE made
    /\ IF loc[p].table < NumTables
       THEN /\ loc' = [loc EXCEPT ![p].table = @ + 1]
            /\ Goto(p, "create")
       ELSE /\ Goto(p, "stamp")
            /\ UNCHANGED loc
    /\ UNCHANGED <<set, used>>

StampVersion(p) ==
    /\ pc[p] = "stamp"
    /\ set' = [set EXCEPT !["schema_version"] = "1"]
    /\ Goto(p, "existing")
    /\ UNCHANGED <<made, loc, used>>

\* Mutant: the keys that have a row are not left out.
MissingAll == AllKeys

Missing == {k \in AllKeys : set[k] = Null}

\* ensure_defaults reads the keys that have a row, and then inserts the others.
ReadExisting(p) ==
    /\ pc[p] = "existing"
    /\ loc' = [loc EXCEPT ![p].missing = Missing]
    /\ Goto(p, "fill")
    /\ UNCHANGED <<made, set, used>>

FillDefault(p, k) ==
    /\ pc[p] = "fill" /\ k \in loc[p].missing
    /\ set' = [set EXCEPT ![k] = DefaultOf(k)]
    /\ loc' = [loc EXCEPT ![p].missing = @ \ {k}]
    /\ UNCHANGED <<made, pc, used>>

Filled(p) ==
    /\ pc[p] = "fill" /\ loc[p].missing = {}
    /\ Goto(p, "secret")
    /\ UNCHANGED <<made, set, loc, used>>

\* _secret_key: the stored one is used when there is one.
LoadSecret(p) ==
    /\ pc[p] = "secret"
    /\ set["secret_key"] \notin {Null, Blank}
    /\ loc' = [loc EXCEPT ![p].secret = set["secret_key"]]
    /\ Goto(p, "serving")
    /\ UNCHANGED <<made, set, used>>

GenerateSecret(p, s) ==
    /\ pc[p] = "secret"
    /\ set["secret_key"] \in {Null, Blank}
    /\ s \in Secrets \ used
    /\ used' = used \cup {s}
    /\ loc' = [loc EXCEPT ![p].secret = s]
    /\ Goto(p, "store")
    /\ UNCHANGED <<made, set>>

\* Mutant: the generated secret is not stored.
StoreSecretForgotten(p) ==
    /\ pc[p] = "store"
    /\ Goto(p, "serving")
    /\ UNCHANGED <<made, set, loc, used>>

StoreSecret(p) ==
    /\ pc[p] = "store"
    /\ set' = [set EXCEPT !["secret_key"] = loc[p].secret]
    /\ Goto(p, "serving")
    /\ UNCHANGED <<made, loc, used>>

\* The settings page of a process that serves.
Save(p, k) ==
    /\ pc[p] = "serving"
    /\ set' = [set EXCEPT ![k] = Saved]
    /\ UNCHANGED <<made, pc, loc, used>>

\* The process exits (--init-db is through), is stopped, or dies anywhere.
Exit(p) ==
    /\ pc[p] # "idle"
    /\ Goto(p, "idle")
    /\ loc' = [loc EXCEPT ![p] = NoLocals]
    /\ UNCHANGED <<made, set, used>>

Next ==
    /\ UNCHANGED together
    /\ \E p \in Processes :
          \/ Start(p) \/ CurrentVersion(p) \/ CreateTable(p) \/ StampVersion(p)
          \/ ReadExisting(p) \/ Filled(p) \/ LoadSecret(p) \/ StoreSecret(p) \/ Exit(p)
          \/ \E k \in AllKeys : FillDefault(p, k)
          \/ \E s \in Secrets : GenerateSecret(p, s)
          \/ \E k \in Keys : Save(p, k)

Spec == Init /\ [][Next]_vars

-----------------------------------------------------------------------------
(* Properties. *)

\* A process that serves finds every table and a row for every setting, however
\* often the processes before it, or beside it, died half way.
ServesComplete ==
    \A p \in Processes : pc[p] = "serving" =>
        /\ made = NumTables
        /\ \A k \in AllKeys : set[k] # Null

\* The schema version never goes back to the shipped "0", which would run the
\* migrations again.
VersionNeverBack ==
    [][set["schema_version"] = "1" => set'["schema_version"] = "1"]_vars

\* While processes start one at a time, the key with which the service signs
\* its sessions is the stored one, so that they survive the next restart.
SecretIsStored ==
    \A p \in Processes :
        pc[p] = "serving" /\ ~together => loc[p].secret = set["secret_key"]

\* ensure_defaults "Never overwrites": while processes start one at a time, a
\* setting that an operator saved stays, also if another process starts beside
\* the one that serves.
SavedIsKept ==
    [][\A k \in Keys : set[k] = Saved /\ ~together => set'[k] = Saved]_vars

=============================================================================
