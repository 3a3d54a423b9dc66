---------------------------- MODULE StartupProofs ----------------------------
(***************************************************************************)
(* What a process finds when it serves, for any number of processes,       *)
(* settings, tables and secrets.                                           *)
(***************************************************************************)
EXTENDS Startup, TLAPS

Locals == [table : 1..NumTables, missing : SUBSET AllKeys, secret : Secrets \cup {Null}]

\* How far the database has come when a process is at its label.
Progress(p) ==
    /\ pc[p] \in {"idle", "version", "create"} => loc[p].table <= made + 1
    /\ pc[p] = "stamp" => made = NumTables
    /\ pc[p] \in {"existing", "fill", "secret", "store", "serving"}
         => set["schema_version"] = "1"
    /\ pc[p] = "fill" =>
         /\ "schema_version" \notin loc[p].missing
         /\ \A k \in AllKeys \ loc[p].missing : set[k] # Null
    /\ pc[p] \in {"secret", "store", "serving"} => \A k \in AllKeys : set[k] # Null
    /\ pc[p] = "store" => loc[p].secret \in Secrets

\* The version is stored after the last table.
Migrated ==
    /\ set["schema_version"] = "1" => made = NumTables
    /\ \A p \in Processes : Progress(p)

Starting(p) == pc[p] \notin {"idle", "serving"}

\* While one process starts at a time, nobody gives a row to a key that it is
\* about to fill, and the secret it is about to store is the only one.
Alone ==
    /\ \A p, q \in Processes : Starting(p) /\ Starting(q) => p = q
    /\ \A p \in Processes :
         /\ pc[p] = "fill" => \A k \in loc[p].missing : set[k] = Null
         /\ pc[p] = "store" => set["secret_key"] \in {Null, Blank}
         /\ pc[p] = "serving" => /\ loc[p].secret = set["secret_key"]
                                 /\ set["secret_key"] \notin {Null, Blank}

Inv == TypeOK /\ Migrated /\ (~together => Alone)

-----------------------------------------------------------------------------

\* Which values a key may have.
LEMMA Kinds ==
    /\ {"schema_version", "secret_key"} \subseteq AllKeys
    /\ Keys \subseteq AllKeys
    /\ Values("schema_version") = {"0", "1"}
    /\ Values("secret_key") = Secrets \cup {Blank}
    /\ \A k \in Keys : /\ Values(k) = {Default, Saved}
                       /\ k # "schema_version" /\ k # "secret_key"
    /\ \A k \in AllKeys : DefaultOf(k) \in Values(k) /\ Null \notin Values(k)
    /\ \A k \in Keys : DefaultOf(k) = Default
  BY StartupAssumption DEF AllKeys, Values, DefaultOf

LEMMA Constants ==
    /\ NumTables \in Nat /\ 1 <= NumTables
    /\ Together \subseteq BOOLEAN
    /\ Default # Saved /\ Blank \notin Secrets
    /\ (Default # Null /\ Saved # Null) \/ Keys = {}
    /\ "0" # Null /\ "1" # Null /\ Blank # Null /\ Null \notin Secrets
<1>1. Null \notin Values("schema_version") /\ Null \notin Values("secret_key")
  BY Kinds
<1>2. ASSUME NEW k \in Keys PROVE Null \notin {Default, Saved}
  BY Kinds
<1> QED BY <1>1, <1>2, Kinds, StartupAssumption

\* At first there is no database, or a complete one.
LEMMA InitInv == Init => Inv
<1> SUFFICES ASSUME Init PROVE Inv
    OBVIOUS
<1>1. TypeOK
  <2>1. NoLocals \in Locals
    BY Constants DEF NoLocals, Locals
  <2>2. made \in 0..NumTables /\ used \subseteq Secrets /\ together \in Together
    BY Constants DEF Init
  <2>3. DOMAIN set = AllKeys /\ \A k \in AllKeys : set[k] \in Values(k) \cup {Null}
    <3>1. CASE set = [k \in AllKeys |-> Null]
      BY <3>1
    <3>2. ASSUME NEW old \in [Keys -> {Null, Default, Saved}], NEW s \in Secrets,
                 set = [k \in AllKeys |-> CASE k = "schema_version" -> "1"
                                            [] k = "secret_key" -> s
                                            [] OTHER -> old[k]]
          PROVE  DOMAIN set = AllKeys /\ \A k \in AllKeys : set[k] \in Values(k) \cup {Null}
      BY <3>2, Kinds DEF AllKeys
    <3> QED BY <3>1, <3>2 DEF Init
  <2> QED BY <2>1, <2>2, <2>3 DEF Init, TypeOK, Locals
<1>2. Migrated
  BY Kinds, Constants DEF Init, Migrated, Progress, NoLocals
<1>3. Alone
  BY DEF Init, Alone, Starting
<1> QED BY <1>1, <1>2, <1>3 DEF Inv

\* Every step keeps the kinds of rows and locals.
LEMMA TypeStep == TypeOK /\ Migrated /\ [Next]_vars => TypeOK'
<1> SUFFICES ASSUME TypeOK, Migrated, [Next]_vars PROVE TypeOK'
    OBVIOUS
<1> USE Constants, Kinds DEF TypeOK, Goto
<1>1. CASE UNCHANGED vars
  BY <1>1 DEF vars
<1>2. ASSUME NEW p \in Processes, together' = together,
             Start(p) \/ CurrentVersion(p) \/ Filled(p)
      PROVE  TypeOK'
  BY <1>2 DEF Start, CurrentVersion, Filled
<1>3. ASSUME NEW p \in Processes, together' = together, CreateTable(p) PROVE TypeOK'
  <2>1. loc[p].table \in 1..NumTables
    OBVIOUS
  <2>2. made' \in 0..NumTables
    BY <1>3, <2>1 DEF CreateTable
  <2>3. CASE loc[p].table < NumTables
    <3>1. loc' \in [Processes -> Locals]
      BY <1>3, <2>1, <2>3 DEF CreateTable, Locals
    <3> QED BY <1>3, <2>2, <2>3, <3>1 DEF CreateTable, Locals
  <2>4. CASE ~(loc[p].table < NumTables)
    BY <1>3, <2>2, <2>4 DEF CreateTable
  <2> QED BY <2>3, <2>4
<1>4. ASSUME NEW p \in Processes, together' = together, StampVersion(p) PROVE TypeOK'
  BY <1>4 DEF StampVersion
<1>5. ASSUME NEW p \in Processes, together' = together, ReadExisting(p) PROVE TypeOK'
  <2>1. loc' \in [Processes -> Locals]
    BY <1>5 DEF ReadExisting, Missing, Locals
  <2> QED BY <1>5, <2>1 DEF ReadExisting, Locals
<1>6. ASSUME NEW p \in Processes, together' = together, NEW k \in AllKeys, FillDefault(p, k)
      PROVE  TypeOK'
  <2>1. loc' \in [Processes -> Locals]
    BY <1>6 DEF FillDefault, Locals
  <2>2. DOMAIN set' = AllKeys /\ \A j \in AllKeys : set'[j] \in Values(j) \cup {Null}
    BY <1>6 DEF FillDefault
  <2> QED BY <1>6, <2>1, <2>2 DEF FillDefault, Locals
<1>7. ASSUME NEW p \in Processes, together' = together, LoadSecret(p) PROVE TypeOK'
  <2>1. set["secret_key"] \in Secrets
    BY <1>7 DEF LoadSecret
  <2>2. loc' \in [Processes -> Locals]
    BY <1>7, <2>1 DEF LoadSecret, Locals
  <2> QED BY <1>7, <2>2 DEF LoadSecret, Locals
<1>8. ASSUME NEW p \in Processes, together' = together, NEW s \in Secrets, GenerateSecret(p, s)
      PROVE  TypeOK'
  <2>1. loc' \in [Processes -> Locals]
    BY <1>8 DEF GenerateSecret, Locals
  <2> QED BY <1>8, <2>1 DEF GenerateSecret, Locals
<1>9. ASSUME NEW p \in Processes, together' = together, StoreSecret(p) PROVE TypeOK'
  <2>1. loc[p].secret \in Secrets
    BY <1>9 DEF StoreSecret, Migrated, Progress
  <2>2. DOMAIN set' = AllKeys /\ \A j \in AllKeys : set'[j] \in Values(j) \cup {Null}
    BY <1>9, <2>1 DEF StoreSecret
  <2> QED BY <1>9, <2>2 DEF StoreSecret
<1>10. ASSUME NEW p \in Processes, together' = together, NEW k \in Keys, Save(p, k)
       PROVE  TypeOK'
  <2>1. DOMAIN set' = AllKeys /\ \A j \in AllKeys : set'[j] \in Values(j) \cup {Null}
    BY <1>10 DEF Save
  <2> QED BY <1>10, <2>1 DEF Save
<1>11. ASSUME NEW p \in Processes, together' = together, Exit(p) PROVE TypeOK'
  <2>1. loc' \in [Processes -> Locals]
    BY <1>11 DEF Exit, NoLocals, Locals
  <2> QED BY <1>11, <2>1 DEF Exit, Locals
<1> QED BY <1>1, <1>2, <1>3, <1>4, <1>5, <1>6, <1>7, <1>8, <1>9, <1>10, <1>11 DEF Next

\* Tables and rows are never taken away, and the version only goes up.
LEMMA Grows ==
    TypeOK /\ Migrated /\ [Next]_vars =>
        /\ made' \in Nat /\ made <= made'
        /\ set["schema_version"] = "1" => set'["schema_version"] = "1"
        /\ \A k \in AllKeys : set[k] # Null => set'[k] # Null
<1> SUFFICES ASSUME TypeOK, Migrated, [Next]_vars
             PROVE  /\ made' \in Nat /\ made <= made'
                    /\ set["schema_version"] = "1" => set'["schema_version"] = "1"
                    /\ \A k \in AllKeys : set[k] # Null => set'[k] # Null
    OBVIOUS
<1>0. made \in Nat /\ DOMAIN set = AllKeys
  BY Constants DEF TypeOK
<1>1. CASE made' = made /\ set' = set
  BY <1>0, <1>1
<1>2. ASSUME NEW p \in Processes, CreateTable(p)
      PROVE  made' \in Nat /\ made <= made' /\ set' = set
  <2>1. loc[p].table \in Nat
    BY Constants DEF TypeOK
  <2> QED BY <1>0, <1>2, <2>1 DEF CreateTable
<1>3. ASSUME NEW p \in Processes, StampVersion(p)
      PROVE  /\ made' = made /\ set'["schema_version"] = "1"
             /\ \A k \in AllKeys : set[k] # Null => set'[k] # Null
  BY <1>0, <1>3, Kinds, Constants DEF StampVersion
<1>4. ASSUME NEW p \in Processes, NEW k \in AllKeys, FillDefault(p, k)
      PROVE  /\ made' = made /\ set'["schema_version"] = set["schema_version"]
             /\ \A j \in AllKeys : set[j] # Null => set'[j] # Null
  <2>1. k # "schema_version"
    BY <1>4 DEF FillDefault, Migrated, Progress
  <2> QED BY <1>0, <1>4, <2>1, Kinds DEF FillDefault
<1>5. ASSUME NEW p \in Processes, StoreSecret(p)
      PROVE  /\ made' = made /\ set'["schema_version"] = set["schema_version"]
             /\ \A j \in AllKeys : set[j] # Null => set'[j] # Null
  <2>1. loc[p].secret # Null
    BY <1>5, Constants DEF StoreSecret, Migrated, Progress
  <2> QED BY <1>0, <1>5, <2>1 DEF StoreSecret
<1>6. ASSUME NEW p \in Processes, NEW k \in Keys, Save(p, k)
      PROVE  /\ made' = made /\ set'["schema_version"] = set["schema_version"]
             /\ \A j \in AllKeys : set[j] # Null => set'[j] # Null
  BY <1>0, <1>6, Kinds, Constants DEF Save
<1>7. ASSUME NEW p \in Processes,
             \/ Start(p) \/ CurrentVersion(p) \/ ReadExisting(p) \/ Filled(p)
             \/ LoadSecret(p) \/ Exit(p) \/ \E s \in Secrets : GenerateSecret(p, s)
      PROVE  made' = made /\ set' = set
  BY <1>7 DEF Start, CurrentVersion, ReadExisting, Filled, LoadSecret, Exit, GenerateSecret
<1>8. CASE UNCHANGED vars
  BY <1>1, <1>8 DEF vars
<1> QED BY <1>0, <1>1, <1>2, <1>3, <1>4, <1>5, <1>6, <1>7, <1>8 DEF Next

\* A process that does not move is no further from being through.
LEMMA Stands ==
    ASSUME TypeOK, TypeOK', Migrated, [Next]_vars, NEW q \in Processes,
           pc'[q] = pc[q], loc'[q] = loc[q]
    PROVE  Progress(q)'
<1>1. made' \in Nat /\ made <= made' /\ made' <= NumTables /\ made \in Nat
  BY Grows, Constants DEF TypeOK
<1>2. loc[q].table \in Nat
  BY Constants DEF TypeOK
<1>3. Progress(q)
  BY DEF Migrated
<1> QED BY <1>1, <1>2, <1>3, Grows, Constants DEF Progress

\* A process gets on only when what it was waiting for is there.
LEMMA MigratedStep == TypeOK /\ TypeOK' /\ Migrated /\ [Next]_vars => Migrated'
<1> SUFFICES ASSUME TypeOK, TypeOK', Migrated, [Next]_vars PROVE Migrated'
    OBVIOUS
<1>0. /\ made' \in Nat /\ made <= made' /\ made' <= NumTables /\ made \in Nat
      /\ set["schema_version"] = "1" => set'["schema_version"] = "1"
      /\ \A k \in AllKeys : set[k] # Null => set'[k] # Null
  BY Grows, Constants DEF TypeOK
<1>a. DOMAIN set = AllKeys
  BY DEF TypeOK
<1>b. ASSUME NEW q \in Processes, pc'[q] = pc[q], loc'[q] = loc[q] PROVE Progress(q)'
  BY <1>b, Stands
<1>1. set'["schema_version"] = "1" => made' = NumTables
  <2>1. CASE set["schema_version"] = "1"
    BY <2>1, <1>0, Constants DEF Migrated
  <2>2. CASE set["schema_version"] # "1" /\ set'["schema_version"] = "1"
    <3>1. \E p \in Processes : StampVersion(p)
      <4>1. ASSUME NEW p \in Processes, NEW k \in AllKeys, FillDefault(p, k) PROVE FALSE
        BY <1>a, <2>2, <4>1 DEF FillDefault, DefaultOf
      <4>2. ASSUME NEW p \in Processes, StoreSecret(p) PROVE FALSE
        BY <1>a, <2>2, <4>2 DEF StoreSecret
      <4>3. ASSUME NEW p \in Processes, NEW k \in Keys, Save(p, k) PROVE FALSE
        BY <1>a, <2>2, <4>3, Kinds DEF Save
      <4> QED BY <2>2, <4>1, <4>2, <4>3 DEF Next, vars, Start, CurrentVersion, CreateTable,
                 ReadExisting, Filled, LoadSecret, Exit, GenerateSecret
    <3> QED BY <3>1 DEF StampVersion, Migrated, Progress
  <2> QED BY <2>1, <2>2
<1>2. \A q \in Processes : Progress(q)'
  <2> SUFFICES ASSUME NEW q \in Processes PROVE Progress(q)'
      OBVIOUS
  <2>0. /\ DOMAIN pc = Processes /\ loc \in [Processes -> Locals]
        /\ loc[q] \in Locals /\ loc[q].table \in 1..NumTables
    BY DEF TypeOK, Locals
  <2>1. CASE UNCHANGED vars
    BY <1>b, <2>1 DEF vars
  <2> USE DEF Goto
  <2>2. ASSUME NEW p \in Processes, Start(p) \/ CurrentVersion(p) PROVE Progress(q)'
    <3>1. CASE q = p
      BY <3>1, <2>2, <2>0, <1>0 DEF Start, CurrentVersion, Migrated, Progress
    <3> QED BY <3>1, <2>2, <2>0, <1>b DEF Start, CurrentVersion
  <2>3. ASSUME NEW p \in Processes, CreateTable(p) PROVE Progress(q)'
    <3>1. CASE q = p /\ loc[p].table < NumTables
      <4>1. loc'[p].table = loc[p].table + 1 /\ pc'[p] = "create" /\ loc[p].table <= made'
        BY <3>1, <2>3, <2>0, <1>0 DEF CreateTable, Locals
      <4> QED BY <3>1, <4>1, <1>0, <2>0 DEF Progress
    <3>2. CASE q = p /\ ~(loc[p].table < NumTables)
      <4>1. pc'[p] = "stamp" /\ loc[p].table <= made' /\ loc[p].table = NumTables
        BY <3>2, <2>3, <2>0, <1>0, Constants DEF CreateTable
      <4>2. made' = NumTables
        BY <4>1, <1>0, Constants
      <4> QED BY <3>2, <4>1, <4>2 DEF Progress
    <3>3. CASE q # p
      BY <3>3, <2>3, <2>0, <1>b DEF CreateTable
    <3> QED BY <3>1, <3>2, <3>3
  <2>4. ASSUME NEW p \in Processes, StampVersion(p) PROVE Progress(q)'
    <3>1. CASE q = p
      BY <3>1, <2>4, <2>0, <1>a, Kinds DEF StampVersion, Progress
    <3> QED BY <3>1, <2>4, <2>0, <1>b DEF StampVersion
  <2>5. ASSUME NEW p \in Processes, ReadExisting(p) PROVE Progress(q)'
    <3>1. CASE q = p
      <4>1. loc'[p].missing = Missing /\ pc'[p] = "fill" /\ set' = set
        BY <2>5, <2>0, <3>1 DEF ReadExisting, Locals
      <4>2. set["schema_version"] = "1"
        BY <2>5 DEF ReadExisting, Migrated, Progress
      <4> QED BY <3>1, <4>1, <4>2, Constants DEF Missing, Progress
    <3> QED BY <3>1, <2>5, <2>0, <1>b DEF ReadExisting
  <2>6. ASSUME NEW p \in Processes, NEW k \in AllKeys, FillDefault(p, k) PROVE Progress(q)'
    <3>1. CASE q = p
      <4>1. /\ loc'[p].missing = loc[p].missing \ {k} /\ pc'[p] = "fill" /\ pc[p] = "fill"
            /\ set'[k] = DefaultOf(k) /\ DefaultOf(k) # Null
        BY <2>6, <2>0, <3>1, <1>a, Kinds DEF FillDefault, Locals
      <4>2. Progress(p)
        BY DEF Migrated
      <4> QED BY <3>1, <4>1, <4>2, <1>0 DEF Progress
    <3> QED BY <3>1, <2>6, <2>0, <1>b DEF FillDefault
  <2>7. ASSUME NEW p \in Processes, Filled(p) \/ LoadSecret(p) PROVE Progress(q)'
    <3>1. CASE q = p
      BY <3>1, <2>7, <2>0 DEF Filled, LoadSecret, Migrated, Progress
    <3> QED BY <3>1, <2>7, <2>0, <1>b DEF Filled, LoadSecret
  <2>8. ASSUME NEW p \in Processes, NEW s \in Secrets, GenerateSecret(p, s) PROVE Progress(q)'
    <3>1. CASE q = p
      <4>1. loc'[p].secret = s /\ pc'[p] = "store" /\ set' = set
        BY <2>8, <2>0, <3>1 DEF GenerateSecret, Locals
      <4> QED BY <3>1, <4>1, <2>8 DEF GenerateSecret, Migrated, Progress
    <3> QED BY <3>1, <2>8, <2>0, <1>b DEF GenerateSecret
  <2>9. ASSUME NEW p \in Processes, StoreSecret(p) PROVE Progress(q)'
    <3>1. CASE q = p
      BY <3>1, <2>9, <2>0, <1>0 DEF StoreSecret, Migrated, Progress
    <3> QED BY <3>1, <2>9, <2>0, <1>b DEF StoreSecret
  <2>10. ASSUME NEW p \in Processes, NEW k \in Keys, Save(p, k) PROVE Progress(q)'
    BY <2>10, <1>b DEF Save
  <2>11. ASSUME NEW p \in Processes, Exit(p) PROVE Progress(q)'
    <3>1. CASE q = p
      <4>1. pc'[p] = "idle" /\ loc'[p].table = 1
        BY <2>11, <2>0 DEF Exit, NoLocals
      <4>2. \A n \in Nat : 1 <= n + 1
        OBVIOUS
      <4>3. 1 <= made' + 1
        BY <4>2, <1>0
      <4> QED BY <3>1, <4>1, <4>3 DEF Progress
    <3> QED BY <3>1, <2>11, <2>0, <1>b DEF Exit
  <2> QED BY <2>1, <2>2, <2>3, <2>4, <2>5, <2>6, <2>7, <2>8, <2>9, <2>10, <2>11 DEF Next
<1> QED BY <1>1, <1>2 DEF Migrated

\* Processes that start one after the other stay out of each other's way.
LEMMA AloneStep ==
    TypeOK /\ TypeOK' /\ Migrated /\ ~together /\ Alone /\ [Next]_vars => Alone'
<1> SUFFICES ASSUME TypeOK, TypeOK', Migrated, ~together, Alone, [Next]_vars PROVE Alone'
    OBVIOUS
<1>0. DOMAIN pc = Processes /\ DOMAIN set = AllKeys /\ loc \in [Processes -> Locals]
  BY DEF TypeOK, Locals
<1>1. ASSUME NEW p \in Processes, NEW q \in Processes, Starting(p)', Starting(q)' PROVE p = q
  <2>1. ASSUME NEW r \in Processes, Start(r) PROVE p = q
    BY <1>0, <1>1, <2>1 DEF Start, Goto, Starting
  <2>2. CASE \A r \in Processes : ~Start(r)
    <3>1. ASSUME NEW r \in Processes, Starting(r)' PROVE Starting(r)
      BY <1>0, <2>2, <3>1 DEF Next, vars, Start, CurrentVersion, CreateTable, StampVersion,
         ReadExisting, FillDefault, Filled, LoadSecret, GenerateSecret, StoreSecret, Save, Exit,
         Goto, Starting
    <3> QED BY <1>1, <3>1 DEF Alone
  <2> QED BY <2>1, <2>2
<1>2. ASSUME NEW q \in Processes
      PROVE  /\ pc'[q] = "fill" => \A k \in loc'[q].missing : set'[k] = Null
             /\ pc'[q] = "store" => set'["secret_key"] \in {Null, Blank}
             /\ pc'[q] = "serving" => /\ loc'[q].secret = set'["secret_key"]
                                      /\ set'["secret_key"] \notin {Null, Blank}
  <2> DEFINE Goal == /\ pc'[q] = "fill" => \A k \in loc'[q].missing : set'[k] = Null
                     /\ pc'[q] = "store" => set'["secret_key"] \in {Null, Blank}
                     /\ pc'[q] = "serving" => /\ loc'[q].secret = set'["secret_key"]
                                              /\ set'["secret_key"] \notin {Null, Blank}
  <2>0. /\ pc[q] = "fill" => \A k \in loc[q].missing : set[k] = Null
        /\ pc[q] = "store" => set["secret_key"] \in {Null, Blank}
        /\ pc[q] = "serving" => /\ loc[q].secret = set["secret_key"]
                                /\ set["secret_key"] \notin {Null, Blank}
    BY DEF Alone
  <2>1. CASE pc'[q] = pc[q] /\ loc'[q] = loc[q] /\ set' = set
    BY <2>0, <2>1
  <2>2. CASE UNCHANGED vars
    BY <2>1, <2>2 DEF vars
  <2> USE <1>0 DEF Goto
  <2>3. ASSUME NEW p \in Processes,
               Start(p) \/ CurrentVersion(p) \/ CreateTable(p) \/ Filled(p) \/ Exit(p)
        PROVE  Goal
    <3>1. CASE p = q
      <4>1. pc'[q] \notin {"fill", "store", "serving"}
        BY <2>3, <3>1 DEF Start, CurrentVersion, CreateTable, Filled, Exit
      <4> QED BY <4>1
    <3>2. CASE p # q
      <4>1. pc'[q] = pc[q] /\ loc'[q] = loc[q] /\ set' = set
        BY <2>3, <3>2 DEF Start, CurrentVersion, CreateTable, Filled, Exit
      <4> QED BY <4>1, <2>1
    <3> QED BY <3>1, <3>2
  <2>4. ASSUME NEW p \in Processes, StampVersion(p) PROVE Goal
    <3>1. pc'[q] = pc[q] \/ pc'[q] = "existing"
      BY <2>4 DEF StampVersion
    <3>2. /\ loc'[q] = loc[q] /\ set'["secret_key"] = set["secret_key"]
          /\ \A k \in AllKeys : set'[k] = set[k] \/ k = "schema_version"
      BY <2>4, Kinds DEF StampVersion
    <3>3. CASE pc'[q] = "fill"
      <4>1. pc[q] = "fill"
        BY <3>1, <3>3
      <4>2. q = p
        BY <2>4, <4>1 DEF StampVersion, Alone, Starting
      <4> QED BY <2>4, <4>1, <4>2 DEF StampVersion
    <3> QED BY <2>0, <3>1, <3>2, <3>3
  <2>5. ASSUME NEW p \in Processes, ReadExisting(p) PROVE Goal
    <3>1. CASE p = q
      <4>1. pc'[q] = "fill" /\ loc'[q].missing = Missing /\ set' = set
        BY <2>5, <3>1 DEF ReadExisting, Locals
      <4> QED BY <4>1 DEF Missing
    <3>2. CASE p # q
      <4>1. pc'[q] = pc[q] /\ loc'[q] = loc[q] /\ set' = set
        BY <2>5, <3>2 DEF ReadExisting
      <4> QED BY <4>1, <2>1
    <3> QED BY <3>1, <3>2
  <2>6. ASSUME NEW p \in Processes, NEW k \in AllKeys, FillDefault(p, k) PROVE Goal
    <3>1. pc[p] = "fill" /\ set[k] = Null /\ pc'[q] = pc[q]
      BY <2>6 DEF FillDefault, Alone
    <3>2. CASE p = q
      <4>1. /\ loc'[q].missing = loc[q].missing \ {k} /\ pc'[q] = "fill"
            /\ loc[q].missing \subseteq AllKeys
            /\ \A j \in AllKeys \ {k} : set'[j] = set[j]
        BY <2>6, <3>1, <3>2 DEF FillDefault, Locals
      <4> QED BY <2>0, <3>1, <3>2, <4>1
    <3>3. CASE p # q
      <4>1. ~Starting(q)
        BY <3>1, <3>3 DEF Alone, Starting
      <4>2. pc[q] = "serving" => set[k] # Null
        BY DEF Migrated, Progress
      <4>3. loc'[q] = loc[q] /\ \A j \in AllKeys \ {k} : set'[j] = set[j]
        BY <2>6, <3>3 DEF FillDefault
      <4> QED BY <2>0, <3>1, <4>1, <4>2, <4>3, Kinds DEF Starting
    <3> QED BY <3>2, <3>3
  <2>7. ASSUME NEW p \in Processes, LoadSecret(p) PROVE Goal
    <3>1. CASE p = q
      <4>1. /\ pc'[q] = "serving" /\ loc'[q].secret = set["secret_key"] /\ set' = set
            /\ set["secret_key"] \notin {Null, Blank}
        BY <2>7, <3>1 DEF LoadSecret, Locals
      <4> QED BY <4>1
    <3>2. CASE p # q
      <4>1. pc'[q] = pc[q] /\ loc'[q] = loc[q] /\ set' = set
        BY <2>7, <3>2 DEF LoadSecret
      <4> QED BY <4>1, <2>1
    <3> QED BY <3>1, <3>2
  <2>8. ASSUME NEW p \in Processes, NEW s \in Secrets, GenerateSecret(p, s) PROVE Goal
    <3>1. CASE p = q
      BY <2>8, <3>1 DEF GenerateSecret
    <3>2. CASE p # q
      <4>1. pc'[q] = pc[q] /\ loc'[q] = loc[q] /\ set' = set
        BY <2>8, <3>2 DEF GenerateSecret
      <4> QED BY <4>1, <2>1
    <3> QED BY <3>1, <3>2
  <2>9. ASSUME NEW p \in Processes, StoreSecret(p) PROVE Goal
    <3>1. set["secret_key"] \in {Null, Blank} /\ loc[p].secret \in Secrets /\ Starting(p)
      BY <2>9 DEF StoreSecret, Alone, Migrated, Progress, Starting
    <3>2. CASE p = q
      <4>1. /\ pc'[q] = "serving" /\ loc'[q] = loc[q]
            /\ set'["secret_key"] = loc[q].secret
        BY <2>9, <3>2, Kinds DEF StoreSecret
      <4> QED BY <3>1, <3>2, <4>1, Constants
    <3>3. CASE p # q
      <4>1. ~Starting(q) /\ pc[q] # "serving"
        BY <2>0, <3>1, <3>3 DEF Alone
      <4>2. pc'[q] = "idle"
        BY <2>9, <3>3, <4>1 DEF StoreSecret, Starting
      <4> QED BY <4>2
    <3> QED BY <3>2, <3>3
  <2>10. ASSUME NEW p \in Processes, NEW k \in Keys, Save(p, k) PROVE Goal
    <3>1. /\ pc' = pc /\ loc' = loc /\ set'["secret_key"] = set["secret_key"]
          /\ \A j \in AllKeys \ {k} : set'[j] = set[j]
      BY <2>10, Kinds DEF Save
    <3>2. set[k] # Null
      BY <2>10, Kinds DEF Save, Migrated, Progress
    <3>3. loc[q].missing \subseteq AllKeys
      BY DEF Locals
    <3> QED BY <2>0, <3>1, <3>2, <3>3
  <2> QED BY <2>2, <2>3, <2>4, <2>5, <2>6, <2>7, <2>8, <2>9, <2>10 DEF Next
<1> QED BY <1>1, <1>2 DEF Alone

\* The invariant.
LEMMA Inductive == Inv /\ [Next]_vars => Inv'
<1>1. [Next]_vars => together' = together
  BY DEF Next, vars
<1> QED BY <1>1, TypeStep, MigratedStep, AloneStep DEF Inv

LEMMA Invariance == Spec => []Inv
<1> QED BY InitInv, Inductive, PTL DEF Spec

-----------------------------------------------------------------------------

\* Tables, rows and locals keep their kinds while processes start and die.
THEOREM Typing == Spec => []TypeOK
<1>1. Inv => TypeOK
  BY DEF Inv
<1> QED BY <1>1, Invariance, PTL

\* A process that serves finds every table and a row for every setting.
THEOREM Complete == Spec => []ServesComplete
<1>1. Inv => ServesComplete
  BY DEF Inv, Migrated, Progress, ServesComplete
<1> QED BY <1>1, Invariance, PTL

\* The key that signs sessions is the stored one.
THEOREM Secret == Spec => []SecretIsStored
<1>1. Inv => SecretIsStored
  BY DEF Inv, Alone, SecretIsStored
<1> QED BY <1>1, Invariance, PTL

\* The schema version never goes back.
THEOREM Version == Spec => VersionNeverBack
<1>1. Inv /\ [Next]_vars => [set["schema_version"] = "1" => set'["schema_version"] = "1"]_vars
  BY Grows DEF Inv
<1> QED BY <1>1, Invariance, PTL DEF Spec, VersionNeverBack

\* What an operator saved is never overwritten by ensure_defaults.
THEOREM Saves == Spec => SavedIsKept
<1>1. Inv /\ [Next]_vars => [\A k \in Keys : set[k] = Saved /\ ~together => set'[k] = Saved]_vars
  <2> SUFFICES ASSUME Inv, Next, NEW k \in Keys, set[k] = Saved, ~together
               PROVE  set'[k] = Saved
      OBVIOUS
  <2>0. DOMAIN set = AllKeys /\ k \in AllKeys /\ k # "schema_version" /\ k # "secret_key"
    BY Kinds DEF Inv, TypeOK
  <2>1. ASSUME NEW p \in Processes, NEW j \in AllKeys, FillDefault(p, j) PROVE set'[k] = Saved
    <3>1. set[j] = Null
      BY <2>1 DEF FillDefault, Inv, Alone
    <3>2. k # j
      BY <3>1, Constants
    <3> QED BY <2>0, <2>1, <3>2 DEF FillDefault
  <2> QED BY <2>0, <2>1 DEF Next, Start, CurrentVersion, CreateTable, StampVersion, ReadExisting,
             Filled, LoadSecret, GenerateSecret, StoreSecret, Save, Exit
<1> QED BY <1>1, Invariance, PTL DEF Spec, SavedIsKept

=============================================================================
