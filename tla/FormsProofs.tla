----------------------------- MODULE FormsProofs -----------------------------
(***************************************************************************)
(* What follows from the forms of app/views.py.  Subscribers: whom a scope *)
(* covers and who gets an email, for any subscribers, targets, groups and  *)
(* addresses.  Probes: what is stored of a target and what its probe       *)
(* concludes, for any forms and any worlds, on every platform.             *)
(***************************************************************************)
EXTENDS Subscribers, MCProbes,
        FiniteSetTheorems, SequenceTheorems, WellFoundedInduction, TLAPS

\* Typed, and no scope names a target that is gone.
Inv == TypeOK /\ NoDanglingScope

LEMMA NullIsNoRow ==
    /\ Null \notin Targets /\ Null \notin Groups
    /\ Null \notin Subscriber /\ Null \notin Target
  BY SubscribersAssumption

\* What the form lets through is a subscriber with one scope.
LEMMA OneScope ==
    ASSUME NEW v \in FormValues
    PROVE  /\ v \in Subscriber /\ v # Null
           /\ Null \in {v.target, v.group}
  BY NullIsNoRow DEF FormValues

LEMMA InitInv == Init => Inv
  BY DEF Init, Inv, TypeOK, NoDanglingScope

\* Rows of subscribers keep their kind, and their one scope.
LEMMA TypeStep == TypeOK /\ [Next]_vars => TypeOK'
<1> SUFFICES ASSUME TypeOK, [Next]_vars PROVE TypeOK'
    OBVIOUS
<1> USE NullIsNoRow DEF TypeOK
<1>1. CASE UNCHANGED vars
  BY <1>1 DEF vars
<1>2. ASSUME NEW s \in Subs, NEW v \in FormValues,
             CreateSubscriber(s, v) \/ UpdateSubscriber(s, v)
      PROVE  TypeOK'
  <2>1. v \in Subscriber /\ Null \in {v.target, v.group}
    BY OneScope
  <2>2. subs' = [subs EXCEPT ![s] = v]
    BY <1>2 DEF CreateSubscriber, UpdateSubscriber
  <2>3. /\ subs' \in [Subs -> Subscriber \cup {Null}]
        /\ \A r \in Subs : subs'[r] # Null => Null \in {subs'[r].target, subs'[r].group}
    BY <2>1, <2>2
  <2> QED BY <1>2, <2>3 DEF CreateSubscriber, UpdateSubscriber
<1>3. ASSUME NEW s \in Subs, DeleteSubscriber(s) PROVE TypeOK'
  BY <1>3 DEF DeleteSubscriber
<1>4. ASSUME NEW s \in Subs, ReadEnabled(s) PROVE TypeOK'
  BY <1>4 DEF ReadEnabled
<1>5. CASE SetEnabled
  <2>1. toggle.sub \in Subs /\ toggle.want \in BOOLEAN
    BY <1>5 DEF SetEnabled
  <2>2. CASE subs[toggle.sub] = Null
    BY <1>5, <2>2 DEF SetEnabled
  <2>3. CASE subs[toggle.sub] # Null
    <3> DEFINE r == [subs[toggle.sub] EXCEPT !.enabled = toggle.want]
    <3>1. subs[toggle.sub] \in Subscriber
      BY <2>1, <2>3
    <3>2. /\ r \in Subscriber /\ r.target = subs[toggle.sub].target
          /\ r.group = subs[toggle.sub].group
      BY <2>1, <3>1 DEF Subscriber
    <3>3. subs' = [subs EXCEPT ![toggle.sub] = r]
      BY <1>5, <2>3 DEF SetEnabled
    <3>4. /\ subs' \in [Subs -> Subscriber \cup {Null}]
          /\ \A s \in Subs : subs'[s] # Null => Null \in {subs'[s].target, subs'[s].group}
      <4> HIDE DEF r
      <4> QED BY <2>1, <2>3, <3>2, <3>3
    <3> QED BY <1>5, <3>4 DEF SetEnabled
  <2> QED BY <2>2, <2>3
<1>6. ASSUME NEW t \in Targets, NEW new \in Target, CreateTarget(t, new) \/ UpdateTarget(t, new)
      PROVE  TypeOK'
  BY <1>6 DEF CreateTarget, UpdateTarget
<1>7. ASSUME NEW t \in Targets, DeleteTarget(t) PROVE TypeOK'
  BY <1>7 DEF DeleteTarget
<1>8. ASSUME NEW t \in Targets, GetTarget(t) PROVE TypeOK'
  BY <1>8 DEF GetTarget, Target
<1>9. CASE EndCheck
  BY <1>9 DEF EndCheck
<1> QED BY <1>1, <1>2, <1>3, <1>4, <1>5, <1>6, <1>7, <1>8, <1>9 DEF Next

\* No row is saved for a target that is gone, and a target takes its rows along.
LEMMA ScopeStep == Inv /\ [Next]_vars => NoDanglingScope'
<1> SUFFICES ASSUME TypeOK, NoDanglingScope, [Next]_vars,
                    NEW s \in Subs, subs'[s] # Null, subs'[s].target # Null
             PROVE  tgt'[subs'[s].target] # Null
    BY DEF Inv, NoDanglingScope
<1> USE NullIsNoRow DEF TypeOK
<1>0. subs[s] # Null => subs[s].target \in Targets \cup {Null}
  BY DEF Subscriber
<1>1. CASE subs' = subs /\ tgt' = tgt
  BY <1>1 DEF NoDanglingScope
<1>2. ASSUME NEW u \in Subs, NEW v \in FormValues,
             CreateSubscriber(u, v) \/ UpdateSubscriber(u, v)
      PROVE  tgt'[subs'[s].target] # Null
  <2>1. subs' = [subs EXCEPT ![u] = v] /\ tgt' = tgt /\ ForeignKey(v)
    BY <1>2 DEF CreateSubscriber, UpdateSubscriber
  <2>2. CASE s = u
    BY <2>1, <2>2 DEF ForeignKey
  <2>3. CASE s # u
    BY <2>1, <2>3 DEF NoDanglingScope
  <2> QED BY <2>2, <2>3
<1>3. ASSUME NEW u \in Subs, DeleteSubscriber(u) PROVE tgt'[subs'[s].target] # Null
  BY <1>3 DEF DeleteSubscriber, NoDanglingScope
<1>4. CASE SetEnabled
  <2>1. /\ tgt' = tgt /\ subs[s] # Null
        /\ subs'[s].target = subs[s].target
    BY <1>4 DEF SetEnabled, Subscriber
  <2> QED BY <2>1 DEF NoDanglingScope
<1>5. ASSUME NEW t \in Targets, NEW new \in Target, CreateTarget(t, new) \/ UpdateTarget(t, new)
      PROVE  tgt'[subs'[s].target] # Null
  <2>1. subs' = subs /\ tgt' = [tgt EXCEPT ![t] = new] /\ new # Null
    BY <1>5 DEF CreateTarget, UpdateTarget
  <2> QED BY <1>0, <2>1 DEF NoDanglingScope
<1>6. ASSUME NEW t \in Targets, DeleteTarget(t) PROVE tgt'[subs'[s].target] # Null
  <2>1. subs'[s] = subs[s] /\ subs[s].target # t
    BY <1>6 DEF DeleteTarget
  <2>2. tgt' = [tgt EXCEPT ![t] = Null]
    BY <1>6 DEF DeleteTarget
  <2> QED BY <1>0, <2>1, <2>2 DEF NoDanglingScope
<1>7. CASE \/ \E u \in Subs : ReadEnabled(u)
           \/ \E t \in Targets : GetTarget(t)
           \/ EndCheck \/ UNCHANGED vars
  BY <1>1, <1>7 DEF ReadEnabled, GetTarget, EndCheck, vars
<1> QED BY <1>2, <1>3, <1>4, <1>5, <1>6, <1>7 DEF Next

LEMMA Invariance == Spec => []Inv
<1>1. Inv /\ [Next]_vars => Inv'
  BY TypeStep, ScopeStep DEF Inv
<1> QED BY <1>1, InitInv, PTL DEF Spec

-----------------------------------------------------------------------------

\* Subscribers, targets and the copy of a check keep their kinds.
THEOREM Typing == Spec => []TypeOK
<1>1. Inv => TypeOK
  BY DEF Inv
<1> QED BY <1>1, Invariance, PTL

\* A subscriber to one target never outlives it.
THEOREM Scopes == Spec => []NoDanglingScope
<1>1. Inv => NoDanglingScope
  BY DEF Inv
<1> QED BY <1>1, Invariance, PTL

\* Deleting a target never makes anybody a subscriber to other targets.
THEOREM Deletes == Spec => DeleteWidensNothing
<1> DEFINE Narrow == \A t \in Targets : DeleteTarget(t) =>
          \A s \in Subs : subs[s] # Null /\ subs'[s] # Null => Covers(s)' \subseteq Covers(s)
<1>1. Inv /\ [Next]_vars => [Narrow]_vars
  <2> SUFFICES ASSUME Inv, NEW t \in Targets, DeleteTarget(t),
                      NEW s \in Subs, subs[s] # Null, subs'[s] # Null
               PROVE  Covers(s)' \subseteq Covers(s)
      OBVIOUS
  <2>1. subs'[s] = subs[s]
    BY DEF DeleteTarget, Inv, TypeOK
  <2>2. \A u \in Targets : tgt'[u] # Null => tgt'[u] = tgt[u]
    BY DEF DeleteTarget, Inv, TypeOK
  <2> QED BY <2>1, <2>2 DEF Covers
<1> QED BY <1>1, Invariance, PTL DEF Spec, DeleteWidensNothing

-----------------------------------------------------------------------------
(* Who gets an email.  Induction over the rows: the library's theorem on    *)
(* well-founded orders speaks of sets, so what holds of all numbers is      *)
(* stated as a set of numbers.                                              *)

\* A set of numbers with 0 and every successor has them all.
LEMMA SetInduction ==
    ASSUME NEW N, 0 \in N, \A n \in Nat : n \in N => n + 1 \in N
    PROVE  Nat \subseteq N
<1> DEFINE Missing == Nat \ N
           R == OpToRel(<, Nat)
<1> SUFFICES ASSUME Missing # {} PROVE FALSE
  OBVIOUS
<1>1. PICK least \in Missing : \A n \in Missing : <<n, least>> \notin R
  <2> HIDE DEF R
  <2>1. IsWellFoundedOn(R, Nat)
    BY NatLessThanWellFounded DEF R
  <2> QED BY <2>1, WFMin
<1>2. least \in Nat /\ least # 0 /\ least - 1 \in Nat
  OBVIOUS
<1>3. <<least - 1, least>> \in R
  BY <1>2 DEF OpToRel
<1>4. least - 1 \in N
  BY <1>1, <1>2, <1>3
<1> QED BY <1>2, <1>4

\* What the loop has kept after n rows.
Loop(out, rows, n) ==
    out = [m \in 0..n |-> IF m = 0 THEN <<>> ELSE Keep(out[m - 1], rows[m])]

\* The loop over n rows has a result, and it is what the definition says.
LEMMA LoopExists ==
    ASSUME NEW rows, NEW n \in Nat
    PROVE  \E out : Loop(out, rows, n)
<1> DEFINE N == {m \in Nat : \E out : Loop(out, rows, m)}
<1>1. 0 \in N
  <2>1. Loop([m \in 0..0 |-> <<>>], rows, 0)
    BY DEF Loop
  <2> QED BY <2>1
<1>2. ASSUME NEW m \in Nat, m \in N PROVE m + 1 \in N
  <2>1. PICK f : Loop(f, rows, m)
    BY <1>2
  <2> DEFINE g == [i \in 0..(m + 1) |-> IF i = m + 1 THEN Keep(f[m], rows[m + 1]) ELSE f[i]]
  <2>2. \A i \in 0..(m + 1) : g[i] = IF i = 0 THEN <<>> ELSE Keep(g[i - 1], rows[i])
    <3> TAKE i \in 0..(m + 1)
    <3>1. CASE i = m + 1
      BY <3>1
    <3>2. CASE i \in 0..m
      <4>1. f[i] = IF i = 0 THEN <<>> ELSE Keep(f[i - 1], rows[i])
        BY <2>1, <3>2 DEF Loop
      <4>2. i # 0 => g[i - 1] = f[i - 1]
        BY <3>2
      <4> QED BY <3>2, <4>1, <4>2
    <3> QED BY <3>1, <3>2
  <2>3. g = [i \in 0..(m + 1) |-> g[i]]
    OBVIOUS
  <2>4. Loop(g, rows, m + 1)
    <3> HIDE DEF g
    <3> QED BY <2>2, <2>3 DEF Loop
  <2> HIDE DEF g
  <2> QED BY <2>4
<1> HIDE DEF N
<1>3. n \in N
  BY <1>1, <1>2, SetInduction
<1> QED BY <1>3 DEF N

\* Distinct is what the loop has kept at its end.
LEMMA DistinctLoop ==
    ASSUME NEW rows, Len(rows) \in Nat
    PROVE  \E out : Loop(out, rows, Len(rows)) /\ Distinct(rows) = out[Len(rows)]
<1> DEFINE out == CHOOSE f : Loop(f, rows, Len(rows))
<1>1. Loop(out, rows, Len(rows))
  BY LoopExists
<1>2. Distinct(rows) = out[Len(rows)]
  BY DEF Distinct, Loop
<1> HIDE DEF out
<1> QED BY <1>1, <1>2

\* The addresses in a sequence of rows, and that none is there twice.
Keys(rows) == {KeyOf(rows[i]) : i \in DOMAIN rows}
Once(rows) == \A i, j \in DOMAIN rows : KeyOf(rows[i]) = KeyOf(rows[j]) => i = j

\* A turn of the loop adds the address of its row, unless it is there.
LEMMA KeepFacts ==
    ASSUME NEW out \in Seq(Subs), NEW s \in Subs, Once(out)
    PROVE  /\ Keep(out, s) \in Seq(Subs) /\ Once(Keep(out, s))
           /\ Keys(Keep(out, s)) = Keys(out) \cup {KeyOf(s)}
<1>1. CASE \E i \in DOMAIN out : KeyOf(out[i]) = KeyOf(s)
  BY <1>1 DEF Keep, Keys
<1>2. CASE ~ \E i \in DOMAIN out : KeyOf(out[i]) = KeyOf(s)
  <2> DEFINE more == Append(out, s)
  <2>1. Keep(out, s) = more
    BY <1>2 DEF Keep
  <2>2. /\ more \in Seq(Subs)
        /\ Len(out) \in Nat /\ Len(more) = Len(out) + 1
        /\ DOMAIN out = 1..Len(out) /\ DOMAIN more = 1..Len(more)
        /\ \A i \in 1..Len(out) : more[i] = out[i]
        /\ more[Len(out) + 1] = s
    BY AppendProperties, LenProperties
  <2> HIDE DEF more
  <2>3. \A i \in DOMAIN more : \/ i \in DOMAIN out /\ more[i] = out[i]
                               \/ i = Len(out) + 1 /\ more[i] = s
    BY <2>2
  <2>4. Once(more)
    BY <1>2, <2>3 DEF Once
  <2>5. Keys(more) = Keys(out) \cup {KeyOf(s)}
    <3>1. DOMAIN out \subseteq DOMAIN more /\ Len(out) + 1 \in DOMAIN more
      BY <2>2
    <3> QED BY <2>2, <2>3, <3>1 DEF Keys
  <2> QED BY <2>1, <2>2, <2>4, <2>5
<1> QED BY <1>1, <1>2

\* The list has every address of the rows, and each of them once.
LEMMA DistinctFacts ==
    ASSUME NEW n \in Nat, NEW rows \in [1..n -> Subs]
    PROVE  Keys(Distinct(rows)) = Keys(rows) /\ Once(Distinct(rows))
<1>1. rows \in Seq(Subs) /\ Len(rows) = n /\ DOMAIN rows = 1..n
  OBVIOUS
<1>2. PICK out : Loop(out, rows, n) /\ Distinct(rows) = out[n]
  BY <1>1, DistinctLoop
<1> DEFINE Upto(m) == {KeyOf(rows[i]) : i \in 1..m}
           Kept(m) == out[m] \in Seq(Subs) /\ Once(out[m]) /\ Keys(out[m]) = Upto(m)
           N == {m \in Nat : m <= n => Kept(m)}
<1>3. 0 \in N
  <2>1. out[0] = <<>>
    BY <1>2 DEF Loop
  <2>2. out[0] \in Seq(Subs) /\ DOMAIN out[0] = {} /\ 1..0 = {}
    BY <2>1
  <2>3. Once(out[0]) /\ Keys(out[0]) = {} /\ Upto(0) = {}
    BY <2>2 DEF Once, Keys
  <2> QED BY <2>2, <2>3
<1>4. ASSUME NEW m \in Nat, m \in N PROVE m + 1 \in N
  <2> SUFFICES ASSUME m + 1 <= n PROVE Kept(m + 1)
    OBVIOUS
  <2>1. Kept(m)
    BY <1>4
  <2>2. out[m + 1] = Keep(out[m], rows[m + 1])
    BY <1>2 DEF Loop
  <2>3. rows[m + 1] \in Subs
    OBVIOUS
  <2>4. Upto(m + 1) = Upto(m) \cup {KeyOf(rows[m + 1])}
    <3>1. 1..(m + 1) = (1..m) \cup {m + 1}
      OBVIOUS
    <3> QED BY <3>1
  <2> HIDE DEF Upto
  <2> QED BY <2>1, <2>2, <2>3, <2>4, KeepFacts
<1> HIDE DEF N
<1>5. n \in N
  BY <1>3, <1>4, SetInduction
<1>6. Kept(n)
  BY <1>5 DEF N
<1>7. Keys(rows) = Upto(n)
  BY <1>1 DEF Keys
<1> HIDE DEF Upto
<1> QED BY <1>2, <1>6, <1>7

\* An alert whose target is still as the check read it goes to every address
\* whose subscriber covers the target, to no other, and to each once, in
\* whatever order the query returns its rows.
THEOREM Addresses == Spec => []EachAddressOnce
<1>1. TypeOK => EachAddressOnce
  <2> SUFFICES ASSUME TypeOK, check # Null, tgt[check.target] = [group |-> check.group],
                      NEW to \in Recipients(check)
               PROVE  /\ Keys(to) = {KeyOf(s) : s \in {u \in Subs : /\ subs[u] # Null
                                                                   /\ subs[u].enabled
                                                                   /\ check.target \in Covers(u)}}
                      /\ Once(to)
    BY DEF EachAddressOnce, Keys, Once
  <2> DEFINE wanted == {s \in Subs : Wants(s, check)}
             n == Cardinality(wanted)
  <2>1. n \in Nat
    BY SubscribersAssumption, FS_Subset, FS_CardinalityType
  <2>2. PICK rows \in Bijection(1..n, wanted) : to = Distinct(rows)
    BY DEF Recipients, Queries
  <2>3. /\ rows \in [1..n -> wanted]
        /\ \A s \in wanted : \E i \in 1..n : rows[i] = s
    BY <2>2 DEF Bijection, Injection, Surjection
  <2>4. wanted = {u \in Subs : subs[u] # Null /\ subs[u].enabled /\ check.target \in Covers(u)}
    <3>1. /\ check.target \in Targets /\ check.target # Null /\ tgt[check.target] # Null
          /\ tgt[check.target].group = check.group
      BY SubscribersAssumption DEF TypeOK, Target
    <3> QED BY <3>1 DEF Wants, Covers
  <2> HIDE DEF wanted, n
  <2>5. rows \in [1..n -> Subs]
    BY <2>3 DEF wanted
  <2>6. Keys(rows) = {KeyOf(s) : s \in wanted}
    BY <2>3 DEF Keys
  <2> QED BY <2>1, <2>2, <2>4, <2>5, <2>6, DistinctFacts
<1> QED BY <1>1, Typing, PTL

-----------------------------------------------------------------------------
(* Probes.  "ok" is characterised exactly for each kind of probe; both     *)
(* properties follow from that.                                            *)

NumbersOf == {"expect_status", "interval_seconds", "timeout_seconds", "fail_threshold"}

Configured ==
    [host : STRING, check_type : P!CheckTypes, verify_tls : BOOLEAN,
     port : P!Ports \cup {None}, numbers : [NumbersOf -> Int]]

\* Ports stand behind their definition, the prover does not read the interval.
LEMMA PortsAreInts == P!Ports \subseteq Int /\ 0 \notin P!Ports
BY DEF P!Ports

\* Each number of the form has a default in its range.
LEMMA Fields ==
    /\ DOMAIN P!Numbers = NumbersOf
    /\ \A n \in NumbersOf :
          /\ P!Numbers[n][2] \in Int /\ P!Numbers[n][3] \in Int
          /\ P!Numbers[n][1] \in P!Numbers[n][2]..P!Numbers[n][3]
    /\ P!Numbers["timeout_seconds"][2] = 1
BY DEF P!Numbers, NumbersOf

\* What TypeOK says of the target.
InRange(t) ==
    /\ t.port \in P!Ports \/ (t.port = None /\ t.check_type # "tcp")
    /\ \A n \in NumbersOf : t.numbers[n] \in P!Numbers[n][2]..P!Numbers[n][3]

\* A form without errors is stored with numbers in their ranges.
LEMMA Stored ==
    ASSUME NEW f \in Forms, ~P!FormErrors(f)
    PROVE  P!Values(f) \in Configured /\ InRange(P!Values(f))
<1> DEFINE port == IF f.port = Blank THEN None ELSE f.port
           number == [n \in NumbersOf |-> P!PositiveInt(n, f.numbers[n])]
           v == [f EXCEPT !.port = port, !.numbers = number]
<1>1. f \in [host : STRING, check_type : STRING, verify_tls : BOOLEAN,
             port : Int \cup {Blank, Garbled},
             numbers : [NumbersOf -> Int \cup {Blank, Garbled}]]
  BY ProbesAssumption, Fields DEF P!ProbesConstants
<1>2. P!Values(f) = v
  BY Fields, <1>1 DEF P!Values
<1>3. \A n \in NumbersOf : number[n] \in P!Numbers[n][2]..P!Numbers[n][3]
  <2> TAKE n \in NumbersOf
  <2>1. P!PositiveInt(n, f.numbers[n]) # None
    BY Fields DEF P!FormErrors
  <2>2. P!PositiveInt(n, f.numbers[n]) \in P!Numbers[n][2]..P!Numbers[n][3]
    BY <2>1, Fields DEF P!PositiveInt
  <2> QED BY <2>2
<1>4. f.check_type \in P!CheckTypes
  BY DEF P!FormErrors
<1>5. port \in P!Ports \/ (port = None /\ f.check_type # "tcp")
  BY DEF P!FormErrors, P!PortError
<1>6. number \in [NumbersOf -> Int]
  BY <1>3, Fields
<1> HIDE DEF number, port
<1>7. v \in Configured /\ v.port = port /\ v.numbers = number /\ v.check_type = f.check_type
  BY <1>1, <1>4, <1>5, <1>6 DEF Configured
<1> HIDE DEF v
<1> QED BY <1>2, <1>3, <1>5, <1>7 DEF InRange

\* ping finds a host up that answers within the timeout, whatever the unit of
\* its option, the backstop and its exit code, unless it prints no TTL.
LEMMA IcmpOk ==
    ASSUME platform \in P!Platforms, NEW h, NEW timeout \in Nat \ {0},
           NEW w \in [is : STRING, after : Nat]
    PROVE  P!CheckIcmp(h, timeout, w) = "ok" <=>
              /\ w.is = "reply" /\ w.after <= timeout * 1000
              /\ ~(platform = "Windows" /\ P!IsIpv6(h))
<1> DEFINE p == P!Ping(h, P!PingOption(timeout), w)
<1>1. P!PingWaits(P!PingOption(timeout)) = timeout * 1000 /\ P!Backstop(timeout) > timeout * 1000
  BY DEF P!PingWaits, P!PingOption, P!Backstop, P!AtLeast, P!Platforms
<1>2. P!CheckIcmp(h, timeout, w) =
        CASE w.is = "missing" -> "no ping"
          [] w.is = "stuck" \/ p.at > P!Backstop(timeout) -> "killed"
          [] OTHER -> IF P!Answered(p) THEN "ok" ELSE "no reply"
  BY DEF P!CheckIcmp
<1>3. CASE w.is = "reply" /\ w.after <= timeout * 1000
  <2>1. p = [at |-> w.after, code |-> 0, ttl |-> ~(platform = "Windows" /\ P!IsIpv6(h))]
    BY <1>1, <1>3 DEF P!Ping
  <2> HIDE DEF p
  <2>2. ~(p.at > P!Backstop(timeout))
    <3>1. p.at = w.after /\ w.after \in Nat /\ P!Backstop(timeout) \in Int
      BY <2>1 DEF P!Backstop, P!AtLeast
    <3> QED BY <1>1, <1>3, <3>1
  <2>3. P!CheckIcmp(h, timeout, w) = IF P!Answered(p) THEN "ok" ELSE "no reply"
    BY <1>2, <1>3, <2>2
  <2>4. P!Answered(p) <=> ~(platform = "Windows" /\ P!IsIpv6(h))
    BY <2>1 DEF P!Answered
  <2> QED BY <1>3, <2>3, <2>4
<1>4. CASE ~(w.is = "reply" /\ w.after <= timeout * 1000)
  <2>1. \/ p = [at |-> 0, code |-> IF platform = "Windows" THEN 0 ELSE 1, ttl |-> FALSE]
        \/ p = [at |-> timeout * 1000, code |-> 1, ttl |-> FALSE]
    BY <1>1, <1>4 DEF P!Ping
  <2> HIDE DEF p
  <2>2. ~P!Answered(p)
    BY <2>1 DEF P!Answered
  <2> QED BY <1>2, <1>4, <2>2
<1> QED BY <1>3, <1>4

\* An HTTP check finds a service up that is reached on the configured port over
\* connections that are trusted, and whose last answer is the expected one.
LEMMA HttpOk ==
    ASSUME NEW t \in Configured, NEW w \in HttpWorlds
    PROVE  LET seen == IF w.hop = "none" THEN w.status ELSE w.hop_status
               https == t.port \in P!HttpsPorts
           IN  P!CheckHttp(t, w) = "ok" <=>
                 /\ w.port = P!ConfiguredPort(t)
                 /\ https => w.valid_cert \/ ~t.verify_tls
                 /\ w.hop = "https" => w.valid_cert \/ (https /\ ~t.verify_tls)
                 /\ seen = t.numbers.expect_status
                 /\ seen < 300 => w.body
<1> DEFINE seen == IF w.hop = "none" THEN w.status ELSE w.hop_status
           https == t.port \in P!HttpsPorts
           url == P!BuildHttpUrl(t.host, t.port)
           status == P!Urlopen(url, t.host, t.verify_tls, w)
           reached == /\ w.port = P!ConfiguredPort(t)
                      /\ https => w.valid_cert \/ ~t.verify_tls
                      /\ w.hop = "https" => w.valid_cert \/ (https /\ ~t.verify_tls)
<1>1. /\ w.port \in Nat /\ w.valid_cert \in BOOLEAN /\ w.body \in BOOLEAN
      /\ w.status \in Nat /\ w.hop \in {"none", "http", "https"} /\ w.hop_status \in Nat
      /\ seen \in Nat /\ None \notin Int
      /\ t.port \in P!Ports \cup {None} /\ t.verify_tls \in BOOLEAN
  BY ProbesAssumption DEF P!ProbesConstants, Configured
<1>2. P!PortOf(url) = P!ConfiguredPort(t) /\ P!Readable(url, t.host) /\ (url.scheme = "https" <=> https)
  BY <1>1 DEF P!PortOf, P!ConfiguredPort, P!Readable, P!BuildHttpUrl, P!HttpsPorts
<1> HIDE DEF url, https, seen
<1>3. status = IF reached THEN seen ELSE None
  BY <1>1, <1>2 DEF P!Urlopen, seen
<1>4. P!CheckHttp(t, w) = IF status = None \/ (status < 300 /\ ~w.body) THEN "no response"
                          ELSE IF status = t.numbers.expect_status THEN "ok" ELSE "status"
  BY DEF P!CheckHttp, url
<1> HIDE DEF status, reached
<1>5. P!CheckHttp(t, w) = "ok" <=> reached /\ seen = t.numbers.expect_status /\ (seen < 300 => w.body)
  <2>1. CASE reached
    <3>1. status = seen /\ status # None
      BY <1>1, <1>3, <2>1
    <3> QED BY <1>4, <2>1, <3>1
  <2>2. CASE ~reached
    BY <1>3, <1>4, <2>2
  <2> QED BY <2>1, <2>2
<1> QED BY <1>1, <1>5, Zenon DEF reached, seen, https

\* What is stored has come through the form, and verdicts mean what they say.
ProbeInv ==
    /\ platform \in P!Platforms
    /\ target # None => target \in Configured /\ InRange(target)
    /\ target = None => verdict = None
    /\ P!OkWasAnswered /\ P!AnsweredIsOk

\* What run_check concludes fits what the probe has met.
LEMMA ProbeStep ==
    ASSUME ProbeInv, P!Probe
    PROVE  P!OkWasAnswered' /\ P!AnsweredIsOk'
<1>1. /\ platform' = platform /\ target' = target
      /\ target \in Configured /\ InRange(target)
      /\ world' \in P!Worlds(target.check_type)
      /\ verdict' = P!RunCheck(target, world')
  BY DEF P!Probe, ProbeInv
<1>2. target.check_type \in {"icmp", "tcp", "http"} /\ None # "ok"
  BY ProbesAssumption, <1>1 DEF Configured, P!CheckTypes, P!ProbesConstants
<1>3. CASE target.check_type = "icmp"
  <2>1. target.numbers.timeout_seconds \in Nat \ {0}
    BY <1>1, Fields DEF InRange, Configured, NumbersOf
  <2>2. world' \in [is : STRING, after : Nat]
    BY ProbesAssumption, <1>1, <1>3 DEF P!Worlds, P!ProbesConstants
  <2>3. verdict' = P!CheckIcmp(target.host, target.numbers.timeout_seconds, world')
    BY <1>1, <1>3 DEF P!RunCheck
  <2>4. verdict' = "ok" <=>
          /\ world'.is = "reply" /\ world'.after <= target.numbers.timeout_seconds * 1000
          /\ ~(platform = "Windows" /\ P!IsIpv6(target.host))
    BY <2>1, <2>2, <2>3, IcmpOk DEF ProbeInv
  <2>5. world'.after \in Nat /\ target.numbers.timeout_seconds * 1000 \in Nat
    BY <2>1, <2>2
  <2> QED BY <1>1, <1>3, <2>4, <2>5 DEF P!OkWasAnswered, P!AnsweredIsOk, P!IsIpv6
<1>4. CASE target.check_type = "tcp"
  <2>1. verdict' = P!CheckTcp(target.port, world')
    <3>1. target.port # None
      BY ProbesAssumption, <1>1, <1>4, PortsAreInts DEF InRange, P!ProbesConstants
    <3> QED BY <1>1, <1>4, <3>1 DEF P!RunCheck
  <2> QED BY <1>1, <1>4, <2>1 DEF P!CheckTcp, P!OkWasAnswered, P!AnsweredIsOk
<1>5. CASE target.check_type = "http"
  <2> DEFINE seen == IF world'.hop = "none" THEN world'.status ELSE world'.hop_status
             https == target.port \in P!HttpsPorts
  <2>1. world' \in HttpWorlds
    BY <1>1, <1>5 DEF P!Worlds
  <2>2. verdict' = P!CheckHttp(target, world')
    BY <1>1, <1>5 DEF P!RunCheck
  <2>3. verdict' = "ok" <=>
          /\ world'.port = P!ConfiguredPort(target)
          /\ https => world'.valid_cert \/ ~target.verify_tls
          /\ world'.hop = "https" => world'.valid_cert \/ (https /\ ~target.verify_tls)
          /\ seen = target.numbers.expect_status
          /\ seen < 300 => world'.body
    BY <1>1, <2>1, <2>2, HttpOk
  <2>4. P!OkWasAnswered'
    BY <1>1, <1>5, <2>3 DEF P!OkWasAnswered, P!ComparedStatus, P!ConfiguredPort, P!HttpsPorts
  <2>5. P!AnsweredIsOk'
    BY <1>1, <1>5, <2>3 DEF P!AnsweredIsOk, P!AnswersAsExpected, P!ConfiguredPort, P!HttpsPorts
  <2> QED BY <2>4, <2>5
<1> QED BY <1>2, <1>3, <1>4, <1>5

LEMMA ProbesInvariance == ProbesSpec => []ProbeInv
<1>1. P!Init => ProbeInv
  BY ProbesAssumption DEF P!Init, ProbeInv, P!ProbesConstants, P!OkWasAnswered, P!AnsweredIsOk
<1>2. ProbeInv /\ [P!Next]_(P!vars) => ProbeInv'
  <2> SUFFICES ASSUME ProbeInv, [P!Next]_(P!vars) PROVE ProbeInv'
    OBVIOUS
  <2>1. CASE P!SaveTarget
    <3>1. PICK f \in Forms : ~P!FormErrors(f) /\ target' = P!Values(f)
      BY <2>1 DEF P!SaveTarget
    <3>2. target' \in Configured /\ InRange(target')
      BY <3>1, Stored
    <3>3. UNCHANGED <<platform, world, verdict>> /\ verdict = None /\ None # "ok"
      BY ProbesAssumption, <2>1 DEF P!SaveTarget, ProbeInv, P!ProbesConstants
    <3> QED BY <3>2, <3>3 DEF ProbeInv, P!OkWasAnswered, P!AnsweredIsOk, InRange
  <2>2. CASE P!Probe
    <3>1. UNCHANGED <<platform, target>> /\ target # None
      BY <2>2 DEF P!Probe
    <3> QED BY <2>2, <3>1, ProbeStep DEF ProbeInv, InRange
  <2>3. CASE P!DeleteTarget
    <3>1. UNCHANGED platform /\ target' = None /\ verdict' = None /\ None # "ok"
      BY ProbesAssumption, <2>3 DEF P!DeleteTarget, P!ProbesConstants
    <3> QED BY <3>1 DEF ProbeInv, P!OkWasAnswered, P!AnsweredIsOk
  <2>4. CASE UNCHANGED P!vars
    BY <2>4 DEF P!vars, ProbeInv, InRange, P!OkWasAnswered, P!AnsweredIsOk,
                P!ComparedStatus, P!ConfiguredPort, P!AnswersAsExpected
  <2> QED BY <2>1, <2>2, <2>3, <2>4 DEF P!Next
<1> QED BY <1>1, <1>2, PTL DEF ProbesSpec, P!Spec

\* Every stored number is in the range that the form promises, and no TCP check
\* is without a port, whatever was typed.
THEOREM Ranges == ProbesSpec => []StoredInRange
<1>1. ProbeInv => StoredInRange
  BY Fields DEF StoredInRange, ProbeInv, P!TypeOK, InRange, Configured
<1> QED BY <1>1, ProbesInvariance, PTL

\* A ping is ok only if the host replied within the timeout; an HTTP check only
\* if something answered on the configured port, behind a certificate to be
\* trusted, and the status compared, the host's own or, after a redirect, that
\* of the page it led to, is the expected one.
THEOREM Answers == ProbesSpec => []OkWasAnswered
<1>1. ProbeInv => OkWasAnswered
  BY DEF OkWasAnswered, ProbeInv
<1> QED BY <1>1, ProbesInvariance, PTL

\* A host that answers as configured is up, but for IPv6 on Windows and for
\* endpoints that redirect.
THEOREM Ups == ProbesSpec => []AnsweredIsOk
<1>1. ProbeInv => AnsweredIsOk
  BY DEF AnsweredIsOk, ProbeInv
<1> QED BY <1>1, ProbesInvariance, PTL

=============================================================================
