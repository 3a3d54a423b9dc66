--------------------------- MODULE SchedulerProofs ---------------------------
(***************************************************************************)
(* Proofs about Scheduler: the claims in _inflight are exact, for every    *)
(* number of targets, pool threads and request threads.                    *)
(***************************************************************************)
EXTENDS Scheduler, TLAPS

\* A thread has a job while it is not idle, a target unless it runs an update.
ThreadInv ==
    \A c \in Threads :
        /\ pc[c] = "idle" <=> job[c] = Null
        /\ pc[c] = "update" <=> job[c] = UpdateJob

Inv == TypeOK /\ ThreadInv /\ ClaimsExact

LEMMA TypeInit == Init => TypeOK
BY SchedulerAssumption DEF Init, TypeOK

LEMMA TypeStep == TypeOK /\ ThreadInv /\ [Next]_vars => TypeOK'
<1> SUFFICES ASSUME TypeOK, ThreadInv, [Next]_vars
             PROVE  TypeOK'
  OBVIOUS
<1> USE SchedulerAssumption DEF TypeOK, tables, loopVars, threadVars
<1>0. faults' \in 0..MaxFaults
  BY DEF Next, vars
<1>1. CASE List
  BY <1>0, <1>1 DEF List
<1>2. ASSUME NEW t \in Targets, Submit(t)
      PROVE  TypeOK'
  BY <1>0, <1>2 DEF Submit, Jobs
<1>3. ASSUME NEW t \in Targets, Skip(t)
      PROVE  TypeOK'
  BY <1>0, <1>3 DEF Skip
<1>4. CASE Begin \/ BeginFails \/ ClaimsDone \/ NoHousekeeping \/ Wake
  BY <1>0, <1>4 DEF Begin, BeginFails, ClaimsDone, NoHousekeeping, Wake
<1>5. CASE Housekeep
  BY <1>0, <1>5 DEF Housekeep, Jobs
<1>6. CASE LoopFails
  BY <1>0, <1>6 DEF LoopFails
<1>7. ASSUME NEW w \in Workers, Take(w)
      PROVE  TypeOK'
  <2>1. Head(queue) \in Jobs /\ Tail(queue) \in Seq(Jobs)
    BY <1>0, <1>7 DEF Take
  <2> QED BY <1>0, <1>7, <2>1 DEF Take, Goto, Threads
<1>8. ASSUME NEW w \in Workers, UpdateDone(w)
      PROVE  TypeOK'
  BY <1>0, <1>8 DEF UpdateDone, Goto, Threads
<1>9. ASSUME NEW r \in Requesters, NEW t \in Targets, CheckNow(r, t)
      PROVE  TypeOK'
  BY <1>0, <1>9 DEF CheckNow, Goto, Threads, Jobs
<1>10. ASSUME NEW c \in Threads, Start(c) \/ CheckFails(c)
       PROVE  TypeOK'
  BY <1>0, <1>10 DEF Start, CheckFails, Goto
<1>11. ASSUME NEW c \in Threads, Apply(c)
       PROVE  TypeOK'
  <2>1. age' \in [Targets -> 0..MaxAge \cup {Null}]
    <3> DEFINE Ages == 0..MaxAge \cup {Null}
    <3>1. 0 \in Ages /\ age \in [Targets -> Ages]
      OBVIOUS
    <3> HIDE DEF Ages
    <3>2. [age EXCEPT ![job[c]] = 0] \in [Targets -> Ages]
      BY <3>1
    <3>3. age' \in [Targets -> Ages]
      BY <1>11, <3>1, <3>2 DEF Apply
    <3> QED BY <3>3 DEF Ages
  <2>2. pc' \in [Threads -> {"idle", "start", "apply", "release", "update"}]
    BY <1>0, <1>11 DEF Apply, Goto
  <2> QED BY <1>0, <1>11, <2>1, <2>2 DEF Apply
<1>12. ASSUME NEW c \in Threads, Release(c)
       PROVE  TypeOK'
  BY <1>0, <1>12 DEF Release, Goto
<1>13. ASSUME NEW t \in Targets, NEW new \in Target, Create(t, new) \/ Edit(t, new)
       PROVE  TypeOK'
  BY <1>0, <1>13 DEF Create, Edit
<1>14. ASSUME NEW t \in Targets, Delete(t)
       PROVE  TypeOK'
  BY <1>0, <1>14 DEF Delete
<1>15. CASE Tick
  <2>1. \A n \in Nat : \A a \in 0..n : Older(a, n) \in 0..n
    BY DEF Older
  <2>2. age' \in [Targets -> 0..MaxAge \cup {Null}] /\ since' \in 0..PruneEvery
    BY <1>15, <2>1 DEF Tick
  <2> QED BY <1>0, <1>15, <2>2 DEF Tick
<1>16. CASE Crash
  BY <1>0, <1>16 DEF Crash
<1>17. CASE UNCHANGED vars
  BY <1>17 DEF vars
<1> QED
  BY <1>1, <1>2, <1>3, <1>4, <1>5, <1>6, <1>7, <1>8, <1>9, <1>10, <1>11, <1>12, <1>13,
     <1>14, <1>15, <1>16, <1>17
     DEF Next, Step, Fault, LoopStep, WorkerStep, CheckStep, AdminStep, Threads

\* The steps that touch neither the queue nor a job nor a claim.
LEMMA Elsewhere ==
    ASSUME Inv, UNCHANGED <<queue, job, inflight>>,
           \A c \in Threads : \/ pc'[c] = pc[c]
                              \/ pc[c] \notin {"idle", "update"}
                                 /\ pc'[c] \notin {"idle", "update"}
    PROVE  ThreadInv' /\ ClaimsExact'
BY DEF Inv, ThreadInv, ClaimsExact

LEMMA ClaimStep == Inv /\ [Next]_vars => ThreadInv' /\ ClaimsExact'
<1> SUFFICES ASSUME Inv, [Next]_vars
             PROVE  ThreadInv' /\ ClaimsExact'
  OBVIOUS
<1>0. /\ TypeOK /\ ThreadInv /\ ClaimsExact
      /\ queue \in Seq(Jobs) /\ pc \in [Threads -> {"idle", "start", "apply", "release", "update"}]
      /\ job \in [Threads -> Jobs \cup {Null}]
      /\ inflight \subseteq Targets
  BY DEF Inv, TypeOK
<1> USE SchedulerAssumption DEF tables, loopVars, threadVars, Jobs
<1>1. CASE Begin \/ BeginFails \/ List \/ ClaimsDone \/ NoHousekeeping \/ Wake \/ LoopFails \/ AdminStep \/ Tick
           \/ (\E t \in Targets : Skip(t)) \/ UNCHANGED vars
  <2>1. UNCHANGED <<queue, job, inflight, pc>>
    BY <1>1 DEF Begin, BeginFails, List, ClaimsDone, NoHousekeeping, Wake, LoopFails,
                AdminStep, Create, Edit, Delete, Tick, Skip, vars
  <2> QED BY <2>1, Elsewhere
<1>2. ASSUME NEW c \in Threads, Start(c) \/ Apply(c) \/ CheckFails(c)
      PROVE  ThreadInv' /\ ClaimsExact'
  <2>1. /\ UNCHANGED <<queue, job, inflight>>
        /\ pc[c] \notin {"idle", "update"} /\ pc'[c] \notin {"idle", "update"}
        /\ \A d \in Threads : d # c => pc'[d] = pc[d]
    BY <1>0, <1>2 DEF Start, Apply, CheckFails, Goto
  <2> QED BY <2>1, Elsewhere
<1>3. ASSUME NEW t \in Targets, Submit(t)
      PROVE  ThreadInv' /\ ClaimsExact'
  <2>1. UNCHANGED <<pc, job>> /\ inflight' = inflight \cup {t} /\ t \notin inflight
    BY <1>3 DEF Submit
  <2>2. /\ DOMAIN queue = 1..Len(queue) /\ DOMAIN queue' = 1..(Len(queue) + 1)
        /\ \A i \in DOMAIN queue : queue'[i] = queue[i]
        /\ queue'[Len(queue) + 1] = t /\ Len(queue) \in Nat
    BY <1>0, <1>3 DEF Submit
  <2>3. /\ \A i \in DOMAIN queue : queue[i] # t
        /\ \A c \in Threads : job[c] # t
    BY <1>0, <2>1 DEF ClaimsExact
  <2>4. ThreadInv'
    BY <1>0, <2>1 DEF ThreadInv
  <2>5. \A u \in Targets :
           u \in inflight' <=> \/ \E i \in DOMAIN queue' : queue'[i] = u
                               \/ \E c \in Threads : job'[c] = u
    BY <1>0, <2>1, <2>2 DEF ClaimsExact
  <2> QED BY <1>0, <2>1, <2>2, <2>3, <2>4, <2>5 DEF ClaimsExact
<1>4. CASE Housekeep
  <2>1. UNCHANGED <<pc, job, inflight>>
    BY <1>4 DEF Housekeep
  <2>2. /\ DOMAIN queue = 1..Len(queue) /\ DOMAIN queue' = 1..(Len(queue) + 1)
        /\ \A i \in DOMAIN queue : queue'[i] = queue[i]
        /\ queue'[Len(queue) + 1] = UpdateJob /\ Len(queue) \in Nat
    BY <1>0, <1>4 DEF Housekeep
  <2>3. ThreadInv'
    BY <1>0, <2>1 DEF ThreadInv
  <2>4. \A u \in Targets :
           u \in inflight' <=> \/ \E i \in DOMAIN queue' : queue'[i] = u
                               \/ \E c \in Threads : job'[c] = u
    BY <1>0, <2>1, <2>2 DEF ClaimsExact
  <2> QED BY <1>0, <2>1, <2>2, <2>3, <2>4 DEF ClaimsExact
<1>5. ASSUME NEW w \in Workers, Take(w)
      PROVE  ThreadInv' /\ ClaimsExact'
  <2> DEFINE j == queue[1]
  <2>1. /\ w \in Threads /\ pc[w] = "idle" /\ job[w] = Null
        /\ 1 \in DOMAIN queue /\ j \in Jobs
        /\ DOMAIN queue = 1..Len(queue) /\ Len(queue) \in Nat /\ Len(queue) > 0
    BY <1>0, <1>5 DEF Take, Threads, ThreadInv
  <2>2. /\ DOMAIN queue' = 1..(Len(queue) - 1)
        /\ \A i \in DOMAIN queue' : i + 1 \in DOMAIN queue /\ queue'[i] = queue[i + 1]
    BY <1>0, <1>5, <2>1 DEF Take
  <2>3. /\ job'[w] = j /\ (pc'[w] = "update" <=> j = UpdateJob) /\ pc'[w] # "idle"
        /\ \A d \in Threads : d # w => job'[d] = job[d] /\ pc'[d] = pc[d]
        /\ inflight' = inflight
    BY <1>0, <1>5, <2>1 DEF Take, Goto
  <2>4. ThreadInv'
    BY <1>0, <2>1, <2>3 DEF ThreadInv
  <2>5. \A i \in DOMAIN queue' : queue'[i] = j => j = UpdateJob
    BY <1>0, <2>1, <2>2 DEF ClaimsExact
  <2>6. \A c \in Threads : c # w /\ job[c] = j => j = UpdateJob
    BY <1>0, <2>1 DEF ClaimsExact
  <2>7. \A i, k \in DOMAIN queue' : queue'[i] = queue'[k] /\ i # k => queue'[i] = UpdateJob
    BY <1>0, <2>2 DEF ClaimsExact
  <2>8. \A c, d \in Threads : job'[c] = job'[d] /\ c # d => job'[c] \in {UpdateJob, Null}
    BY <1>0, <2>3, <2>6 DEF ClaimsExact
  <2>9. \A i \in DOMAIN queue', c \in Threads : queue'[i] = job'[c] => job'[c] = UpdateJob
    BY <1>0, <2>2, <2>3, <2>5 DEF ClaimsExact
  <2>10. ASSUME NEW u \in Targets
         PROVE  u \in inflight' <=> \/ \E i \in DOMAIN queue' : queue'[i] = u
                                    \/ \E c \in Threads : job'[c] = u
    <3>1. \A i \in DOMAIN queue : i = 1 \/ (i - 1 \in DOMAIN queue' /\ queue'[i - 1] = queue[i])
      BY <2>1, <2>2
    <3>2. (\E i \in DOMAIN queue : queue[i] = u)
             <=> (u = j \/ \E i \in DOMAIN queue' : queue'[i] = u)
      BY <2>1, <2>2, <3>1
    <3>3. (\E c \in Threads : job'[c] = u) <=> (u = j \/ \E c \in Threads : job[c] = u)
      BY <2>1, <2>3
    <3> QED BY <1>0, <2>3, <3>2, <3>3 DEF ClaimsExact
  <2> QED BY <2>4, <2>7, <2>8, <2>9, <2>10 DEF ClaimsExact
<1>6. ASSUME NEW w \in Workers, UpdateDone(w)
      PROVE  ThreadInv' /\ ClaimsExact'
  <2>1. /\ w \in Threads /\ job[w] = UpdateJob
        /\ job'[w] = Null /\ pc'[w] = "idle"
        /\ \A d \in Threads : d # w => job'[d] = job[d] /\ pc'[d] = pc[d]
        /\ UNCHANGED <<queue, inflight>>
    BY <1>0, <1>6 DEF UpdateDone, Goto, Threads, ThreadInv
  <2>2. ThreadInv'
    BY <1>0, <2>1 DEF ThreadInv
  <2>3. \A i \in DOMAIN queue : queue[i] # Null
    BY <1>0
  <2> QED BY <1>0, <2>1, <2>2, <2>3 DEF ClaimsExact
<1>7. ASSUME NEW r \in Requesters, NEW t \in Targets, CheckNow(r, t)
      PROVE  ThreadInv' /\ ClaimsExact'
  <2>1. /\ r \in Threads /\ job[r] = Null /\ t \notin inflight
        /\ job'[r] = t /\ pc'[r] = "start"
        /\ \A d \in Threads : d # r => job'[d] = job[d] /\ pc'[d] = pc[d]
        /\ inflight' = inflight \cup {t} /\ queue' = queue
    BY <1>0, <1>7 DEF CheckNow, Goto, Threads, ThreadInv
  <2>2. /\ \A i \in DOMAIN queue : queue[i] # t
        /\ \A c \in Threads : job[c] # t
    BY <1>0, <2>1 DEF ClaimsExact
  <2>3. ThreadInv'
    BY <1>0, <2>1 DEF ThreadInv
  <2> QED BY <1>0, <2>1, <2>2, <2>3 DEF ClaimsExact
<1>8. ASSUME NEW c \in Threads, Release(c)
      PROVE  ThreadInv' /\ ClaimsExact'
  <2>1. /\ job[c] \in Targets
        /\ job'[c] = Null /\ pc'[c] = "idle"
        /\ \A d \in Threads : d # c => job'[d] = job[d] /\ pc'[d] = pc[d]
        /\ inflight' = inflight \ {job[c]} /\ queue' = queue
    BY <1>0, <1>8 DEF Release, Goto, ThreadInv
  <2>2. ThreadInv'
    BY <1>0, <2>1 DEF ThreadInv
  <2>3. \A i \in DOMAIN queue : queue[i] # Null
    BY <1>0
  <2>4. /\ \A i \in DOMAIN queue : queue[i] # job[c]
        /\ \A d \in Threads : d # c => job[d] # job[c]
    BY <1>0, <2>1 DEF ClaimsExact
  <2> QED BY <1>0, <2>1, <2>2, <2>3, <2>4 DEF ClaimsExact
<1>9. CASE Crash
  <2>1. /\ inflight' = {} /\ queue' = <<>>
        /\ \A c \in Threads : pc'[c] = "idle" /\ job'[c] = Null
    BY <1>9 DEF Crash
  <2>2. DOMAIN queue' = {}
    BY <2>1
  <2>3. ThreadInv'
    BY <2>1 DEF ThreadInv
  <2> QED BY <2>1, <2>2, <2>3 DEF ClaimsExact
<1> QED
  BY <1>1, <1>2, <1>3, <1>4, <1>5, <1>6, <1>7, <1>8, <1>9
     DEF Next, Step, Fault, LoopStep, WorkerStep, CheckStep, Threads

LEMMA Inductive == Spec => []Inv
<1>1. Init => Inv
  <2> SUFFICES ASSUME Init PROVE Inv
    OBVIOUS
  <2>1. DOMAIN queue = {}
    BY DEF Init
  <2>2. ThreadInv
    BY SchedulerAssumption DEF Init, ThreadInv
  <2>3. ClaimsExact
    BY <2>1, SchedulerAssumption DEF Init, ClaimsExact
  <2> QED BY <2>2, <2>3, TypeInit DEF Inv
<1>2. Inv /\ [Next]_vars => Inv'
  BY TypeStep, ClaimStep DEF Inv
<1> QED BY <1>1, <1>2, PTL DEF Spec

\* Tables, threads and the loop hold what they should, and the age since the
\* last housekeeping never leaves its range.
THEOREM Typing == Spec => []TypeOK
<1>1. Inv => TypeOK
  BY DEF Inv
<1> QED BY <1>1, Inductive, PTL

\* A target is claimed exactly while one check of it is queued or running:
\* the loop's stale list never doubles a check, and no claim is lost or kept.
THEOREM Claims == Spec => []ClaimsExact
<1>1. Inv => ClaimsExact
  BY DEF Inv
<1> QED BY <1>1, Inductive, PTL

-----------------------------------------------------------------------------
(* The queue, the threads and _inflight implement the claim protocol. *)

Checking(t) == \E c \in Threads : job[c] = t
Waiting(t) == \E i \in DOMAIN queue : queue[i] = t

\* What a target is at, in the protocol's words.
Stages == [t \in Targets |-> IF Checking(t) THEN "checking"
                             ELSE IF Waiting(t) THEN "queued" ELSE "free"]

Protocol == INSTANCE ClaimProtocol WITH stage <- Stages

LEMMA SameStages ==
    ASSUME \A u \in Targets : (Checking(u)' <=> Checking(u)) /\ (Waiting(u)' <=> Waiting(u))
    PROVE  UNCHANGED Stages
BY DEF Stages

LEMMA Moved ==
    ASSUME NEW t \in Targets,
           \A u \in Targets : u # t => /\ Checking(u)' <=> Checking(u)
                                       /\ Waiting(u)' <=> Waiting(u)
    PROVE  /\ Checking(t)' => Stages' = [Stages EXCEPT ![t] = "checking"]
           /\ ~Checking(t)' /\ Waiting(t)' => Stages' = [Stages EXCEPT ![t] = "queued"]
           /\ ~Checking(t)' /\ ~Waiting(t)' => Stages' = [Stages EXCEPT ![t] = "free"]
BY DEF Stages

\* Where the claims say a target is.
LEMMA Where ==
    ASSUME Inv, NEW t \in Targets
    PROVE  /\ Stages[t] = "free" <=> t \notin inflight
           /\ Stages[t] = "checking" <=> Checking(t)
           /\ Checking(t) => ~Waiting(t)
           /\ Waiting(t) => Stages[t] = "queued"
<1>1. Checking(t) => ~Waiting(t)
  BY SchedulerAssumption DEF Inv, ClaimsExact, Checking, Waiting
<1>2. t \in inflight <=> Waiting(t) \/ Checking(t)
  BY DEF Inv, ClaimsExact, Checking, Waiting
<1> QED BY <1>1, <1>2 DEF Stages

LEMMA ProtocolStep == Inv /\ Inv' /\ [Next]_vars => [Protocol!Next]_Stages
<1> SUFFICES ASSUME Inv, Inv', [Next]_vars
             PROVE  [Protocol!Next]_Stages
  OBVIOUS
<1> USE DEF Threads
<1>0. /\ TypeOK /\ ThreadInv /\ ClaimsExact
      /\ queue \in Seq(Jobs) /\ pc \in [Threads -> {"idle", "start", "apply", "release", "update"}]
      /\ job \in [Threads -> Jobs \cup {Null}]
      /\ UpdateJob \notin Targets /\ Null \notin Targets
  BY SchedulerAssumption DEF Inv, TypeOK
<1>1. CASE UNCHANGED <<queue, job>>
  BY <1>1, SameStages DEF Checking, Waiting
<1>2. ASSUME NEW t \in Targets, Submit(t)
      PROVE  Protocol!Submit(t)
  <2>1. UNCHANGED job /\ t \notin inflight
    BY <1>2 DEF Submit, threadVars
  <2>2. /\ DOMAIN queue = 1..Len(queue) /\ DOMAIN queue' = 1..(Len(queue) + 1)
        /\ \A i \in DOMAIN queue : queue'[i] = queue[i]
        /\ queue'[Len(queue) + 1] = t /\ Len(queue) \in Nat
    BY <1>0, <1>2 DEF Submit, Jobs
  <2>3. Stages[t] = "free" /\ ~Checking(t)
    BY <2>1, Where
  <2>4. \A u \in Targets : Checking(u)' <=> Checking(u)
    BY <2>1 DEF Checking
  <2>5. Waiting(t)' /\ \A u \in Targets : u # t => (Waiting(u)' <=> Waiting(u))
    BY <2>2 DEF Waiting
  <2>6. Stages' = [Stages EXCEPT ![t] = "queued"]
    BY <2>3, <2>4, <2>5, Moved
  <2> QED BY <2>3, <2>6 DEF Protocol!Submit, Protocol!Move
<1>3. CASE Housekeep
  <2>1. UNCHANGED job
    BY <1>3 DEF Housekeep, threadVars
  <2>2. /\ DOMAIN queue = 1..Len(queue) /\ DOMAIN queue' = 1..(Len(queue) + 1)
        /\ \A i \in DOMAIN queue : queue'[i] = queue[i]
        /\ queue'[Len(queue) + 1] = UpdateJob /\ Len(queue) \in Nat
    BY <1>0, <1>3 DEF Housekeep, Jobs
  <2>3. \A u \in Targets : (Checking(u)' <=> Checking(u)) /\ (Waiting(u)' <=> Waiting(u))
    BY <1>0, <2>1, <2>2 DEF Checking, Waiting
  <2> QED BY <2>3, SameStages
<1>4. ASSUME NEW w \in Workers, Take(w)
      PROVE  \/ \E t \in Targets : Protocol!Take(t)
             \/ UNCHANGED Stages
  <2> DEFINE j == queue[1]
  <2>1. /\ job[w] = Null
        /\ 1 \in DOMAIN queue /\ j \in Jobs
        /\ DOMAIN queue = 1..Len(queue) /\ Len(queue) \in Nat /\ Len(queue) > 0
    BY <1>0, <1>4 DEF Take, ThreadInv
  <2>2. /\ DOMAIN queue' = 1..(Len(queue) - 1)
        /\ \A i \in DOMAIN queue' : i + 1 \in DOMAIN queue /\ queue'[i] = queue[i + 1]
    BY <1>0, <1>4, <2>1 DEF Take
  <2>3. /\ job'[w] = j
        /\ \A d \in Threads : d # w => job'[d] = job[d]
    BY <1>0, <1>4, <2>1 DEF Take
  <2>4. \A i \in DOMAIN queue : i = 1 \/ (i - 1 \in DOMAIN queue' /\ queue'[i - 1] = queue[i])
    BY <2>1, <2>2
  <2>5. \A u \in Targets : u # j => /\ Checking(u)' <=> Checking(u)
                                    /\ Waiting(u)' <=> Waiting(u)
    <3>1. \A u \in Targets : u # j => (Checking(u)' <=> Checking(u))
      BY <1>0, <2>1, <2>3 DEF Checking
    <3>2. \A u \in Targets : u # j => (Waiting(u)' <=> Waiting(u))
      BY <2>2, <2>4 DEF Waiting
    <3> QED BY <3>1, <3>2
  <2>6. CASE j = UpdateJob
    BY <1>0, <2>5, <2>6, SameStages
  <2>7. ASSUME NEW t \in Targets, t = j
        PROVE  Protocol!Take(t)
    <3>1. Waiting(t)
      BY <2>1, <2>7 DEF Waiting
    <3>2. Stages[t] = "queued"
      BY <3>1, Where
    <3>3. Checking(t)'
      BY <2>3, <2>7 DEF Checking
    <3>4. Stages' = [Stages EXCEPT ![t] = "checking"]
      BY <2>5, <2>7, <3>3, Moved
    <3> QED BY <3>2, <3>4 DEF Protocol!Take, Protocol!Move
  <2> QED BY <2>1, <2>6, <2>7 DEF Jobs
<1>5. ASSUME NEW w \in Workers, UpdateDone(w)
      PROVE  UNCHANGED Stages
  <2>1. /\ job[w] = UpdateJob /\ job'[w] = Null
        /\ \A d \in Threads : d # w => job'[d] = job[d]
        /\ UNCHANGED queue
    BY <1>0, <1>5 DEF UpdateDone, ThreadInv
  <2> QED BY <1>0, <2>1, SameStages DEF Checking, Waiting
<1>6. ASSUME NEW r \in Requesters, NEW t \in Targets, CheckNow(r, t)
      PROVE  Protocol!Begin(t)
  <2>1. /\ job[r] = Null /\ t \notin inflight
        /\ job'[r] = t
        /\ \A d \in Threads : d # r => job'[d] = job[d]
        /\ UNCHANGED queue
    BY <1>0, <1>6 DEF CheckNow, ThreadInv
  <2>2. Stages[t] = "free"
    BY <2>1, Where
  <2>3. /\ Checking(t)'
        /\ \A u \in Targets : u # t => /\ Checking(u)' <=> Checking(u)
                                       /\ Waiting(u)' <=> Waiting(u)
    BY <1>0, <2>1 DEF Checking, Waiting
  <2>4. Stages' = [Stages EXCEPT ![t] = "checking"]
    BY <2>3, Moved
  <2> QED BY <2>2, <2>4 DEF Protocol!Begin, Protocol!Move
<1>7. ASSUME NEW c \in Threads, Release(c)
      PROVE  \E t \in Targets : Protocol!End(t)
  <2>0. PICK t \in Targets : t = job[c]
    BY <1>0, <1>7 DEF Release, ThreadInv, Jobs
  <2>1. /\ job'[c] = Null
        /\ \A d \in Threads : d # c => job'[d] = job[d]
        /\ UNCHANGED queue
    BY <1>0, <1>7 DEF Release
  <2>2. Checking(t) /\ Stages[t] = "checking" /\ ~Waiting(t)
    BY <2>0, Where DEF Checking
  <2>3. \A d \in Threads : d # c => job[d] # t
    BY <1>0, <2>0 DEF ClaimsExact
  <2>4. /\ ~Checking(t)' /\ ~Waiting(t)'
        /\ \A u \in Targets : u # t => /\ Checking(u)' <=> Checking(u)
                                       /\ Waiting(u)' <=> Waiting(u)
    BY <1>0, <2>0, <2>1, <2>2, <2>3 DEF Checking, Waiting
  <2>5. Stages' = [Stages EXCEPT ![t] = "free"]
    BY <2>4, Moved
  <2> QED BY <2>2, <2>5 DEF Protocol!End, Protocol!Move
<1>8. CASE Crash
  <2>1. inflight' = {}
    BY <1>8 DEF Crash
  <2>2. \A u \in Targets : ~Checking(u)' /\ ~Waiting(u)'
    BY <2>1 DEF Inv, ClaimsExact, Checking, Waiting
  <2> QED BY <2>2 DEF Stages, Protocol!Restart, Protocol!Next
<1> QED
  <2>1. CASE \/ Begin \/ BeginFails \/ List \/ ClaimsDone \/ NoHousekeeping \/ Wake
             \/ LoopFails \/ AdminStep \/ Tick
             \/ (\E t \in Targets : Skip(t)) \/ UNCHANGED vars
             \/ (\E c \in Threads : Start(c) \/ Apply(c) \/ CheckFails(c))
    <3>1. UNCHANGED <<queue, job>>
      BY <2>1 DEF Begin, BeginFails, List, ClaimsDone, NoHousekeeping, Wake, LoopFails,
                  AdminStep, Create, Edit, Delete, Tick, Skip, Start, Apply, CheckFails,
                  vars, threadVars
    <3> QED BY <1>1, <3>1
  <2> QED
    BY <1>2, <1>3, <1>4, <1>5, <1>6, <1>7, <1>8, <2>1
       DEF Next, Step, Fault, LoopStep, WorkerStep, CheckStep, Protocol!Next

\* The loop with its stale list, the queue of the pool, its threads, the
\* requests and the crashes implement the claim protocol: every step they make
\* is one step of it for one target, or none.
THEOREM Implements == Spec => Protocol!Spec
<1>1. Init => Protocol!Init
  <2> SUFFICES ASSUME Init PROVE Protocol!Init
    OBVIOUS
  <2>1. DOMAIN queue = {}
    BY DEF Init
  <2>2. \A u \in Targets : ~Checking(u) /\ ~Waiting(u)
    BY <2>1, SchedulerAssumption DEF Init, Checking, Waiting
  <2> QED BY <2>2 DEF Stages, Protocol!Init
<1> QED BY <1>1, ProtocolStep, Inductive, PTL DEF Spec, Protocol!Spec

=============================================================================
