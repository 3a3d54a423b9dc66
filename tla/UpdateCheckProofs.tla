-------------------------- MODULE UpdateCheckProofs --------------------------
(***************************************************************************)
(* The cached result is fresh and the footer tells what it says, for any   *)
(* request threads, tags and lengths of the intervals.                     *)
(***************************************************************************)
EXTENDS UpdateCheck, TLAPS

\* A version is stored only when the remote has answered.
HasAnswer == \A c \in Threads : pc[c] = "latest" => loc[c].answer # Null

\* No time passes while a result is being written.
JustAsked == \A c \in Threads : pc[c] \in {"status", "reason", "latest"} => at = 0

\* What maybe_check has read may since have been written anew.
ReadRight ==
    pc[Monitor] = "readStatus" => at = loc[Monitor].seen \/ at = 0

\* No time passes during a housekeeping.
BusyNow == Busy => since = 0

\* The time since a housekeeping last got through, or the most it can be: one
\* under way counts as lost until it is through.
Elapsed == since + skipped + (IF Busy THEN PruneEvery ELSE 0)

\* Younger than that housekeeping, or young enough at the time.
Fresh(elapsed) ==
    /\ at # Null
    /\ \/ at <= elapsed
       \/ /\ at < Interval + elapsed
          /\ status = "failed" => at < Retry + elapsed

\* A housekeeping that got through with the switch on left a fresh result.
Renewed == on # Null /\ on > Elapsed => Fresh(Elapsed)

Inv == TypeOK /\ HasAnswer /\ JustAsked /\ ReadRight /\ BusyNow /\ Renewed

\* The bounds are numbers, and Null is none.
LEMMA Bounds ==
    /\ Limit \in Nat /\ Retry \in Nat /\ Interval \in Nat /\ PruneEvery \in Nat
    /\ MaxSkipped \in Nat /\ LongOn \in Nat /\ LongOn = PruneEvery + MaxSkipped
    /\ Limit = Interval + LongOn /\ Null \notin Nat
    /\ Retry <= Interval
  BY UpdateCheckAssumption DEF Limit, LongOn

\* The threads have labels and locals.
LEMMA Kinds ==
    /\ Monitor \in Threads /\ Requesters \subseteq Threads
    /\ NoLocals \in Locals
    /\ \A l \in Locals, a \in Tags \cup {NoTag, Null} : [l EXCEPT !.answer = a] \in Locals
    /\ \A l \in Locals, a \in 0..Limit \cup {Null} : [l EXCEPT !.seen = a] \in Locals
  BY DEF Threads, NoLocals, Locals

\* The ages alone, for steps of time.
LEMMA Ages ==
    TypeOK => /\ at \in 0..Limit \cup {Null}
              /\ since \in 0..PruneEvery
              /\ on \in 0..LongOn \cup {Null}
              /\ skipped \in 0..MaxSkipped
  BY DEF TypeOK

\* The time lost stays within its bound.
LEMMA SkippedStep == TypeOK /\ [Next]_vars => skipped' \in 0..MaxSkipped
<1> SUFFICES ASSUME TypeOK, [Next]_vars PROVE skipped' \in 0..MaxSkipped
    OBVIOUS
<1>1. skipped \in 0..MaxSkipped /\ PruneEvery \in Nat /\ MaxSkipped \in Nat
  BY Ages, Bounds
<1>2. GotThrough \/ GotLost \/ skipped' = skipped => skipped' \in 0..MaxSkipped
  BY <1>1 DEF GotThrough, GotLost
<1>3. CASE Housekeep \/ HousekeepFails \/ MaybeCheck \/ ReadAt \/ ReadStatus
  BY <1>2, <1>3 DEF Housekeep, HousekeepFails, MaybeCheck, ReadAt, ReadStatus, ghosts
<1>4. ASSUME NEW c \in Threads, ForceCheck(c) \/ CheckStep(c) PROVE skipped' \in 0..MaxSkipped
  <2>1. CASE ForceCheck(c) \/ Ask(c) \/ AskFails(c)
    BY <1>2, <2>1 DEF ForceCheck, Ask, AskFails, Answered, ghosts
  <2>2. CASE WriteStatus(c) \/ WriteReason(c) \/ WriteLatest(c)
    BY <1>2, <2>2 DEF WriteStatus, WriteReason, WriteLatest, ghosts
  <2>3. CASE Check(c) \/ WriteAt(c) \/ Raises(c)
    BY <1>2, <2>3 DEF Check, WriteAt, Raises
  <2> QED BY <1>4, <2>1, <2>2, <2>3 DEF CheckStep
<1>5. CASE Tick \/ SetEnabled \/ Restart \/ UNCHANGED vars
  BY <1>2, <1>5 DEF Tick, SetEnabled, Restart, vars, ghosts
<1> QED BY <1>3, <1>4, <1>5, Kinds DEF Next

\* Every step keeps the rows and the locals well typed.
LEMMA TypeStep == TypeOK /\ HasAnswer /\ [Next]_vars => TypeOK'
<1> SUFFICES ASSUME TypeOK, HasAnswer, [Next]_vars PROVE TypeOK'
    OBVIOUS
<1>0. skipped' \in 0..MaxSkipped
  BY SkippedStep
<1>1. CASE Housekeep
  <2>1. UNCHANGED <<at, status, reason, latest, on, loc, told, cut>>
    BY <1>1 DEF Housekeep, cache, ghosts
  <2>2. since' \in 0..PruneEvery
    BY <1>1, Bounds, Kinds, Ages DEF Housekeep
  <2>3. pc' \in [Threads -> Labels]
    BY <1>1, Bounds, Kinds, Ages DEF Housekeep, TypeOK, Labels, Goto
  <2> QED BY <1>0, <2>1, <2>2, <2>3 DEF TypeOK
<1>2. CASE MaybeCheck
  <2>1. UNCHANGED <<at, status, reason, latest, since, on, loc, told, cut>>
    BY <1>2 DEF MaybeCheck, cache, ghosts
  <2>2. pc' \in [Threads -> Labels]
    BY <1>2, Bounds, Kinds, Ages DEF MaybeCheck, TypeOK, Labels, Goto
  <2> QED BY <1>0, <2>1, <2>2 DEF TypeOK
<1>3. CASE ReadAt
  <2>1. UNCHANGED <<at, status, reason, latest, since, on, told, cut>>
    BY <1>3 DEF ReadAt, cache, ghosts
  <2>2. pc' \in [Threads -> Labels]
    BY <1>3, Bounds, Kinds, Ages DEF ReadAt, TypeOK, Labels, Goto
  <2>3. loc' \in [Threads -> Locals]
    BY <1>3, Bounds, Kinds, Ages DEF ReadAt, TypeOK
  <2> QED BY <1>0, <2>1, <2>2, <2>3 DEF TypeOK
<1>4. CASE ReadStatus
  <2>1. UNCHANGED <<at, status, reason, latest, since, on, told, cut>>
    BY <1>4 DEF ReadStatus, cache, ghosts
  <2>2. pc' \in [Threads -> Labels]
    BY <1>4, Bounds, Kinds, Ages DEF ReadStatus, TypeOK, Labels, Goto
  <2>3. loc' \in [Threads -> Locals]
    BY <1>4, Bounds, Kinds, Ages DEF ReadStatus, TypeOK
  <2> QED BY <1>0, <2>1, <2>2, <2>3 DEF TypeOK
<1>5. ASSUME NEW r \in Requesters, ForceCheck(r) PROVE TypeOK'
  <2>1. UNCHANGED <<at, status, reason, latest, since, on, loc, told, cut>>
    BY <1>5 DEF ForceCheck, cache, ghosts
  <2>2. pc' \in [Threads -> Labels]
    BY <1>5, Bounds, Kinds, Ages DEF ForceCheck, TypeOK, Labels, Goto
  <2> QED BY <1>0, <2>1, <2>2 DEF TypeOK
<1>6. ASSUME NEW c \in Threads, Check(c) PROVE TypeOK'
  <2>1. UNCHANGED <<at, status, reason, latest, since, on, loc, told, cut>>
    BY <1>6 DEF Check, cache, ghosts
  <2>2. pc' \in [Threads -> Labels]
    BY <1>6, Bounds, Kinds, Ages DEF Check, TypeOK, Labels, Goto
  <2> QED BY <1>0, <2>1, <2>2 DEF TypeOK
<1>7. ASSUME NEW c \in Threads, Ask(c) PROVE TypeOK'
  <2>1. UNCHANGED <<at, status, reason, latest, since, on>>
    BY <1>7 DEF Ask, Answered, cache, ghosts
  <2>2. loc' \in [Threads -> Locals]
    <3>1. PICK tag \in Tags \cup {NoTag} : loc' = [loc EXCEPT ![c].answer = tag]
      BY <1>7 DEF Ask, Answered
    <3> QED BY <3>1, Kinds DEF TypeOK
  <2>3. pc' \in [Threads -> Labels]
    BY <1>7, Bounds, Kinds, Ages DEF Ask, Answered, TypeOK, Labels, Goto
  <2>4. told' \subseteq {"failed", "newer", "current"}
    BY <1>7, Bounds, Kinds, Ages DEF Ask, Answered, TypeOK, Tells
  <2>5. cut' \in BOOLEAN
    BY <1>7, Bounds, Kinds, Ages DEF Ask, Answered
  <2> QED BY <1>0, <2>1, <2>2, <2>3, <2>4, <2>5 DEF TypeOK
<1>8. ASSUME NEW c \in Threads, AskFails(c) PROVE TypeOK'
  <2>1. UNCHANGED <<at, status, reason, latest, since, on>>
    BY <1>8 DEF AskFails, Answered, cache, ghosts
  <2>2. loc' \in [Threads -> Locals]
    BY <1>8, Bounds, Kinds, Ages DEF AskFails, Answered, TypeOK
  <2>3. pc' \in [Threads -> Labels]
    BY <1>8, Bounds, Kinds, Ages DEF AskFails, Answered, TypeOK, Labels, Goto
  <2>4. told' \subseteq {"failed", "newer", "current"}
    BY <1>8, Bounds, Kinds, Ages DEF AskFails, Answered, TypeOK, Tells
  <2>5. cut' \in BOOLEAN
    BY <1>8, Bounds, Kinds, Ages DEF AskFails, Answered
  <2> QED BY <1>0, <2>1, <2>2, <2>3, <2>4, <2>5 DEF TypeOK
<1>9. ASSUME NEW c \in Threads, WriteAt(c) PROVE TypeOK'
  <2>1. UNCHANGED <<status, reason, latest, since, on, loc, told, cut>>
    BY <1>9 DEF WriteAt, cache, ghosts
  <2>2. at' \in 0..Limit \cup {Null}
    BY <1>9, Bounds, Kinds, Ages DEF WriteAt, Older
  <2>3. pc' \in [Threads -> Labels]
    BY <1>9, Bounds, Kinds, Ages DEF WriteAt, TypeOK, Labels, Goto
  <2> QED BY <1>0, <2>1, <2>2, <2>3 DEF TypeOK
<1>10. ASSUME NEW c \in Threads, WriteStatus(c) PROVE TypeOK'
  <2>1. UNCHANGED <<at, reason, latest, since, on, loc, told, cut>>
    BY <1>10 DEF WriteStatus, cache, ghosts
  <2>2. status' \in {"", "ok", "failed"}
    BY <1>10, Bounds, Kinds, Ages DEF WriteStatus
  <2>3. pc' \in [Threads -> Labels]
    BY <1>10, Bounds, Kinds, Ages DEF WriteStatus, TypeOK, Labels, Goto
  <2> QED BY <1>0, <2>1, <2>2, <2>3 DEF TypeOK
<1>11. ASSUME NEW c \in Threads, WriteReason(c) PROVE TypeOK'
  <2>1. UNCHANGED <<at, status, latest, since, on, told, cut>>
    BY <1>11 DEF WriteReason, cache, ghosts
  <2>2. reason' \in BOOLEAN
    BY <1>11, Bounds, Kinds, Ages DEF WriteReason
  <2>3. pc' \in [Threads -> Labels]
    BY <1>11, Bounds, Kinds, Ages DEF WriteReason, TypeOK, Labels, Goto
  <2>4. loc' \in [Threads -> Locals]
    BY <1>11, Bounds, Kinds, Ages DEF WriteReason, TypeOK
  <2> QED BY <1>0, <2>1, <2>2, <2>3, <2>4 DEF TypeOK
<1>12. ASSUME NEW c \in Threads, WriteLatest(c) PROVE TypeOK'
  <2>1. UNCHANGED <<at, status, reason, since, on, told, cut>>
    BY <1>12 DEF WriteLatest, cache, ghosts
  <2>2. latest' \in Tags \cup {NoTag}
    <3>1. loc[c].answer \in Tags \cup {NoTag, Null}
      BY DEF TypeOK, Locals
    <3>2. loc[c].answer # Null
      BY <1>12 DEF HasAnswer, WriteLatest
    <3> QED BY <1>12, <3>1, <3>2 DEF WriteLatest
  <2>3. pc' \in [Threads -> Labels]
    BY <1>12, Bounds, Kinds, Ages DEF WriteLatest, TypeOK, Labels, Goto
  <2>4. loc' \in [Threads -> Locals]
    BY <1>12, Bounds, Kinds, Ages DEF WriteLatest, TypeOK
  <2> QED BY <1>0, <2>1, <2>2, <2>3, <2>4 DEF TypeOK
<1>13. CASE Tick
  <2>1. UNCHANGED <<status, reason, latest, pc, loc, told, cut>>
    BY <1>13 DEF Tick, cache, ghosts
  <2>2. at' \in 0..Limit \cup {Null}
    BY <1>13, Bounds, Kinds, Ages DEF Tick, Older
  <2>3. since' \in 0..PruneEvery
    BY <1>13, Bounds, Kinds, Ages DEF Tick
  <2>4. on' \in 0..LongOn \cup {Null}
    BY <1>13, Bounds, Kinds, Ages DEF Tick, Older
  <2> QED BY <1>0, <2>1, <2>2, <2>3, <2>4 DEF TypeOK
<1>14. CASE SetEnabled
  <2>1. UNCHANGED <<at, status, reason, latest, since, pc, loc, told, cut>>
    BY <1>14 DEF SetEnabled, cache, ghosts
  <2>2. on' \in 0..LongOn \cup {Null}
    BY <1>14, Bounds, Kinds, Ages DEF SetEnabled
  <2> QED BY <1>0, <2>1, <2>2 DEF TypeOK
<1>15. CASE Restart
  <2>1. UNCHANGED <<at, status, reason, latest, on, told>>
    BY <1>15 DEF Restart, cache, ghosts
  <2>2. since' \in 0..PruneEvery
    BY <1>15, Bounds, Kinds, Ages DEF Restart
  <2>3. pc' \in [Threads -> Labels]
    BY <1>15, Bounds, Kinds, Ages DEF Restart, TypeOK, Labels, Goto
  <2>4. loc' \in [Threads -> Locals]
    BY <1>15, Bounds, Kinds, Ages DEF Restart, TypeOK
  <2>5. cut' \in BOOLEAN
    BY <1>15, Bounds, Kinds, Ages DEF Restart
  <2> QED BY <1>0, <2>1, <2>2, <2>3, <2>4, <2>5 DEF TypeOK
<1>16. CASE UNCHANGED vars
  BY <1>0, <1>16 DEF vars, cache, ghosts, TypeOK
<1>17. CASE HousekeepFails
  <2>1. UNCHANGED <<at, status, reason, latest, on, pc, loc, told, cut>>
    BY <1>17 DEF HousekeepFails, cache
  <2>2. since' \in 0..PruneEvery
    BY <1>17, Bounds DEF HousekeepFails
  <2> QED BY <1>0, <2>1, <2>2 DEF TypeOK
<1>18. ASSUME NEW c \in Threads, Raises(c) PROVE TypeOK'
  <2>1. UNCHANGED <<at, status, reason, latest, since, on, told>>
    BY <1>18 DEF Raises, cache
  <2>2. pc' \in [Threads -> Labels]
    BY <1>18 DEF Raises, TypeOK, Labels, Goto
  <2>3. loc' \in [Threads -> Locals]
    BY <1>18, Kinds DEF Raises, TypeOK
  <2>4. cut' \in BOOLEAN
    BY <1>18 DEF Raises, TypeOK, Writing
  <2> QED BY <1>0, <2>1, <2>2, <2>3, <2>4 DEF TypeOK
<1> QED BY <1>1, <1>2, <1>3, <1>4, <1>5, <1>6, <1>7, <1>8, <1>9, <1>10, <1>11, <1>12, <1>13, <1>14, <1>15, <1>16, <1>17, <1>18 DEF Next, CheckStep

\* Only a thread with an answer comes to write the version.
LEMMA AnswerStep == TypeOK /\ HasAnswer /\ [Next]_vars => HasAnswer'
<1> SUFFICES ASSUME TypeOK, HasAnswer, [Next]_vars,
                    NEW c \in Threads, pc'[c] = "latest"
             PROVE  loc'[c].answer # Null
    BY DEF HasAnswer
<1>1. CASE pc[c] = "latest" /\ loc'[c] = loc[c]
  BY <1>1 DEF HasAnswer
<1> USE Kinds DEF TypeOK, Goto
<1>2. CASE Housekeep \/ HousekeepFails \/ MaybeCheck \/ ReadAt \/ ReadStatus
  BY <1>1, <1>2 DEF Housekeep, HousekeepFails, MaybeCheck, ReadAt, ReadStatus
<1>3. ASSUME NEW d \in Threads, ForceCheck(d) \/ Check(d) PROVE loc'[c].answer # Null
  BY <1>1, <1>3 DEF ForceCheck, Check
<1>4. ASSUME NEW d \in Threads, Ask(d) \/ AskFails(d) PROVE loc'[c].answer # Null
  BY <1>1, <1>4 DEF Ask, AskFails, Answered
<1>5. ASSUME NEW d \in Threads, WriteAt(d) \/ WriteStatus(d) \/ WriteLatest(d)
      PROVE  loc'[c].answer # Null
  BY <1>1, <1>5 DEF WriteAt, WriteStatus, WriteLatest
<1>6. ASSUME NEW d \in Threads, WriteReason(d) PROVE loc'[c].answer # Null
  BY <1>1, <1>6 DEF WriteReason
<1>7. CASE Tick \/ SetEnabled \/ UNCHANGED vars
  BY <1>1, <1>7 DEF Tick, SetEnabled, vars
<1>8. CASE Restart
  BY <1>8 DEF Restart
<1>9. ASSUME NEW d \in Threads, Raises(d) PROVE loc'[c].answer # Null
  BY <1>1, <1>9 DEF Raises
<1> QED BY <1>9, <1>2, <1>3, <1>4, <1>5, <1>6, <1>7, <1>8 DEF Next, CheckStep

\* Nothing was checked and nothing is being checked at first.
LEMMA InitTyped == Init => TypeOK /\ HasAnswer
<1> SUFFICES ASSUME Init PROVE TypeOK /\ HasAnswer
    OBVIOUS
<1>1. pc \in [Threads -> Labels] /\ loc \in [Threads -> Locals]
  BY Kinds DEF Init, Labels
<1>2. at = Null /\ since \in 0..PruneEvery /\ on \in 0..LongOn /\ skipped \in 0..MaxSkipped
  <2>1. PruneEvery \in 0..PruneEvery /\ PruneEvery \in 0..LongOn /\ 0 \in 0..MaxSkipped
    BY Bounds
  <2> QED BY <2>1 DEF Init
<1>3. TypeOK
  BY <1>1, <1>2 DEF Init, TypeOK
<1> QED BY <1>3 DEF Init, HasAnswer

\* No time passes while a result is being written, so its age stays 0.
LEMMA AskedStep == TypeOK /\ JustAsked /\ [Next]_vars => JustAsked'
<1> SUFFICES ASSUME TypeOK, JustAsked, [Next]_vars,
                    NEW c \in Threads, pc'[c] \in {"status", "reason", "latest"}
             PROVE  at' = 0
    BY DEF JustAsked
<1>1. CASE pc[c] \in {"status", "reason", "latest"} /\ at' = at
  BY <1>1 DEF JustAsked
<1> USE Kinds DEF TypeOK, Goto
<1>2. CASE Housekeep \/ HousekeepFails \/ MaybeCheck \/ ReadAt \/ ReadStatus
  BY <1>1, <1>2 DEF Housekeep, HousekeepFails, MaybeCheck, ReadAt, ReadStatus, cache
<1>3. ASSUME NEW d \in Threads, ForceCheck(d) \/ Check(d) \/ Ask(d) \/ AskFails(d)
      PROVE  at' = 0
  BY <1>1, <1>3 DEF ForceCheck, Check, Ask, AskFails, Answered, cache
<1>4. ASSUME NEW d \in Threads, WriteAt(d) PROVE at' = 0
  BY <1>4 DEF WriteAt
<1>5. ASSUME NEW d \in Threads, WriteStatus(d) \/ WriteReason(d) \/ WriteLatest(d)
      PROVE  at' = 0
  BY <1>1, <1>5 DEF WriteStatus, WriteReason, WriteLatest, JustAsked
<1>6. CASE Tick
  BY <1>6 DEF Tick, AllIdle
<1>7. CASE SetEnabled \/ UNCHANGED vars
  BY <1>1, <1>7 DEF SetEnabled, vars, cache
<1>8. CASE Restart
  BY <1>8 DEF Restart
<1>9. ASSUME NEW d \in Threads, Raises(d) PROVE at' = 0
  BY <1>1, <1>9 DEF Raises, cache
<1> QED BY <1>9, <1>2, <1>3, <1>4, <1>5, <1>6, <1>7, <1>8 DEF Next, CheckStep

\* What maybe_check has read is still there, or a newer check has replaced it.
LEMMA ReadStep == TypeOK /\ ReadRight /\ [Next]_vars => ReadRight'
<1> SUFFICES ASSUME TypeOK, ReadRight, [Next]_vars, pc'[Monitor] = "readStatus"
             PROVE  at' = loc'[Monitor].seen \/ at' = 0
    BY DEF ReadRight
<1>1. CASE pc[Monitor] = "readStatus" /\ at' = at /\ loc'[Monitor] = loc[Monitor]
  BY <1>1 DEF ReadRight
<1> USE Kinds DEF TypeOK, Goto
<1>2. CASE Housekeep \/ HousekeepFails \/ MaybeCheck \/ ReadStatus
  BY <1>2 DEF Housekeep, HousekeepFails, MaybeCheck, ReadStatus
<1>3. CASE ReadAt
  <2>1. loc[Monitor] \in Locals
    OBVIOUS
  <2>2. loc'[Monitor].seen = at
    BY <1>3, <2>1 DEF ReadAt, Locals
  <2> QED BY <1>3, <2>2 DEF ReadAt, cache
<1>4. ASSUME NEW d \in Threads, ForceCheck(d) \/ Check(d) \/ Ask(d) \/ AskFails(d)
      PROVE  at' = loc'[Monitor].seen \/ at' = 0
  BY <1>1, <1>4 DEF ForceCheck, Check, Ask, AskFails, Answered, cache
<1>5. ASSUME NEW d \in Threads, WriteAt(d) PROVE at' = 0
  BY <1>5 DEF WriteAt
<1>6. ASSUME NEW d \in Threads, WriteStatus(d) \/ WriteReason(d) \/ WriteLatest(d)
      PROVE  at' = loc'[Monitor].seen \/ at' = 0
  BY <1>1, <1>6 DEF WriteStatus, WriteReason, WriteLatest
<1>7. CASE Tick
  BY <1>7 DEF Tick, AllIdle
<1>8. CASE SetEnabled \/ UNCHANGED vars
  BY <1>1, <1>8 DEF SetEnabled, vars, cache
<1>9. CASE Restart
  BY <1>9 DEF Restart
<1>10. ASSUME NEW d \in Threads, Raises(d) PROVE at' = loc'[Monitor].seen \/ at' = 0
  BY <1>1, <1>10 DEF Raises, cache
<1> QED BY <1>10, <1>2, <1>3, <1>4, <1>5, <1>6, <1>7, <1>8, <1>9 DEF Next, CheckStep

\* Time passes only when no housekeeping is under way.
LEMMA BusyStep == TypeOK /\ BusyNow /\ [Next]_vars => BusyNow'
<1> SUFFICES ASSUME TypeOK, BusyNow, [Next]_vars, Busy' PROVE since' = 0
    BY DEF BusyNow
<1> USE Kinds DEF TypeOK, Goto, Busy
<1>1. CASE Busy /\ since' = since
  BY <1>1 DEF BusyNow
<1>2. CASE Housekeep \/ HousekeepFails
  BY <1>2 DEF Housekeep, HousekeepFails
<1>3. CASE MaybeCheck \/ ReadAt \/ ReadStatus
  BY <1>1, <1>3 DEF MaybeCheck, ReadAt, ReadStatus
<1>4. ASSUME NEW r \in Requesters, ForceCheck(r) PROVE since' = 0
  BY <1>1, <1>4, UpdateCheckAssumption DEF ForceCheck
<1>5. ASSUME NEW c \in Threads, Check(c) \/ Ask(c) \/ AskFails(c) PROVE since' = 0
  BY <1>1, <1>5 DEF Check, Ask, AskFails, Answered
<1>6. ASSUME NEW c \in Threads,
             WriteAt(c) \/ WriteStatus(c) \/ WriteReason(c) \/ WriteLatest(c) \/ Raises(c)
      PROVE  since' = 0
  BY <1>1, <1>6 DEF WriteAt, WriteStatus, WriteReason, WriteLatest, Raises
<1>7. CASE Tick
  BY <1>7 DEF Tick, AllIdle
<1>8. CASE SetEnabled \/ UNCHANGED vars
  BY <1>1, <1>8 DEF SetEnabled, vars
<1>9. CASE Restart
  BY <1>9 DEF Restart
<1> QED BY <1>2, <1>3, <1>4, <1>5, <1>6, <1>7, <1>8, <1>9 DEF Next, CheckStep

\* How long ago a housekeeping got through, as numbers.
LEMMA ElapsedIs ==
    TypeOK /\ BusyNow =>
        /\ Elapsed \in Nat
        /\ Busy => Elapsed = skipped + PruneEvery
        /\ ~Busy => Elapsed = since + skipped
<1> SUFFICES ASSUME TypeOK, BusyNow
             PROVE  /\ Elapsed \in Nat
                    /\ Busy => Elapsed = skipped + PruneEvery
                    /\ ~Busy => Elapsed = since + skipped
    OBVIOUS
<1>1. since \in Nat /\ skipped \in Nat /\ PruneEvery \in Nat
  BY Ages, Bounds
<1>2. Busy => since = 0
  BY DEF BusyNow
<1> QED BY <1>1, <1>2 DEF Elapsed

\* A step that leaves the rows alone keeps them fresh while less than the time
\* that it adds has passed since.
LEMMA StaysFresh ==
    ASSUME NEW e \in Nat, NEW f \in Nat, e <= f, Fresh(e), TypeOK
    PROVE  Fresh(f)
<1>1. at \in Nat /\ at # Null /\ Interval \in Nat /\ Retry \in Nat
  BY Ages, Bounds DEF Fresh
<1> QED BY <1>1 DEF Fresh

\* Every way in which the housekeeping gets through leaves a result that is
\* fresh; every way in which it is lost adds an hour.
LEMMA RenewedStep ==
    TypeOK /\ JustAsked /\ ReadRight /\ BusyNow /\ Renewed /\ [Next]_vars
        => Renewed'
<1> SUFFICES ASSUME TypeOK, JustAsked, ReadRight, BusyNow, Renewed, [Next]_vars,
                    on' # Null, on' > Elapsed'
             PROVE  Fresh(Elapsed)'
    BY DEF Renewed
<1>0. /\ since \in Nat /\ since <= PruneEvery
      /\ skipped \in Nat /\ skipped <= MaxSkipped
      /\ on \in Nat \cup {Null} /\ (on # Null => on <= LongOn)
      /\ at \in Nat \cup {Null} /\ (at # Null => at <= Limit)
  BY Ages, Bounds
<1>a. pc \in [Threads -> Labels]
  BY DEF TypeOK
<1>b. /\ Elapsed \in Nat
      /\ Busy => Elapsed = skipped + PruneEvery
      /\ ~Busy => Elapsed = since + skipped
  BY ElapsedIs
<1>c. Elapsed' = since' + skipped' + (IF Busy' THEN PruneEvery ELSE 0)
  BY DEF Elapsed
<1>d. Elapsed' = since' + skipped' + 0 \/ Elapsed' = since' + skipped' + PruneEvery
  BY ONLY <1>c, Zenon
<1>1. ASSUME UNCHANGED <<at, status, on>>, Elapsed' = Elapsed PROVE Fresh(Elapsed)'
  BY <1>1 DEF Renewed, Fresh
<1>2. CASE Housekeep
  <2>1. UNCHANGED <<at, status, on, skipped>> /\ since = PruneEvery /\ since' = 0
    BY <1>2 DEF Housekeep, cache, ghosts
  <2>2. ~Busy /\ Busy'
    BY <1>2, <1>a, Kinds DEF Housekeep, Goto, Busy
  <2>3. Elapsed' = Elapsed
    BY <1>0, <1>b, <1>c, <2>1, <2>2, Bounds
  <2> QED BY <1>1, <2>1, <2>3
<1>3. CASE HousekeepFails
  <2>1. /\ UNCHANGED <<at, status, on>> /\ since = PruneEvery /\ since' = 0
        /\ skipped' = skipped + PruneEvery
    BY <1>3 DEF HousekeepFails, GotLost, cache
  <2>2. ~Busy /\ ~Busy'
    BY <1>3 DEF HousekeepFails, Busy
  <2>3. Elapsed' = Elapsed
    BY <1>0, <1>b, <1>c, <2>1, <2>2, Bounds
  <2> QED BY <1>1, <2>1, <2>3
<1>4. CASE MaybeCheck
  <2>1. on # Null
    BY <1>4 DEF MaybeCheck
  <2>2. UNCHANGED <<at, status, since, on, skipped>>
    BY <1>4, <2>1 DEF MaybeCheck, cache
  <2>3. Busy /\ Busy'
    BY <1>4, <1>a, <2>1, Kinds DEF MaybeCheck, Goto, Busy
  <2>4. Elapsed' = Elapsed
    BY <2>2, <2>3 DEF Elapsed
  <2> QED BY <1>1, <2>2, <2>4
<1>5. CASE ReadAt
  <2>1. UNCHANGED <<at, status, since, on, skipped>>
    BY <1>5 DEF ReadAt, cache, ghosts
  <2>2. Busy /\ Busy'
    BY <1>5, <1>a, Kinds DEF ReadAt, Goto, Busy
  <2>3. Elapsed' = Elapsed
    BY <2>1, <2>2 DEF Elapsed
  <2> QED BY <1>1, <2>1, <2>3
<1>6. CASE ReadStatus
  <2>1. UNCHANGED <<at, status, since, on>> /\ Busy
    BY <1>6 DEF ReadStatus, cache, Busy
  <2>2. CASE Stale(loc[Monitor].seen, status)
    <3>1. skipped' = skipped /\ Busy'
      BY <1>6, <1>a, <2>2, Kinds DEF ReadStatus, Goto, Busy
    <3>2. Elapsed' = Elapsed
      BY <2>1, <3>1 DEF Elapsed
    <3> QED BY <1>1, <2>1, <3>2
  <2>3. CASE ~Stale(loc[Monitor].seen, status)
    <3>1. skipped' = 0 /\ ~Busy'
      BY <1>6, <1>a, <2>3, Kinds DEF ReadStatus, Goto, Busy, GotThrough
    <3>2. since = 0
      BY <2>1 DEF BusyNow
    <3>3. Elapsed' = 0
      BY <1>c, <2>1, <3>1, <3>2
    <3>4. CASE at = 0
      BY <2>1, <3>3, <3>4, Bounds DEF Fresh
    <3>5. CASE at = loc[Monitor].seen
      <4>1. at # Null /\ (status = "failed" => ~(at >= Retry))
                     /\ (status # "failed" => ~(at >= Interval))
        BY <2>3, <3>5 DEF Stale
      <4>2. at # Null /\ at < Interval + 0 /\ (status = "failed" => at < Retry + 0)
        BY ONLY <1>0, <4>1, Bounds
      <4> QED BY <2>1, <3>3, <4>2 DEF Fresh
    <3> QED BY <1>6, <3>4, <3>5 DEF ReadRight, ReadStatus
  <2> QED BY <2>2, <2>3
<1>7. ASSUME NEW d \in Threads, ForceCheck(d) \/ Ask(d) \/ AskFails(d) \/ WriteLatest(d)
             \/ WriteReason(d)
      PROVE  Fresh(Elapsed)'
  <2>1. UNCHANGED <<at, status, since, on, skipped>>
    BY <1>7 DEF ForceCheck, Ask, AskFails, Answered, WriteLatest, WriteReason, cache, ghosts
  <2>2. CASE Busy' = Busy
    <3>1. Elapsed' = Elapsed
      BY <2>1, <2>2 DEF Elapsed
    <3> QED BY <1>1, <2>1, <3>1
  <2>3. CASE ~Busy /\ Busy'
    <3>1. Elapsed' = Elapsed + PruneEvery
      BY <1>0, <1>b, <1>c, <2>1, <2>3, Bounds
    <3>2. on # Null /\ on > Elapsed
      BY <1>0, <1>b, <2>1, <3>1, Bounds
    <3>3. Fresh(Elapsed + PruneEvery)
      <4>1. Elapsed + PruneEvery \in Nat /\ Elapsed <= Elapsed + PruneEvery
        BY <1>b, Bounds
      <4> QED BY <1>b, <3>2, <4>1, StaysFresh DEF Renewed
    <3> QED BY <2>1, <3>1, <3>3 DEF Fresh
  <2>4. Busy => Busy'
    BY <1>7, <1>a, Kinds
       DEF Goto, Busy, ForceCheck, Ask, AskFails, Answered, WriteLatest, WriteReason
  <2> QED BY <2>2, <2>3, <2>4 DEF Busy
<1>8. ASSUME NEW d \in Threads, Check(d) PROVE Fresh(Elapsed)'
  <2>1. UNCHANGED <<at, status, since, on>>
    BY <1>8 DEF Check, cache
  <2>2. skipped' = skipped
    BY <1>8, <2>1 DEF Check
  <2>3. Busy' = Busy
    BY <1>8, <1>a, <2>1, Kinds DEF Check, Goto, Busy
  <2>4. Elapsed' = Elapsed
    BY <2>1, <2>2, <2>3 DEF Elapsed
  <2> QED BY <1>1, <2>1, <2>4
<1>9. ASSUME NEW d \in Threads, WriteAt(d) \/ WriteStatus(d) PROVE Fresh(Elapsed)'
  <2>1. at' = 0
    BY <1>9 DEF WriteAt, WriteStatus, JustAsked
  <2>2. Elapsed' >= 0
    <3>1. skipped' \in Nat /\ since' \in Nat
      BY <1>0, <1>9 DEF WriteAt, WriteStatus, GotThrough, ghosts
    <3> QED BY <1>d, <3>1, Bounds
  <2>3. at' # Null /\ at' <= Elapsed'
    BY <2>1, <2>2, Bounds
  <2> QED BY <2>3 DEF Fresh
<1>10. ASSUME NEW d \in Threads, Raises(d) PROVE Fresh(Elapsed)'
  <2>1. UNCHANGED <<at, status, since, on>>
    BY <1>10 DEF Raises, cache
  <2>2. CASE d = Monitor /\ Busy
    <3>1. skipped' = skipped + PruneEvery /\ ~Busy'
      BY <1>10, <1>a, <2>2, Kinds DEF Raises, Goto, Busy, GotLost
    <3>2. since = 0
      BY <2>2 DEF BusyNow
    <3>3. Elapsed' = Elapsed
      BY <1>0, <1>b, <1>c, <2>1, <2>2, <3>1, <3>2, Bounds
    <3> QED BY <1>1, <2>1, <3>3
  <2>3. CASE ~(d = Monitor /\ Busy)
    <3>1. skipped' = skipped
      BY <1>10, <2>3 DEF Raises
    <3>2. Busy' = Busy
      BY <1>10, <1>a, <2>3, Kinds DEF Raises, Goto, Busy
    <3>3. Elapsed' = Elapsed
      BY <2>1, <3>1, <3>2 DEF Elapsed
    <3> QED BY <1>1, <2>1, <3>3
  <2> QED BY <2>2, <2>3
<1>11. CASE Tick
  <2>1. /\ since' = since + 1 /\ status' = status /\ skipped' = skipped
        /\ at' = IF at = Null THEN Null ELSE Older(at, Limit)
        /\ on' = IF on = Null THEN Null ELSE Older(on, LongOn)
    BY <1>11 DEF Tick, ghosts
  <2>2. ~Busy /\ ~Busy'
    BY <1>11, Kinds DEF Tick, AllIdle, Busy
  <2>3. Elapsed' = Elapsed + 1
    BY <1>0, <1>b, <1>c, <2>1, <2>2
  <2>4. on # Null /\ on > Elapsed
    BY <1>0, <1>b, <2>1, <2>3, Bounds DEF Older
  <2>5. Fresh(Elapsed)
    BY <2>4 DEF Renewed
  <2>6. at # Null /\ at' = Older(at, Limit) /\ at' # Null /\ at' \in Nat /\ at' <= at + 1
    BY <1>0, <2>1, <2>5, Bounds DEF Fresh, Older
  <2>7. \/ at' <= Elapsed + 1
        \/ at' < Interval + (Elapsed + 1) /\ (status = "failed" => at' < Retry + (Elapsed + 1))
    BY <1>0, <1>b, <2>5, <2>6, Bounds DEF Fresh
  <2> QED BY <2>1, <2>3, <2>6, <2>7 DEF Fresh
<1>12. CASE SetEnabled
  <2>1. on' = 0
    BY <1>12 DEF SetEnabled
  <2>2. since' \in Nat /\ skipped' \in Nat
    BY <1>0, <1>12 DEF SetEnabled, ghosts
  <2>3. Elapsed' \in Nat
    BY <1>d, <2>2, Bounds
  <2> QED BY <2>1, <2>3
<1>13. CASE Restart
  <2>1. UNCHANGED <<at, status, on, skipped>> /\ since' = PruneEvery
    BY <1>13 DEF Restart, cache
  <2>2. ~Busy'
    BY <1>13, Kinds DEF Restart, Busy
  <2>3. Elapsed' \in Nat /\ Elapsed <= Elapsed'
    BY <1>0, <1>b, <1>c, <2>1, <2>2, Bounds
  <2>4. on # Null /\ on > Elapsed
    BY <1>0, <1>b, <2>1, <2>3
  <2>5. PICK e \in Nat : e = Elapsed'
    BY <2>3
  <2>6. Fresh(e)
    BY <1>b, <2>3, <2>4, <2>5, StaysFresh DEF Renewed
  <2> QED BY <2>1, <2>5, <2>6 DEF Fresh
<1>14. CASE UNCHANGED vars
  <2>1. UNCHANGED <<at, status, since, on, skipped>> /\ Busy' = Busy
    BY <1>14 DEF vars, cache, ghosts, Busy
  <2>2. Elapsed' = Elapsed
    BY <2>1 DEF Elapsed
  <2> QED BY <1>1, <2>1, <2>2
<1> QED BY <1>2, <1>3, <1>4, <1>5, <1>6, <1>7, <1>8, <1>9, <1>10, <1>11, <1>12, <1>13,
           <1>14, Kinds
        DEF Next, CheckStep

\* The cached result is never older than the loop can make it, whatever is
\* forced, switched or restarted in between: each housekeeping that a failed
\* pruning or a raising statement costs delays it by one hour and no more.
THEOREM Freshness == Spec => []CacheIsFresh
<1>1. Init => Inv
  <2> SUFFICES ASSUME Init PROVE Inv
      OBVIOUS
  <2>1. TypeOK /\ HasAnswer
    BY InitTyped
  <2>2. JustAsked /\ ReadRight /\ BusyNow
    BY Kinds DEF Init, JustAsked, ReadRight, BusyNow, Busy
  <2>3. Renewed
    <3>1. on = PruneEvery /\ since = PruneEvery /\ skipped = 0 /\ ~Busy
      BY Kinds DEF Init, Busy
    <3>2. ~(on > Elapsed)
      BY <3>1, Bounds DEF Elapsed
    <3> QED BY <3>2 DEF Renewed
  <2> QED BY <2>1, <2>2, <2>3 DEF Inv
<1>2. Inv /\ [Next]_vars => Inv'
  BY TypeStep, AnswerStep, AskedStep, ReadStep, BusyStep, RenewedStep DEF Inv
<1>3. Inv => CacheIsFresh
  <2> SUFFICES ASSUME Inv, AtRest, on # Null, on > since + skipped
               PROVE  /\ at # Null
                      /\ at < Interval + PruneEvery + skipped
                      /\ status = "failed" => at < Retry + PruneEvery + skipped
      BY DEF CacheIsFresh
  <2>1. ~Busy /\ since < PruneEvery
    BY Kinds DEF AtRest, AllIdle, Busy
  <2>2. at \in Nat \cup {Null} /\ since \in Nat /\ skipped \in Nat
    BY Ages, Bounds DEF Inv
  <2>3. Elapsed = since + skipped
    BY <2>1, ElapsedIs DEF Inv
  <2>4. Fresh(since + skipped)
    BY <2>3 DEF Inv, Renewed
  <2> QED BY <2>1, <2>2, <2>4, Bounds DEF Fresh
<1> QED BY <1>1, <1>2, <1>3, PTL DEF Spec


\* Rows and locals are well typed, for any threads, tags and intervals.
THEOREM Typing == Spec => []TypeOK
<1>1. Init => TypeOK /\ HasAnswer
  BY InitTyped
<1> QED BY <1>1, TypeStep, AnswerStep, PTL DEF Spec

-----------------------------------------------------------------------------
(* The footer. *)

\* What an answer says of the running version.
Verdict(answer) ==
    IF answer = Null THEN "failed"
    ELSE IF answer > Current THEN "newer"
    ELSE "current"

\* A check writes what the remote has told it.
WritesTold == \A c \in Threads : Writing(c) => Verdict(loc[c].answer) \in told

\* A check that has stored "ok" and not yet the version that goes with it.
OwesVersion(c) == pc[c] \in {"reason", "latest"} /\ loc[c].answer # Null

\* The status is about to be written, or agrees with what was told; and so does
\* the version beside an "ok", unless it is about to be written.
RowsTold ==
    at # Null /\ ~cut =>
        \/ \E c \in Threads : pc[c] \in {"at", "status"}
        \/ status = "failed" /\ "failed" \in told
        \/ status = "ok" /\ ((\E c \in Threads : OwesVersion(c)) \/ Verdict(latest) \in told)

\* The newest tag alone decides what the tags tell.
LEMMA NewestTells ==
    ASSUME NEW tags \in SUBSET Tags, NEW tag \in Tags \cup {NoTag}, IsNewest(tags, tag)
    PROVE  Verdict(tag) = Tells(tags)
<1>1. tag \in Nat /\ tag # Null /\ Current \in Nat /\ \A other \in tags : other \in Nat
  BY UpdateCheckAssumption DEF NoTag
<1>2. CASE tags = {}
  BY <1>1, <1>2 DEF IsNewest, Verdict, Tells, NoTag
<1>3. CASE tags # {}
  <2>1. tag \in tags /\ \A other \in tags : tag >= other
    BY <1>3 DEF IsNewest
  <2>2. tag > Current <=> \E other \in tags : other > Current
    BY <1>1, <2>1
  <2> QED BY <1>1, <2>2 DEF Verdict, Tells
<1> QED BY <1>2, <1>3

\* What a check is told is what it goes on to write.
LEMMA AnswerTold ==
    ASSUME TypeOK, NEW c \in Threads, Ask(c) \/ AskFails(c)
    PROVE  /\ Verdict(loc'[c].answer) \in told'
           /\ (\E d \in Threads : Writing(d)) => told \subseteq told' /\ cut' = cut
           /\ pc' = [pc EXCEPT ![c] = "at"]
           /\ pc[c] = "ask"
           /\ \A d \in Threads : d # c => loc'[d] = loc[d]
           /\ UNCHANGED <<at, status, latest>>
<1>1. PICK answer, tells : Answered(c, answer, tells) /\ Verdict(answer) = tells
  BY NewestTells DEF Ask, AskFails, Verdict
<1>2. loc'[c].answer = answer
  BY <1>1 DEF Answered, TypeOK, Locals
<1>3. tells \in told'
  BY <1>1 DEF Answered
<1>4. /\ pc' = [pc EXCEPT ![c] = "at"] /\ pc[c] = "ask"
      /\ \A d \in Threads : d # c => loc'[d] = loc[d]
      /\ UNCHANGED <<at, status, latest>>
  BY <1>1 DEF Answered, Goto, cache, TypeOK
<1>5. ASSUME \E d \in Threads : Writing(d)
      PROVE  told \subseteq told' /\ cut' = cut
  <2>1. told' = {tells} \cup told /\ cut' = (cut /\ TRUE)
    BY <1>1, <1>5, Zenon DEF Answered
  <2>2. cut \in BOOLEAN
    BY DEF TypeOK
  <2> QED BY <2>1, <2>2
<1> QED BY <1>1, <1>2, <1>3, <1>4, <1>5

LEMMA WritesStep == TypeOK /\ WritesTold /\ [Next]_vars => WritesTold'
<1> SUFFICES ASSUME TypeOK, WritesTold, [Next]_vars, NEW c \in Threads, Writing(c)'
             PROVE  (Verdict(loc[c].answer) \in told)'
  BY DEF WritesTold
<1>1. CASE Writing(c) /\ loc'[c].answer = loc[c].answer /\ told' = told
  BY <1>1 DEF WritesTold, Verdict
<1> USE Kinds DEF TypeOK, Goto, Writing
<1>2. CASE Housekeep \/ HousekeepFails \/ MaybeCheck \/ ReadAt \/ ReadStatus
  <2>1. Writing(c) /\ told' = told
    BY <1>2 DEF Housekeep, HousekeepFails, MaybeCheck, ReadAt, ReadStatus, ghosts
  <2>2. c # Monitor => loc'[c] = loc[c]
    BY <1>2 DEF Housekeep, HousekeepFails, MaybeCheck, ReadAt, ReadStatus
  <2>3. c # Monitor
    BY <1>2 DEF Housekeep, HousekeepFails, MaybeCheck, ReadAt, ReadStatus
  <2> QED BY <1>1, <2>1, <2>2, <2>3
<1>3. ASSUME NEW d \in Threads, ForceCheck(d) \/ Check(d)
      PROVE  (Verdict(loc[c].answer) \in told)'
  BY <1>1, <1>3 DEF ForceCheck, Check, ghosts
<1>4. ASSUME NEW d \in Threads, Ask(d) \/ AskFails(d)
      PROVE  (Verdict(loc[c].answer) \in told)'
  <2>1. CASE c = d
    BY <1>4, <2>1, AnswerTold DEF Verdict
  <2>2. CASE c # d
    <3>1. Writing(c) /\ loc'[c] = loc[c] /\ told \subseteq told'
      BY <1>4, <2>2, AnswerTold
    <3> QED BY <3>1 DEF WritesTold, Verdict
  <2> QED BY <2>1, <2>2
<1>5. ASSUME NEW d \in Threads, WriteAt(d) \/ WriteStatus(d)
      PROVE  (Verdict(loc[c].answer) \in told)'
  BY <1>1, <1>5 DEF WriteAt, WriteStatus, ghosts
<1>6. ASSUME NEW d \in Threads, WriteReason(d) \/ WriteLatest(d)
      PROVE  (Verdict(loc[c].answer) \in told)'
  BY <1>1, <1>6 DEF WriteReason, WriteLatest, ghosts
<1>7. CASE Tick \/ SetEnabled \/ UNCHANGED vars
  BY <1>1, <1>7 DEF Tick, SetEnabled, vars, ghosts
<1>8. CASE Restart
  BY <1>8 DEF Restart
<1>9. ASSUME NEW d \in Threads, Raises(d) PROVE (Verdict(loc[c].answer) \in told)'
  BY <1>1, <1>9 DEF Raises
<1> QED BY <1>9, <1>2, <1>3, <1>4, <1>5, <1>6, <1>7, <1>8 DEF Next, CheckStep

LEMMA RowsStep ==
    TypeOK /\ HasAnswer /\ WritesTold /\ RowsTold /\ [Next]_vars => RowsTold'
<1> SUFFICES ASSUME TypeOK, HasAnswer, WritesTold, RowsTold, [Next]_vars
             PROVE  RowsTold'
  OBVIOUS
<1> USE Kinds DEF TypeOK, Goto
<1>1. ASSUME UNCHANGED <<at, status, latest, told, cut>>,
             \A c \in Threads : /\ pc[c] \in {"at", "status", "reason", "latest"} => pc'[c] = pc[c]
                                /\ OwesVersion(c) => OwesVersion(c)'
      PROVE  RowsTold'
  BY <1>1 DEF RowsTold, Verdict
<1>2. CASE Housekeep \/ HousekeepFails \/ MaybeCheck \/ ReadAt \/ ReadStatus
  BY <1>1, <1>2 DEF Housekeep, HousekeepFails, MaybeCheck, ReadAt, ReadStatus, OwesVersion, cache, ghosts
<1>3. ASSUME NEW d \in Threads, ForceCheck(d) \/ Check(d) PROVE RowsTold'
  BY <1>1, <1>3 DEF ForceCheck, Check, OwesVersion, cache, ghosts
<1>4. ASSUME NEW d \in Threads, Ask(d) \/ AskFails(d) PROVE RowsTold'
  <2>1. pc'[d] = "at"
    BY <1>4, AnswerTold
  <2> QED BY <2>1 DEF RowsTold
<1>5. ASSUME NEW d \in Threads, WriteAt(d) PROVE RowsTold'
  <2>1. pc'[d] = "status"
    BY <1>5 DEF WriteAt
  <2> QED BY <2>1 DEF RowsTold
<1>6. ASSUME NEW d \in Threads, WriteStatus(d) PROVE RowsTold'
  <2>1. /\ pc'[d] = "reason" /\ loc' = loc /\ told' = told
        /\ status' = IF loc[d].answer = Null THEN "failed" ELSE "ok"
        /\ Verdict(loc[d].answer) \in told
    BY <1>6 DEF WriteStatus, WritesTold, Writing, ghosts
  <2>2. CASE loc[d].answer = Null
    BY <2>1, <2>2 DEF RowsTold, Verdict
  <2>3. CASE loc[d].answer # Null
    BY <2>1, <2>3 DEF RowsTold, OwesVersion
  <2> QED BY <2>2, <2>3
<1>7. ASSUME NEW d \in Threads, WriteReason(d) PROVE RowsTold'
  <2>1. /\ UNCHANGED <<at, status, latest, told, cut>>
        /\ pc[d] = "reason"
        /\ \A c \in Threads : c # d => pc'[c] = pc[c] /\ loc'[c] = loc[c]
        /\ loc[d].answer # Null => pc'[d] = "latest" /\ loc' = loc
    BY <1>7 DEF WriteReason, ghosts
  <2>2. \A c \in Threads : OwesVersion(c) => OwesVersion(c)'
    BY <2>1 DEF OwesVersion
  <2>3. \A c \in Threads : pc[c] \in {"at", "status"} => pc'[c] = pc[c]
    BY <2>1
  <2> QED BY <2>1, <2>2, <2>3 DEF RowsTold, Verdict
<1>8. ASSUME NEW d \in Threads, WriteLatest(d) PROVE RowsTold'
  <2>1. /\ UNCHANGED <<at, status, told, cut>> /\ latest' = loc[d].answer
        /\ pc[d] = "latest"
        /\ \A c \in Threads : c # d => pc'[c] = pc[c] /\ loc'[c] = loc[c]
        /\ Verdict(loc[d].answer) \in told
    BY <1>8 DEF WriteLatest, WritesTold, Writing, ghosts
  <2>2. Verdict(latest)' \in told'
    BY <2>1 DEF Verdict
  <2>3. \A c \in Threads : pc[c] \in {"at", "status"} => pc'[c] = pc[c]
    BY <2>1
  <2> QED BY <2>1, <2>2, <2>3 DEF RowsTold
<1>9. CASE Tick
  <2>1. /\ UNCHANGED <<status, latest, told, cut, pc, loc>>
        /\ at' # Null => at # Null
    BY <1>9 DEF Tick, ghosts
  <2> QED BY <2>1 DEF RowsTold, OwesVersion, Verdict
<1>10. CASE SetEnabled \/ UNCHANGED vars
  BY <1>1, <1>10 DEF SetEnabled, OwesVersion, vars, cache, ghosts
<1>11. CASE Restart
  <2>1. UNCHANGED <<at, status, latest, told>>
    BY <1>11 DEF Restart, cache
  <2>2. ~cut' => ~cut /\ \A c \in Threads : ~Writing(c)
    BY <1>11, Zenon DEF Restart
  <2> QED BY <2>1, <2>2 DEF RowsTold, OwesVersion, Writing, Verdict
<1>12. ASSUME NEW d \in Threads, Raises(d) PROVE RowsTold'
  <2>1. /\ UNCHANGED <<at, status, latest, told>>
        /\ \A c \in Threads : c # d => pc'[c] = pc[c] /\ loc'[c] = loc[c]
    BY <1>12 DEF Raises, cache
  <2>2. ~cut' => ~cut /\ ~Writing(d)
    BY <1>12, Zenon DEF Raises
  <2>3. ~cut' => \A c \in Threads : /\ pc[c] \in {"at", "status"} => pc'[c] = pc[c]
                                    /\ OwesVersion(c) => OwesVersion(c)'
    BY <2>1, <2>2 DEF OwesVersion, Writing
  <2> QED BY <2>1, <2>2, <2>3 DEF RowsTold, Verdict
<1> QED BY <1>12, <1>2, <1>3, <1>4, <1>5, <1>6, <1>7, <1>8, <1>9, <1>10, <1>11 DEF Next, CheckStep

\* At rest the footer says what the remote told a check that was among the
\* last, for any request threads, tags and intervals.
THEOREM Footers == Spec => []FooterTellsTheAnswer
<1>1. Init => WritesTold /\ RowsTold
  BY DEF Init, WritesTold, RowsTold, Writing
<1>2. Init => TypeOK /\ HasAnswer
  BY InitTyped
<1>3. TypeOK /\ RowsTold => FooterTellsTheAnswer
  <2> SUFFICES ASSUME TypeOK, RowsTold, AtRest, on # Null, at # Null, ~cut
               PROVE  Footer \in told
    BY DEF FooterTellsTheAnswer
  <2>1. \A c \in Threads : pc[c] = "idle"
    BY DEF AtRest, AllIdle
  <2>2. \/ status = "failed" /\ "failed" \in told
        \/ status = "ok" /\ Verdict(latest) \in told
    BY <2>1 DEF RowsTold, OwesVersion
  <2>3. latest # Null
    <3>1. latest \in Tags \cup {NoTag}
      BY DEF TypeOK
    <3>2. latest \in Nat
      BY ONLY <3>1, UpdateCheckAssumption DEF NoTag
    <3> QED BY ONLY <3>2, Bounds
  <2> QED BY <2>2, <2>3 DEF Footer, Verdict
<1> QED
  BY <1>1, <1>2, <1>3, TypeStep, AnswerStep, WritesStep, RowsStep, PTL DEF Spec

=============================================================================
