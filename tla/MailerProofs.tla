---------------------------- MODULE MailerProofs ----------------------------
(***************************************************************************)
(* An alert uses the form of the operator and the last error is exact, for *)
(* any senders, requests and forms.                                        *)
(***************************************************************************)
EXTENDS Mailer, SequenceTheorems, FiniteSetTheorems, TLAPS

\* The statements that a set_many may hold: a key of the table and its value.
Writes ==
    [key : {"mode"}, value : Modes] \cup [key : {"host"}, value : Hosts]
    \cup [key : {"username"}, value : Usernames]
    \cup [key : {"password"}, value : Passwords]
    \cup [key : {"enabled", "error", "errorAt"}, value : BOOLEAN]

Keys == {"mode", "host", "username", "password", "enabled", "error", "errorAt"}

TypeInv == TypeOK /\ todo \in [Threads -> Seq(Writes)]

\* The positions of the statements that a thread has left.
Left(c) == 1..Len(todo[c])

-----------------------------------------------------------------------------
(* Lemmas on the statements of set_many. *)

\* What is left of a sequence without its first element.
LEMMA TailFacts ==
    ASSUME NEW S, NEW s \in Seq(S), s # <<>>
    PROVE  /\ Tail(s) \in Seq(S) /\ Len(s) \in Nat \ {0}
           /\ Head(s) = s[1] /\ s[1] \in S
           /\ Len(Tail(s)) = Len(s) - 1
           /\ \A i \in 1..Len(Tail(s)) : Tail(s)[i] = s[i + 1]
           /\ Len(s) = 1 <=> Tail(s) = <<>>
<1>1. Len(s) \in Nat /\ Len(s) # 0
  BY EmptySeq, LenProperties
<1>2. Tail(s) \in Seq(S) /\ Len(Tail(s)) = Len(s) - 1 /\ Head(s) = s[1]
  <2>1. Head(s) = s[1]
    BY SMT
  <2> QED BY <2>1, HeadTailProperties
<1>3. s[1] \in S
  BY <1>1, ElementOfSeq
<1>4. \A i \in 1..Len(Tail(s)) : Tail(s)[i] = s[i + 1]
  BY HeadTailProperties
<1>5. Len(s) = 1 <=> Tail(s) = <<>>
  <2>1. Tail(s) = <<>> => Len(Tail(s)) = 0
    BY EmptySeq
  <2>2. Tail(s) # <<>> => Len(Tail(s)) # 0
    BY <1>2, EmptySeq
  <2> QED BY <1>1, <1>2, <2>1, <2>2
<1> QED BY <1>1, <1>2, <1>3, <1>4, <1>5

\* The statements of a form, one by one.
LEMMA FormFacts ==
    ASSUME NEW f \in Forms
    PROVE  /\ FormWrites(f) \in Seq(Writes)
           /\ Len(FormWrites(f)) \in {4, 5}
           /\ FormWrites(f)[1] = Write("mode", f.mode)
           /\ FormWrites(f)[2] = Write("host", f.host)
           /\ FormWrites(f)[3] = Write("username", UsernameOf(f))
           /\ FormWrites(f)[4] = Write("enabled", f.enabled)
           /\ Len(FormWrites(f)) = 5 => /\ FormWrites(f)[5].key = "password"
                                         /\ FormWrites(f)[5].value = PasswordOf(f)
           /\ PasswordWrites(f) = <<>> => PasswordOf(f) = Null
<1> DEFINE first == << Write("mode", f.mode), Write("host", f.host),
                       Write("username", UsernameOf(f)), Write("enabled", f.enabled) >>
           last  == PasswordWrites(f)
<1>1. /\ f.mode \in Modes /\ f.host \in Hosts /\ UsernameOf(f) \in Usernames
      /\ f.enabled \in BOOLEAN /\ f.password \in Passwords
  BY MailerAssumption DEF Hosts, Usernames, Passwords, UsernameOf
<1>2. /\ Write("mode", f.mode) \in Writes /\ Write("host", f.host) \in Writes
      /\ Write("username", UsernameOf(f)) \in Writes
      /\ Write("enabled", f.enabled) \in Writes
      /\ Write("password", f.password) \in Writes /\ Write("password", Null) \in Writes
  BY <1>1 DEF Write, Writes, Passwords
<1>3. first \in Seq(Writes) /\ Len(first) = 4
  BY <1>2
<1>4. \/ last = <<>>
      \/ last = << Write("password", Null) >>
      \/ last = << Write("password", f.password) >>
  BY DEF PasswordWrites
<1>8. /\ last = << Write("password", Null) >> => PasswordOf(f) = Null
      /\ last = << Write("password", f.password) >> => PasswordOf(f) = f.password
      /\ last = <<>> => PasswordOf(f) = Null
  <2>1. CASE f.mode = "internal_relay"
    <3>1. last = << Write("password", Null) >> /\ PasswordOf(f) = Null
      BY <2>1 DEF PasswordWrites, PasswordOf
    <3>2. last = << Write("password", f.password) >> => f.password = Null
      BY <3>1 DEF Write
    <3> QED BY <3>1, <3>2
  <2>2. CASE f.mode # "internal_relay" /\ f.password # Null
    <3>1. last = << Write("password", f.password) >> /\ PasswordOf(f) = f.password
      BY <1>1, <2>2 DEF PasswordWrites, PasswordOf, Modes
    <3>2. last = << Write("password", Null) >> => f.password = Null
      BY <3>1 DEF Write
    <3> QED BY <3>1, <3>2
  <2>3. CASE f.mode # "internal_relay" /\ f.password = Null
    BY <2>3 DEF PasswordOf
  <2> QED BY <2>1, <2>2, <2>3
<1>5. /\ last \in Seq(Writes) /\ Len(last) \in {0, 1}
      /\ Len(last) = 1 => last[1].key = "password" /\ last[1].value = PasswordOf(f)
  <2>1. CASE last = <<>>
    BY <2>1
  <2>2. ASSUME NEW p, last = << Write("password", p) >>, Write("password", p) \in Writes
        PROVE  /\ last \in Seq(Writes) /\ Len(last) = 1
               /\ last[1].key = "password" /\ last[1].value = p
    BY <2>2 DEF Write
  <2> HIDE DEF last
  <2>3. CASE last = << Write("password", Null) >>
    BY <1>2, <1>8, <2>2, <2>3
  <2>4. CASE last = << Write("password", f.password) >>
    BY <1>2, <1>8, <2>2, <2>4
  <2> QED BY <1>4, <2>1, <2>3, <2>4
<1>6. FormWrites(f) = first \o last
  BY DEF FormWrites
<1> HIDE DEF last
<1>7. /\ first \o last \in Seq(Writes)
      /\ Len(first \o last) = 4 + Len(last)
      /\ \A i \in 1..4 : (first \o last)[i] = first[i]
      /\ Len(last) = 1 => (first \o last)[5] = last[1]
  BY <1>3, <1>5
<1> QED BY <1>5, <1>6, <1>7, <1>8 DEF last

LEMMA NoneLeft == 1..Len(<<>>) = {}
  OBVIOUS

\* The positions of the statements of a form.
LEMMA Positions ==
    ASSUME NEW n \in {4, 5}, NEW i \in 1..n
    PROVE  i \in {1, 2, 3, 4} \/ (i = 5 /\ n = 5)
<1>1. CASE n = 4
  BY <1>1
<1>2. CASE n = 5
  BY <1>2
<1> QED BY <1>1, <1>2

\* The statements of the bookkeeping of a delivery.
LEMMA RecordedFacts ==
    ASSUME NEW failed \in BOOLEAN
    PROVE  /\ Recorded(failed) \in Seq(Writes)
           /\ Len(Recorded(failed)) = 2
           /\ Recorded(failed)[1].key = "error" /\ Recorded(failed)[1].value = failed
           /\ Recorded(failed)[2].key = "errorAt" /\ Recorded(failed)[2].value = failed
<1>1. Write("error", failed) \in Writes /\ Write("errorAt", failed) \in Writes
  BY DEF Write, Writes
<1> QED BY <1>1 DEF Recorded, Write

\* One statement of a set_many writes its key and leaves the others.
LEMMA OneWrite ==
    ASSUME TypeInv, NEW c \in Threads, SetValue(c)
    PROVE  LET w == todo[c][1] IN
           /\ w \in Writes /\ w.key \in Keys /\ 1 \in Left(c)
           /\ set' = [set EXCEPT ![w.key] = w.value]
           /\ pc[c] = "write" /\ pc'[c] = IF todo'[c] = <<>> THEN "idle" ELSE "write"
           /\ todo' \in [Threads -> Seq(Writes)]
           /\ \A i \in Left(c)' : i + 1 \in Left(c) /\ todo'[c][i] = todo[c][i + 1]
           /\ \A i \in Left(c) : i # 1 => i - 1 \in Left(c)' /\ todo'[c][i - 1] = todo[c][i]
           /\ \A d \in Threads : d # c => todo'[d] = todo[d] /\ pc'[d] = pc[d]
           /\ unwritten' = (unwritten /\ w.key # "password")
           /\ UNCHANGED <<read, submitted, outcomes>>
<1> DEFINE s == todo[c]
<1>1. s \in Seq(Writes) /\ s # <<>> /\ pc[c] = "write"
  BY DEF SetValue, TypeInv, TypeOK
<1>2. todo' = [todo EXCEPT ![c] = Tail(s)] /\ todo'[c] = Tail(s)
  BY DEF SetValue, TypeInv
<1>3. /\ Tail(s) \in Seq(Writes) /\ Len(s) \in Nat \ {0}
      /\ Head(s) = s[1] /\ s[1] \in Writes
      /\ Len(Tail(s)) = Len(s) - 1
      /\ \A i \in 1..Len(Tail(s)) : Tail(s)[i] = s[i + 1]
      /\ Len(s) = 1 <=> Tail(s) = <<>>
  BY <1>1, TailFacts
<1>4. s[1].key \in Keys
  BY <1>3 DEF Writes, Keys
<1>5. set' = [set EXCEPT ![s[1].key] = s[1].value]
  BY <1>3 DEF SetValue
<1>6. pc'[c] = IF todo'[c] = <<>> THEN "idle" ELSE "write"
  BY <1>2, <1>3 DEF SetValue, Goto, TypeInv, TypeOK
<1>7. todo' \in [Threads -> Seq(Writes)]
  BY <1>2, <1>3 DEF TypeInv
<1>8. /\ \A i \in 1..Len(Tail(s)) : i + 1 \in 1..Len(s) /\ Tail(s)[i] = s[i + 1]
      /\ \A i \in 1..Len(s) : i # 1 => i - 1 \in 1..Len(Tail(s)) /\ Tail(s)[i - 1] = s[i]
      /\ 1 \in 1..Len(s)
  BY <1>3
<1>9. \A d \in Threads : d # c => todo'[d] = todo[d] /\ pc'[d] = pc[d]
  BY <1>2 DEF SetValue, Goto, TypeInv, TypeOK
<1>10. unwritten' = (unwritten /\ s[1].key # "password")
  BY <1>3 DEF SetValue
<1> QED BY <1>1, <1>2, <1>3, <1>4, <1>5, <1>6, <1>7, <1>8, <1>9, <1>10 DEF Left, SetValue

-----------------------------------------------------------------------------
(* Types. *)

Labels == {"idle", "write", "notify", "recipients", "send", "host",
           "mode", "username", "password", "session"}

Settings == [mode : Modes, host : Hosts, username : Usernames, password : Passwords,
             enabled : BOOLEAN, error : BOOLEAN, errorAt : BOOLEAN]

LEMMA SetTyped ==
    ASSUME NEW s \in Settings, NEW w \in Writes
    PROVE  [s EXCEPT ![w.key] = w.value] \in Settings
<1>1. CASE w.key = "mode" /\ w.value \in Modes
  BY <1>1 DEF Settings
<1>2. CASE w.key = "host" /\ w.value \in Hosts
  BY <1>2 DEF Settings
<1>3. CASE w.key = "username" /\ w.value \in Usernames
  BY <1>3 DEF Settings
<1>4. CASE w.key = "password" /\ w.value \in Passwords
  BY <1>4 DEF Settings
<1>5. CASE w.key \in {"enabled", "error", "errorAt"} /\ w.value \in BOOLEAN
  BY <1>5 DEF Settings
<1> QED BY <1>1, <1>2, <1>3, <1>4, <1>5 DEF Writes

\* The steps of a sender that neither store nor begin to store anything.
Quiet(c) ==
    \/ Notify(c) \/ Recipients(c) \/ SendEmail(c)
    \/ ReadHost(c) \/ ReadMode(c) \/ ReadUsername(c) \/ ReadPassword(c)
    \/ c \in Senders /\ Alert(c)
    \/ c \in Testers /\ TestEmail(c)

\* The steps that end a delivery and begin its bookkeeping.
Ends(c) == NoHost(c) \/ \E ok \in BOOLEAN : Session(c, ok)

\* What both leave alone.
LEMMA QuietFrame ==
    ASSUME TypeInv, NEW c \in Mailers, Quiet(c)
    PROVE  /\ pc[c] \in Labels \ {"write", "session"} /\ pc'[c] \in Labels \ {"write"}
           /\ pc' = [pc EXCEPT ![c] = pc'[c]]
           /\ UNCHANGED <<set, todo, submitted, unwritten>>
           /\ \A d \in Mailers : d # c => read'[d] = read[d]
<1> USE DEF TypeInv, TypeOK, Labels, Threads, Move, Step, Goto, saves
<1>1. CASE Notify(c) \/ Recipients(c) \/ SendEmail(c)
  BY <1>1 DEF Notify, Recipients, SendEmail
<1>2. CASE ReadHost(c) \/ ReadMode(c) \/ ReadUsername(c) \/ ReadPassword(c)
  BY <1>2 DEF ReadHost, ReadMode, ReadUsername, ReadPassword
<1>3. CASE Alert(c) \/ TestEmail(c)
  BY <1>3 DEF Alert, TestEmail
<1> QED BY <1>1, <1>2, <1>3 DEF Quiet

\* A failed delivery stores an error, a good one removes it.
LEMMA EndsFrame ==
    ASSUME TypeInv, NEW c \in Mailers, Ends(c)
    PROVE  /\ pc[c] \in {"host", "session"} /\ pc' = [pc EXCEPT ![c] = "write"]
           /\ \/ todo' = [todo EXCEPT ![c] = Recorded(TRUE)] /\ FALSE \in outcomes'
              \/ todo' = [todo EXCEPT ![c] = Recorded(FALSE)] /\ TRUE \in outcomes'
           /\ UNCHANGED <<set, submitted, unwritten>>
           /\ read' \in [Mailers -> Read]
           /\ \A d \in Mailers : d # c => read'[d] = read[d]
<1> USE DEF TypeInv, TypeOK, Threads, SetMany, Goto, saves
<1>1. CASE NoHost(c)
  BY <1>1 DEF NoHost
<1>2. ASSUME NEW ok \in BOOLEAN, Session(c, ok)
      PROVE  /\ pc[c] \in {"host", "session"} /\ pc' = [pc EXCEPT ![c] = "write"]
             /\ \/ todo' = [todo EXCEPT ![c] = Recorded(TRUE)] /\ FALSE \in outcomes'
                \/ todo' = [todo EXCEPT ![c] = Recorded(FALSE)] /\ TRUE \in outcomes'
             /\ UNCHANGED <<set, submitted, unwritten>>
             /\ read' \in [Mailers -> Read]
             /\ \A d \in Mailers : d # c => read'[d] = read[d]
  <2>1. NothingRead \in Read
    BY DEF NothingRead, Read, Hosts, Usernames, Passwords, Modes
  <2>2. todo' = [todo EXCEPT ![c] = Recorded(~ok)] /\ outcomes' = outcomes \cup {ok}
    BY <1>2 DEF Session
  <2>3. CASE ok = TRUE
    <3>1. Recorded(~ok) = Recorded(FALSE)
      BY <2>3
    <3> QED BY <1>2, <2>1, <2>2, <2>3, <3>1 DEF Session
  <2>4. CASE ok = FALSE
    <3>1. Recorded(~ok) = Recorded(TRUE)
      BY <2>4
    <3> QED BY <1>2, <2>1, <2>2, <2>4, <3>1 DEF Session
  <2> QED BY <2>3, <2>4
<1> QED BY <1>1, <1>2 DEF Ends

LEMMA QuietTyped ==
    ASSUME TypeInv, NEW c \in Mailers, Quiet(c)
    PROVE  read' \in [Mailers -> Read] /\ outcomes' \subseteq BOOLEAN
<1>0. /\ read \in [Mailers -> Read] /\ outcomes \subseteq BOOLEAN
      /\ set.host \in Hosts /\ set.mode \in Modes /\ set.username \in Usernames
      /\ set.password \in Passwords /\ unwritten \in BOOLEAN
  BY DEF TypeInv, TypeOK
<1>1. CASE Notify(c) \/ Recipients(c) \/ SendEmail(c) \/ Alert(c) \/ TestEmail(c)
  BY <1>0, <1>1 DEF Notify, Recipients, SendEmail, Alert, TestEmail, Step
<1>2. CASE ReadHost(c)
  BY <1>0, <1>2 DEF ReadHost, Read, Before
<1>3. CASE ReadMode(c)
  BY <1>0, <1>3 DEF ReadMode, Step, Read
<1>4. CASE ReadUsername(c)
  BY <1>0, <1>4 DEF ReadUsername, Step, Read
<1>5. CASE ReadPassword(c)
  BY <1>0, <1>5 DEF ReadPassword, Step, Read
<1> QED BY <1>1, <1>2, <1>3, <1>4, <1>5 DEF Quiet

\* The next-state relation by what its steps do to a set_many.
LEMMA Steps ==
    ASSUME Next
    PROVE  \/ \E c \in Threads : SetValue(c)
           \/ \E c \in Savers, f \in Forms : Save(c, f)
           \/ \E c \in Mailers : Quiet(c) \/ Ends(c)
           \/ Crash
BY DEF Next, MailStep, Quiet, Ends, Mailers

LEMMA TypeStep == TypeInv /\ [Next]_vars => TypeInv'
<1> SUFFICES ASSUME TypeInv, [Next]_vars PROVE TypeInv'
  OBVIOUS
<1>0. /\ set \in Settings /\ pc \in [Threads -> Labels] /\ read \in [Mailers -> Read]
      /\ todo \in [Threads -> Seq(Writes)] /\ submitted \subseteq Forms
      /\ outcomes \subseteq BOOLEAN /\ unwritten \in BOOLEAN
      /\ \A c \in Threads : pc[c] = "write" <=> todo[c] # <<>>
      /\ Mailers \subseteq Threads /\ Savers \subseteq Threads
  BY DEF TypeInv, TypeOK, Settings, Labels, Threads
<1>1. ASSUME NEW c \in Threads, SetValue(c)
      PROVE  TypeInv'
  <2>1. set' \in Settings
    <3>1. PICK w \in Writes : set' = [set EXCEPT ![w.key] = w.value]
      BY <1>1, OneWrite
    <3> QED BY <1>0, <3>1, SetTyped
  <2>2. pc' \in [Threads -> Labels]
    BY <1>0, <1>1 DEF SetValue, Goto, Labels
  <2>3. \A d \in Threads : pc'[d] = "write" <=> todo'[d] # <<>>
    BY <1>0, <1>1, OneWrite
  <2>4. /\ todo' \in [Threads -> Seq(Writes)] /\ UNCHANGED <<read, submitted, outcomes>>
        /\ unwritten' \in BOOLEAN
    BY <1>0, <1>1, OneWrite
  <2> QED BY <1>0, <2>1, <2>2, <2>3, <2>4 DEF TypeInv, TypeOK, Settings, Labels
<1>2. ASSUME NEW c \in Savers, NEW f \in Forms, Save(c, f)
      PROVE  TypeInv'
  <2>1. FormWrites(f) \in Seq(Writes) /\ FormWrites(f) # <<>>
    BY FormFacts
  <2>2. /\ todo' = [todo EXCEPT ![c] = FormWrites(f)] /\ pc' = [pc EXCEPT ![c] = "write"]
        /\ submitted' = submitted \cup {f} /\ UNCHANGED <<set, read, outcomes>>
        /\ unwritten' \in BOOLEAN
    BY <1>2 DEF Save, SetMany, Goto
  <2> QED BY <1>0, <2>1, <2>2 DEF TypeInv, TypeOK, Settings, Labels
<1>3. ASSUME NEW c \in Mailers, Quiet(c)
      PROVE  TypeInv'
  <2>1. pc' \in [Threads -> Labels]
    BY <1>0, <1>3, QuietFrame
  <2>2. \A d \in Threads : pc'[d] = "write" <=> todo'[d] # <<>>
    BY <1>0, <1>3, QuietFrame
  <2>3. UNCHANGED <<set, todo, submitted, unwritten>>
    BY <1>3, QuietFrame
  <2>4. read' \in [Mailers -> Read] /\ outcomes' \subseteq BOOLEAN
    BY <1>3, QuietTyped
  <2> QED BY <1>0, <2>1, <2>2, <2>3, <2>4 DEF TypeInv, TypeOK, Settings, Labels
<1>4. ASSUME NEW c \in Mailers, Ends(c)
      PROVE  TypeInv'
  <2>1. PICK failed \in BOOLEAN : todo' = [todo EXCEPT ![c] = Recorded(failed)]
    BY <1>4, EndsFrame
  <2>2. Recorded(failed) \in Seq(Writes) /\ Recorded(failed) # <<>>
    <3>1. Recorded(failed) \in Seq(Writes) /\ Len(Recorded(failed)) = 2
      BY RecordedFacts
    <3> QED BY <3>1, EmptySeq
  <2>3. /\ pc' = [pc EXCEPT ![c] = "write"] /\ UNCHANGED <<set, submitted, unwritten>>
        /\ read' \in [Mailers -> Read]
    BY <1>4, EndsFrame
  <2>4. outcomes' \subseteq BOOLEAN
    BY <1>0, <1>4 DEF Ends, NoHost, Session, Before
  <2> QED BY <1>0, <2>1, <2>2, <2>3, <2>4 DEF TypeInv, TypeOK, Settings, Labels
<1>5. CASE Crash
  <2>1. NothingRead \in Read
    BY DEF NothingRead, Read, Hosts, Usernames, Passwords, Modes
  <2>2. <<>> \in Seq(Writes)
    BY EmptySeq
  <2> QED BY <1>0, <1>5, <2>1, <2>2 DEF Crash, saves, TypeInv, TypeOK, Settings, Labels
<1>6. CASE UNCHANGED vars
  BY <1>0, <1>6 DEF vars, saves, TypeInv, TypeOK, Settings, Labels
<1> QED BY <1>1, <1>2, <1>3, <1>4, <1>5, <1>6, Steps

LEMMA TypeInit == Init => TypeInv
<1> SUFFICES ASSUME Init PROVE TypeInv
  OBVIOUS
<1>1. Defaults \in Settings /\ NothingRead \in Read
  BY DEF Defaults, Settings, NothingRead, Read, Hosts, Usernames, Passwords, Modes
<1>2. <<>> \in Seq(Writes)
  BY EmptySeq
<1> QED BY <1>1, <1>2 DEF Init, TypeInv, TypeOK, Settings

\* Settings, locals and statements are well typed, for any threads and forms:
\* no set_many ever stores a value of one key under another.
THEOREM Typing == Spec => []TypeOK
<1>1. Spec => []TypeInv
  BY TypeInit, TypeStep, PTL DEF Spec
<1> QED BY <1>1, PTL DEF TypeInv

-----------------------------------------------------------------------------
(* The first form. *)

FormKeys == {"mode", "host", "username"}

\* What the settings are when the form has been stored.
FormOf(f) == [mode |-> f.mode, host |-> f.host, username |-> UsernameOf(f)]

\* What a thread has left to store is what the form says, and the switch waits
\* for the keys that are not stored yet.
Ahead(c, f) == \A i \in Left(c) :
    /\ todo[c][i].key \in FormKeys => todo[c][i].value = FormOf(f)[todo[c][i].key]
    /\ todo[c][i].key = "enabled" =>
          /\ todo[c][i].value = f.enabled
          /\ \A k \in FormKeys : \/ set[k] = FormOf(f)[k]
                                 \/ \E j \in 1..(i - 1) : todo[c][j].key = k
    /\ todo[c][i].key = "password" => todo[c][i].value = PasswordOf(f)

\* The password of the form is stored, or still missing and known to be.
PasswordIs(f) == set.password = PasswordOf(f) \/ (set.password = Null /\ unwritten)

\* A sender has the password of the form, or read it too early.
HasPassword(c, f) ==
    pc[c] = "session" => \/ read[c].password = PasswordOf(f)
                         \/ read[c].password = Null /\ read[c].early

ErrorKeys == {"error", "errorAt"}

\* A sender that has seen the switch on.
Passed(c) ==
    pc[c] \in {"recipients", "send", "host", "mode", "username", "password", "session"}

\* What a sender has read since then is what the settings still are.
ReadTrue(c) ==
    /\ pc[c] \in {"mode", "username", "password", "session"} => read[c].host = set.host
    /\ pc[c] \in {"username", "password", "session"} => read[c].mode = set.mode
    /\ pc[c] \in {"password", "session"} => read[c].username = set.username

\* Once the switch is on, the settings are those of the only form.
FirstInv ==
    /\ submitted = {} =>
          /\ set.enabled = FALSE /\ set.password = Null
          /\ \A c \in Threads : \A i \in Left(c) : todo[c][i].key \in ErrorKeys
    /\ \A f \in submitted :
          /\ submitted = {f}
          /\ \A c \in Threads : Ahead(c, f)
          /\ PasswordIs(f)
          /\ \A c \in Senders : HasPassword(c, f)
          /\ set.enabled = TRUE =>
                f.enabled = TRUE /\ \A k \in FormKeys : set[k] = FormOf(f)[k]
    /\ \A c \in Senders : Passed(c) => set.enabled = TRUE
    /\ \A c \in Senders : ReadTrue(c)

LEMMA FirstSetValue ==
    ASSUME TypeInv, FirstInv, NEW c \in Threads, SetValue(c)
    PROVE  FirstInv'
<1> DEFINE w == todo[c][1]
<1>0. /\ w \in Writes /\ w.key \in Keys /\ 1 \in Left(c)
      /\ set' = [set EXCEPT ![w.key] = w.value]
      /\ pc[c] = "write" /\ pc'[c] \in {"idle", "write"}
      /\ \A d \in Threads : d # c => todo'[d] = todo[d] /\ pc'[d] = pc[d]
      /\ UNCHANGED <<read, submitted, outcomes>>
      /\ unwritten' = (unwritten /\ w.key # "password")
      /\ \A d \in Threads : Len(todo[d]) \in Nat
  BY OneWrite, LenProperties DEF TypeInv
<1>1. /\ \A i \in Left(c)' : i + 1 \in Left(c) /\ todo'[c][i] = todo[c][i + 1]
      /\ \A i \in Left(c) : i # 1 => i - 1 \in Left(c)' /\ todo'[c][i - 1] = todo[c][i]
  BY OneWrite
<1>2. \A k \in Keys : set'[k] = IF k = w.key THEN w.value ELSE set[k]
  BY <1>0 DEF TypeInv, TypeOK, Keys
<1>3. FormKeys \subseteq Keys /\ "enabled" \in Keys /\ "enabled" \notin FormKeys \cup ErrorKeys
      /\ "password" \in Keys \ (FormKeys \cup ErrorKeys) /\ "password" # "enabled"
  BY DEF FormKeys, Keys, ErrorKeys
<1> HIDE DEF w
<1>4. ASSUME submitted = {}
      PROVE  FirstInv'
  <2>1. w.key \in ErrorKeys
    BY <1>0, <1>4 DEF FirstInv, w
  <2>2. set'.enabled = FALSE /\ set'.password = Null
    BY <1>2, <1>3, <1>4, <2>1 DEF FirstInv
  <2>3. \A d \in Threads : \A i \in Left(d)' : todo'[d][i].key \in ErrorKeys
    <3>1. \A d \in Threads : \A i \in Left(d) : todo[d][i].key \in ErrorKeys
      BY <1>4 DEF FirstInv
    <3>2. \A i \in Left(c)' : todo'[c][i].key \in ErrorKeys
      BY <1>1, <3>1
    <3>3. \A d \in Threads : d # c => Left(d)' = Left(d)
      BY <1>0 DEF Left
    <3> QED BY <1>0, <3>1, <3>2, <3>3
  <2>4. \A d \in Senders : ~Passed(d)'
    BY <1>0, <1>4 DEF FirstInv, Passed, Threads, Mailers
  <2>5. \A d \in Senders : ReadTrue(d)'
    BY <2>4 DEF Passed, ReadTrue
  <2> QED BY <1>0, <1>4, <2>2, <2>3, <2>4, <2>5 DEF FirstInv
<1>5. ASSUME NEW f \in submitted
      PROVE  FirstInv'
  <2>1. submitted = {f} /\ \A d \in Threads : Ahead(d, f)
    BY DEF FirstInv
  <2>2. /\ w.key \in FormKeys => w.value = FormOf(f)[w.key]
        /\ w.key = "enabled" => /\ w.value = f.enabled
                                /\ \A k \in FormKeys : set[k] = FormOf(f)[k]
        /\ w.key = "password" => w.value = PasswordOf(f)
    BY <1>0, <2>1 DEF Ahead, w
  <2>3. \A k \in FormKeys : set[k] = FormOf(f)[k] \/ w.key = k => set'[k] = FormOf(f)[k]
    BY <1>2, <1>3, <2>2
  <2>4. ASSUME NEW d \in Threads
        PROVE  Ahead(d, f)'
    <3>1. CASE d = c
      <4> SUFFICES ASSUME NEW i \in Left(c)'
                   PROVE  /\ todo'[c][i].key \in FormKeys
                                => todo'[c][i].value = FormOf(f)[todo'[c][i].key]
                          /\ todo'[c][i].key = "enabled" =>
                                /\ todo'[c][i].value = f.enabled
                                /\ \A k \in FormKeys :
                                      \/ set'[k] = FormOf(f)[k]
                                      \/ \E j \in 1..(i - 1) : todo'[c][j].key = k
                          /\ todo'[c][i].key = "password" => todo'[c][i].value = PasswordOf(f)
        BY <3>1 DEF Ahead
      <4>1. i \in Nat /\ i + 1 \in Left(c) /\ todo'[c][i] = todo[c][i + 1]
        BY <1>1 DEF Left
      <4>2. ASSUME todo[c][i + 1].key = "enabled", NEW k \in FormKeys,
                   set'[k] # FormOf(f)[k]
            PROVE  \E j \in 1..(i - 1) : todo'[c][j].key = k
        <5>1. PICK j \in 1..((i + 1) - 1) : todo[c][j].key = k
          BY <2>1, <2>3, <4>1, <4>2 DEF Ahead
        <5>2. j # 1
          BY <2>3, <4>2, <5>1 DEF w
        <5>3. j \in Left(c) /\ j - 1 \in 1..(i - 1)
          BY <1>0, <4>1, <5>1, <5>2 DEF Left
        <5>4. todo'[c][j - 1] = todo[c][j]
          BY <1>1, <5>2, <5>3
        <5> QED BY <5>1, <5>3, <5>4
      <4> QED BY <2>1, <4>1, <4>2 DEF Ahead
    <3>2. CASE d # c
      BY <1>0, <2>1, <2>3, <3>2 DEF Ahead, Left
    <3> QED BY <3>1, <3>2
  <2>5. set'.enabled = TRUE => f.enabled = TRUE /\ \A k \in FormKeys : set'[k] = FormOf(f)[k]
    <3>1. CASE w.key = "enabled"
      BY <1>2, <1>3, <2>2, <2>3, <3>1
    <3>2. CASE w.key # "enabled"
      <4>1. set'.enabled = set.enabled
        BY <1>2, <1>3, <3>2
      <4> QED BY <2>3, <4>1 DEF FirstInv
    <3> QED BY <3>1, <3>2
  <2>6. set.enabled = TRUE => /\ set'.enabled = TRUE
                              /\ \A k \in FormKeys : set'[k] = set[k]
    <3> SUFFICES ASSUME set.enabled = TRUE
                 PROVE  set'.enabled = TRUE /\ \A k \in FormKeys : set'[k] = set[k]
      OBVIOUS
    <3>1. f.enabled = TRUE /\ \A k \in FormKeys : set[k] = FormOf(f)[k]
      BY DEF FirstInv
    <3> QED BY <1>2, <1>3, <2>2, <2>3, <3>1
  <2>7. \A d \in Senders : Passed(d)' => Passed(d) /\ d # c /\ pc'[d] = pc[d]
    BY <1>0 DEF Passed, Threads, Mailers
  <2>8. \A d \in Senders : Passed(d)' => set'.enabled = TRUE
    BY <2>6, <2>7 DEF FirstInv
  <2>9. ASSUME NEW d \in Senders
        PROVE  ReadTrue(d)'
    <3>1. CASE ~Passed(d)'
      BY <3>1 DEF Passed, ReadTrue
    <3>2. CASE Passed(d)'
      <4>1. set'.host = set.host /\ set'.mode = set.mode /\ set'.username = set.username
        BY <2>6, <2>7, <3>2 DEF FirstInv, FormKeys
      <4> QED BY <1>0, <2>7, <3>2, <4>1 DEF FirstInv, ReadTrue
    <3> QED BY <3>1, <3>2
  <2>10. PasswordIs(f)'
    <3>1. CASE w.key = "password"
      <4>1. set'.password = PasswordOf(f)
        BY <1>2, <1>3, <2>2, <3>1
      <4> QED BY <4>1 DEF PasswordIs
    <3>2. CASE w.key # "password"
      <4>1. set'.password = set.password /\ unwritten' = unwritten
        BY <1>0, <1>2, <1>3, <3>2 DEF TypeInv, TypeOK
      <4>2. PasswordIs(f)
        BY DEF FirstInv
      <4> QED BY <4>1, <4>2 DEF PasswordIs
    <3> QED BY <3>1, <3>2
  <2>11. \A d \in Senders : HasPassword(d, f)'
    <3> SUFFICES ASSUME NEW d \in Senders, pc'[d] = "session" PROVE HasPassword(d, f)'
      BY DEF HasPassword
    <3>1. pc[d] = "session" /\ HasPassword(d, f)
      BY <2>7 DEF Passed, FirstInv
    <3> QED BY <1>0, <3>1 DEF HasPassword
  <2> QED BY <1>0, <2>1, <2>4, <2>5, <2>8, <2>9, <2>10, <2>11 DEF FirstInv
<1> QED BY <1>4, <1>5

LEMMA FirstSave ==
    ASSUME MaxSaves = 1, TypeInv, FirstInv, NEW c \in Savers, NEW f \in Forms, Save(c, f)
    PROVE  FirstInv'
<1>1. /\ todo' = [todo EXCEPT ![c] = FormWrites(f)] /\ pc' = [pc EXCEPT ![c] = "write"]
      /\ submitted' = submitted \cup {f} /\ UNCHANGED <<set, read>>
      /\ Cardinality(submitted) < 1
      /\ unwritten' = (PasswordWrites(f) # <<>>)
      /\ c \in Threads
  BY DEF Save, SetMany, Goto, Threads
<1>2. submitted = {}
  <2> SUFFICES ASSUME NEW g \in submitted PROVE FALSE
    OBVIOUS
  <2>1. submitted = {g} /\ Cardinality({g}) = 1
    BY FS_Singleton DEF FirstInv
  <2> QED BY <1>1, <2>1
<1>3. submitted' = {f}
  BY <1>1, <1>2
<1>4. set.enabled = FALSE /\ set.password = Null /\ \A d \in Threads : \A i \in Left(d) : todo[d][i].key \in ErrorKeys
  BY <1>2 DEF FirstInv
<1>5. ASSUME NEW d \in Threads, d # c
      PROVE  Ahead(d, f)'
  <2>1. todo'[d] = todo[d] /\ Left(d)' = Left(d)
    BY <1>1, <1>5 DEF TypeInv, Left
  <2>2. \A i \in Left(d)' : todo'[d][i].key \in ErrorKeys
    BY <1>4, <2>1
  <2> QED BY <2>2 DEF Ahead, ErrorKeys, FormKeys
<1>6. Ahead(c, f)'
  <2>1. todo'[c] = FormWrites(f)
    BY <1>1 DEF TypeInv
  <2> DEFINE s == FormWrites(f)
  <2>2. /\ Len(s) \in {4, 5}
        /\ s[1] = Write("mode", f.mode) /\ s[2] = Write("host", f.host)
        /\ s[3] = Write("username", UsernameOf(f)) /\ s[4] = Write("enabled", f.enabled)
        /\ Len(s) = 5 => s[5].key = "password" /\ s[5].value = PasswordOf(f)
    BY FormFacts
  <2> HIDE DEF s
  <2>5. ASSUME NEW i \in 1..Len(s), s[i].key = "password"
        PROVE  s[i].value = PasswordOf(f)
    <3>1. i \in {1, 2, 3, 4} \/ (i = 5 /\ Len(s) = 5)
      BY <2>2, Positions
    <3>2. /\ s[1].key = "mode" /\ s[2].key = "host" /\ s[3].key = "username"
          /\ s[4].key = "enabled"
      BY <2>2 DEF Write
    <3> QED BY <2>2, <2>5, <3>1, <3>2
  <2>3. ASSUME NEW i \in 1..Len(s), s[i].key \in FormKeys
        PROVE  s[i].value = FormOf(f)[s[i].key]
    BY <2>2, <2>3 DEF Write, FormKeys, FormOf
  <2>4. ASSUME NEW i \in 1..Len(s), s[i].key = "enabled"
        PROVE  /\ s[i].value = f.enabled
               /\ \A k \in FormKeys : \E j \in 1..(i - 1) : s[j].key = k
    <3>1. i = 4
      <4>1. i \in {1, 2, 3, 4} \/ (i = 5 /\ Len(s) = 5)
        BY <2>2, Positions
      <4>2. /\ s[1].key = "mode" /\ s[2].key = "host" /\ s[3].key = "username"
            /\ Len(s) = 5 => s[5].key = "password"
        BY <2>2 DEF Write
      <4> QED BY <2>4, <4>1, <4>2
    <3>2. 1 \in 1..(i - 1) /\ 2 \in 1..(i - 1) /\ 3 \in 1..(i - 1)
      BY <3>1
    <3>3. s[1].key = "mode" /\ s[2].key = "host" /\ s[3].key = "username"
      BY <2>2 DEF Write
    <3> QED BY <2>2, <3>1, <3>2, <3>3 DEF Write, FormKeys
  <2> QED BY <2>1, <2>3, <2>4, <2>5 DEF Ahead, Left, s
<1>7. \A d \in Senders : ~Passed(d)'
  BY <1>1, <1>4 DEF FirstInv, Passed, TypeInv, TypeOK, Threads, Mailers
<1>8. \A d \in Senders : ReadTrue(d)'
  BY <1>7 DEF Passed, ReadTrue
<1>9. set'.enabled = FALSE
  BY <1>1, <1>4
<1>10. PasswordIs(f)'
  BY <1>1, <1>4, FormFacts DEF PasswordIs
<1>11. \A d \in Senders : HasPassword(d, f)'
  BY <1>7 DEF Passed, HasPassword
<1> QED BY <1>3, <1>5, <1>6, <1>7, <1>8, <1>9, <1>10, <1>11 DEF FirstInv

LEMMA FirstQuiet ==
    ASSUME TypeInv, FirstInv, NEW c \in Mailers, Quiet(c)
    PROVE  FirstInv'
<1>0. /\ pc' = [pc EXCEPT ![c] = pc'[c]]
      /\ UNCHANGED <<set, todo, submitted, unwritten>>
      /\ \A d \in Mailers : d # c => read'[d] = read[d] /\ pc'[d] = pc[d]
      /\ Senders \subseteq Mailers /\ Mailers \subseteq Threads
      /\ pc \in [Threads -> Labels] /\ read \in [Mailers -> Read]
  BY QuietFrame DEF TypeInv, TypeOK, Threads, Mailers, Labels
<1>1. ASSUME NEW f \in submitted, NEW d \in Threads, Ahead(d, f)
      PROVE  Ahead(d, f)'
  BY <1>0, <1>1 DEF Ahead, Left
<1>2. \A d \in Threads : Left(d)' = Left(d)
  BY <1>0 DEF Left
<1>3. ASSUME c \in Senders
      PROVE  (Passed(c)' => set.enabled = TRUE) /\ ReadTrue(c)'
  <2>0. (Passed(c) => set.enabled = TRUE) /\ ReadTrue(c) /\ c \notin Testers /\ c \in Threads
    BY <1>0, <1>3, MailerAssumption DEF FirstInv
  <2> USE DEF Move, Step, Goto, Passed, ReadTrue
  <2>1. CASE Notify(c)
    <3>1. set.enabled \in BOOLEAN
      BY DEF TypeInv, TypeOK
    <3> QED BY <1>0, <2>0, <2>1, <3>1 DEF Notify
  <2>2. CASE Recipients(c) \/ SendEmail(c) \/ Alert(c)
    BY <1>0, <2>0, <2>2 DEF Recipients, SendEmail, Alert
  <2>3. CASE ReadHost(c)
    BY <1>0, <1>3, <2>0, <2>3 DEF ReadHost, Read
  <2>4. CASE ReadMode(c)
    BY <1>0, <1>3, <2>0, <2>4 DEF ReadMode, Read
  <2>5. CASE ReadUsername(c)
    BY <1>0, <1>3, <2>0, <2>5 DEF ReadUsername, Read
  <2>6. CASE ReadPassword(c)
    BY <1>0, <1>3, <2>0, <2>6 DEF ReadPassword, Read
  <2> QED BY <2>0, <2>1, <2>2, <2>3, <2>4, <2>5, <2>6 DEF Quiet
<1>4. ASSUME NEW d \in Senders
      PROVE  (Passed(d)' => set.enabled = TRUE) /\ ReadTrue(d)'
  <2>1. CASE d = c
    BY <1>3, <2>1
  <2>2. CASE d # c
    <3>1. (Passed(d) => set.enabled = TRUE) /\ ReadTrue(d)
      BY DEF FirstInv
    <3> QED BY <1>0, <2>2, <3>1 DEF Passed, ReadTrue
  <2> QED BY <2>1, <2>2
<1>5. ASSUME NEW f \in submitted, NEW d \in Senders
      PROVE  PasswordIs(f)' /\ HasPassword(d, f)'
  <2>1. PasswordIs(f) /\ HasPassword(d, f)
    BY DEF FirstInv
  <2>2. PasswordIs(f)'
    BY <1>0, <2>1 DEF PasswordIs
  <2>3. CASE d # c
    BY <1>0, <2>1, <2>2, <2>3 DEF HasPassword
  <2>4. CASE d = c /\ pc'[c] = "session"
    <3>1. ReadPassword(c)
      <4> USE DEF Move, Step, Goto
      <4>1. c \in Senders /\ c \notin Testers /\ c \in Threads
        BY <1>0, <2>4, MailerAssumption
      <4> QED BY <1>0, <2>4, <4>1
              DEF Quiet, Alert, Notify, Recipients, SendEmail, ReadHost, ReadMode, ReadUsername
    <3>2. read'[c].password = set.password /\ read'[c].early = unwritten
      BY <1>0, <3>1 DEF ReadPassword, Read
    <3> QED BY <2>1, <2>2, <2>4, <3>2 DEF HasPassword, PasswordIs
  <2> QED BY <2>2, <2>3, <2>4 DEF HasPassword
<1>6. ASSUME NEW f \in submitted
      PROVE  PasswordIs(f)'
  <2>1. PasswordIs(f)
    BY DEF FirstInv
  <2> QED BY <1>0, <2>1 DEF PasswordIs
<1> QED BY <1>0, <1>1, <1>2, <1>4, <1>5, <1>6 DEF FirstInv

LEMMA FirstEnds ==
    ASSUME TypeInv, FirstInv, NEW c \in Mailers, Ends(c)
    PROVE  FirstInv'
<1>0. /\ pc' = [pc EXCEPT ![c] = "write"]
      /\ UNCHANGED <<set, submitted, unwritten>>
      /\ \A d \in Mailers : d # c => read'[d] = read[d]
      /\ Senders \subseteq Mailers /\ Mailers \subseteq Threads
      /\ pc \in [Threads -> Labels]
  BY EndsFrame DEF TypeInv, TypeOK, Threads, Mailers, Labels
<1>1. PICK failed \in BOOLEAN : todo' = [todo EXCEPT ![c] = Recorded(failed)]
  BY EndsFrame
<1>2. \A d \in Threads : d # c => todo'[d] = todo[d] /\ Left(d)' = Left(d)
  BY <1>1 DEF TypeInv, Left
<1>3. \A i \in Left(c)' : todo'[c][i].key \in ErrorKeys
  <2>1. todo'[c] = Recorded(failed)
    BY <1>0, <1>1 DEF TypeInv
  <2> QED BY <2>1, RecordedFacts DEF Left, ErrorKeys
<1>4. ASSUME NEW f \in submitted, NEW d \in Threads
      PROVE  Ahead(d, f)'
  <2>1. CASE d = c
    BY <1>3, <2>1 DEF Ahead, ErrorKeys, FormKeys
  <2>2. CASE d # c
    <3>1. Ahead(d, f)
      BY DEF FirstInv
    <3> QED BY <1>0, <1>2, <2>2, <3>1 DEF Ahead
  <2> QED BY <2>1, <2>2
<1>5. submitted = {} => \A d \in Threads : \A i \in Left(d)' : todo'[d][i].key \in ErrorKeys
  BY <1>2, <1>3 DEF FirstInv
<1>6. ASSUME NEW d \in Senders
      PROVE  (Passed(d)' => set.enabled = TRUE) /\ ReadTrue(d)'
  <2>1. CASE d = c
    BY <1>0, <2>1 DEF Passed, ReadTrue
  <2>2. CASE d # c
    <3>1. (Passed(d) => set.enabled = TRUE) /\ ReadTrue(d)
      BY DEF FirstInv
    <3> QED BY <1>0, <2>2, <3>1 DEF Passed, ReadTrue
  <2> QED BY <2>1, <2>2
<1>7. ASSUME NEW f \in submitted
      PROVE  PasswordIs(f)' /\ \A d \in Senders : HasPassword(d, f)'
  <2>1. PasswordIs(f) /\ \A d \in Senders : HasPassword(d, f)
    BY DEF FirstInv
  <2>2. PasswordIs(f)'
    BY <1>0, <2>1 DEF PasswordIs
  <2>3. \A d \in Senders : HasPassword(d, f)'
    BY <1>0, <2>1 DEF HasPassword
  <2> QED BY <2>2, <2>3
<1> QED BY <1>0, <1>4, <1>5, <1>6, <1>7 DEF FirstInv

LEMMA FirstCrash ==
    ASSUME TypeInv, FirstInv, Crash
    PROVE  FirstInv'
<1>1. /\ \A d \in Threads : pc'[d] = "idle" /\ todo'[d] = <<>>
      /\ UNCHANGED <<set, submitted, unwritten>> /\ Senders \subseteq Threads
  BY DEF Crash, saves, Threads, Mailers
<1>2. \A d \in Threads : Left(d)' = {}
  BY <1>1, NoneLeft DEF Left
<1>3. \A d \in Senders : ~Passed(d)' /\ ReadTrue(d)'
  BY <1>1 DEF Passed, ReadTrue
<1>4. \A f \in submitted, d \in Threads : Ahead(d, f)'
  BY <1>2 DEF Ahead
<1>5. ASSUME NEW f \in submitted
      PROVE  PasswordIs(f)' /\ \A d \in Senders : HasPassword(d, f)'
  <2>1. PasswordIs(f)
    BY DEF FirstInv
  <2>2. \A d \in Senders : HasPassword(d, f)'
    BY <1>1 DEF HasPassword
  <2> QED BY <1>1, <2>1, <2>2 DEF PasswordIs
<1> QED BY <1>1, <1>2, <1>3, <1>4, <1>5 DEF FirstInv

LEMMA FirstStutter ==
    ASSUME FirstInv, UNCHANGED vars
    PROVE  FirstInv'
BY DEF FirstInv, vars, saves, Left, Ahead, Passed, ReadTrue, PasswordIs, HasPassword

LEMMA FirstInit == Init => FirstInv
<1> SUFFICES ASSUME Init PROVE FirstInv
  OBVIOUS
<1>1. \A c \in Threads : Left(c) = {}
  BY NoneLeft DEF Init, Left
<1>2. \A c \in Senders : ~Passed(c) /\ ReadTrue(c)
  BY DEF Init, Passed, ReadTrue, Threads, Mailers
<1> QED BY <1>1, <1>2 DEF Init, FirstInv, Defaults

\* While an installation is configured for the first time, every alert finds
\* sending switched off or uses the server, the mode and the user name of the
\* form, and its password unless it read it before it was stored, for any
\* senders and forms and wherever the process dies.
THEOREM FormUsed == ASSUME MaxSaves = 1 PROVE Spec => []AlertsUseTheForm
<1>1. TypeInv /\ FirstInv /\ [Next]_vars => FirstInv'
  BY FirstSetValue, FirstSave, FirstQuiet, FirstEnds, FirstCrash, FirstStutter, Steps
<1>2. FirstInv => AlertsUseTheForm
  <2> SUFFICES ASSUME FirstInv, NEW c \in Senders, pc[c] = "session"
               PROVE  \E f \in submitted :
                          /\ read[c].host = f.host
                          /\ read[c].mode = f.mode
                          /\ read[c].username = UsernameOf(f)
                          /\ \/ read[c].password = PasswordOf(f)
                             \/ read[c].password = Null /\ read[c].early
    BY DEF AlertsUseTheForm
  <2>1. Passed(c) /\ set.enabled = TRUE
    BY DEF FirstInv, Passed
  <2>2. PICK f \in submitted : \A k \in FormKeys : set[k] = FormOf(f)[k]
    BY <2>1 DEF FirstInv
  <2>3. set.host = f.host /\ set.mode = f.mode /\ set.username = UsernameOf(f)
    BY <2>2 DEF FormKeys, FormOf
  <2>4. read[c].host = set.host /\ read[c].mode = set.mode /\ read[c].username = set.username
    BY DEF FirstInv, ReadTrue
  <2>5. \/ read[c].password = PasswordOf(f)
        \/ read[c].password = Null /\ read[c].early
    BY DEF FirstInv, HasPassword
  <2> QED BY <2>3, <2>4, <2>5
<1> QED BY <1>1, <1>2, TypeInit, TypeStep, FirstInit, PTL DEF Spec

-----------------------------------------------------------------------------
(* The last error. *)

\* A delivery that has not yet stored this key of its outcome.
Owes(c, k) ==
    /\ Attempting(c)
    /\ pc[c] = "write" => \E i \in Left(c) : todo[c][i].key = k

\* What is about to be stored is the outcome of one of the last attempts, and
\* when they ended alike it is stored or about to be.
ErrorInv ==
    /\ \A c \in Threads : \A i \in Left(c) : todo[c][i].key \in ErrorKeys =>
          /\ c \in Mailers
          /\ todo[c][i].value = TRUE => FALSE \in outcomes
          /\ todo[c][i].value = FALSE => TRUE \in outcomes
    /\ \A k \in ErrorKeys :
          /\ outcomes = {TRUE} => set[k] = FALSE \/ \E c \in Mailers : Owes(c, k)
          /\ outcomes = {FALSE} => set[k] = TRUE \/ \E c \in Mailers : Owes(c, k)

\* The attempts of others keep the outcomes that they overlap with.
LEMMA Outcomes ==
    ASSUME TypeInv, NEW c \in Mailers, Quiet(c) \/ Ends(c)
    PROVE  /\ outcomes' = outcomes \/ Attempting(c)'
           /\ (\E d \in Mailers \ {c} : Attempting(d)) => outcomes \subseteq outcomes'
           /\ Quiet(c) /\ Attempting(c) => Attempting(c)' /\ pc[c] # "write" /\ outcomes' = outcomes
<1> USE DEF TypeInv, TypeOK, Threads, Mailers, Attempting, Move, Step, Goto, SetMany
<1>1. CASE Notify(c) \/ Recipients(c) \/ SendEmail(c) \/ Alert(c) \/ TestEmail(c)
  BY <1>1 DEF Notify, Recipients, SendEmail, Alert, TestEmail
<1>2. CASE ReadMode(c) \/ ReadUsername(c) \/ ReadPassword(c)
  BY <1>2 DEF ReadMode, ReadUsername, ReadPassword
<1>3. CASE ReadHost(c)
  BY <1>3 DEF ReadHost, Before
<1>4. CASE NoHost(c)
  BY <1>4 DEF NoHost, Before
<1>5. ASSUME NEW ok \in BOOLEAN, Session(c, ok)
      PROVE  Attempting(c)' /\ outcomes \subseteq outcomes'
  BY <1>5 DEF Session
<1>6. ~(Quiet(c) /\ Ends(c))
  <2>1. ASSUME Quiet(c), Ends(c) PROVE FALSE
    BY <2>1, QuietFrame, EndsFrame
  <2> QED BY <2>1
<1> QED BY <1>1, <1>2, <1>3, <1>4, <1>5, <1>6 DEF Quiet, Ends

LEMMA ErrorSetValue ==
    ASSUME TypeInv, ErrorInv, NEW c \in Threads, SetValue(c)
    PROVE  ErrorInv'
<1> DEFINE w == todo[c][1]
<1>0. /\ w \in Writes /\ w.key \in Keys /\ 1 \in Left(c)
      /\ set' = [set EXCEPT ![w.key] = w.value]
      /\ pc[c] = "write" /\ pc'[c] = IF todo'[c] = <<>> THEN "idle" ELSE "write"
      /\ \A d \in Threads : d # c => todo'[d] = todo[d] /\ pc'[d] = pc[d]
      /\ UNCHANGED outcomes
  BY OneWrite
<1>1. /\ \A i \in Left(c)' : i + 1 \in Left(c) /\ todo'[c][i] = todo[c][i + 1]
      /\ \A i \in Left(c) : i # 1 => i - 1 \in Left(c)' /\ todo'[c][i - 1] = todo[c][i]
  BY OneWrite
<1>2. \A k \in Keys : set'[k] = IF k = w.key THEN w.value ELSE set[k]
  BY <1>0 DEF TypeInv, TypeOK, Keys
<1>3. w.key \in ErrorKeys => /\ w.value \in BOOLEAN
                             /\ w.value = TRUE => FALSE \in outcomes
                             /\ w.value = FALSE => TRUE \in outcomes
  BY <1>0 DEF ErrorInv, Writes, ErrorKeys
<1>4. \A d \in Threads : d # c => Left(d)' = Left(d)
  BY <1>0 DEF Left
<1> HIDE DEF w
<1>5. ASSUME NEW d \in Threads, NEW i \in Left(d)', todo'[d][i].key \in ErrorKeys
      PROVE  /\ d \in Mailers
             /\ todo'[d][i].value = TRUE => FALSE \in outcomes'
             /\ todo'[d][i].value = FALSE => TRUE \in outcomes'
  <2>1. PICK j \in Left(d) : todo'[d][i] = todo[d][j]
    BY <1>0, <1>1, <1>4, <1>5
  <2> QED BY <1>0, <1>5, <2>1 DEF ErrorInv
<1>6. ASSUME NEW k \in ErrorKeys, k # w.key, NEW d \in Mailers, Owes(d, k)
      PROVE  Owes(d, k)'
  <2>1. d \in Threads
    BY DEF Threads
  <2>2. CASE d # c
    BY <1>0, <1>4, <1>6, <2>1, <2>2 DEF Owes, Attempting
  <2>3. CASE d = c
    <3>1. PICK i \in Left(c) : todo[c][i].key = k
      BY <1>0, <1>6, <2>3 DEF Owes
    <3>2. i - 1 \in Left(c)' /\ todo'[c][i - 1].key = k
      BY <1>1, <1>6, <3>1 DEF w
    <3>3. todo'[c] # <<>>
      BY <3>2, NoneLeft DEF Left
    <3> QED BY <1>0, <2>3, <3>2, <3>3 DEF Owes, Attempting
  <2> QED BY <2>2, <2>3
<1>7. ASSUME NEW k \in ErrorKeys
      PROVE  /\ outcomes' = {TRUE} => set'[k] = FALSE \/ \E d \in Mailers : Owes(d, k)'
             /\ outcomes' = {FALSE} => set'[k] = TRUE \/ \E d \in Mailers : Owes(d, k)'
  <2>1. k \in Keys
    BY DEF ErrorKeys, Keys
  <2>2. CASE k = w.key
    <3>1. set'[k] = w.value /\ w.value \in {TRUE, FALSE}
      BY <1>2, <1>3, <2>1, <2>2
    <3> QED BY <1>0, <1>3, <2>2, <3>1
  <2>3. CASE k # w.key
    <3>1. set'[k] = set[k]
      BY <1>2, <2>1, <2>3
    <3> QED BY <1>0, <1>6, <2>3, <3>1 DEF ErrorInv
  <2> QED BY <2>2, <2>3
<1> QED BY <1>5, <1>7 DEF ErrorInv

LEMMA ErrorSave ==
    ASSUME TypeInv, ErrorInv, NEW c \in Savers, NEW f \in Forms, Save(c, f)
    PROVE  ErrorInv'
<1>1. /\ todo' = [todo EXCEPT ![c] = FormWrites(f)] /\ pc' = [pc EXCEPT ![c] = "write"]
      /\ pc[c] = "idle" /\ UNCHANGED <<set, outcomes>>
      /\ c \in Threads
  BY DEF Save, SetMany, Goto, Threads
<1>2. \A d \in Threads : d # c => todo'[d] = todo[d] /\ Left(d)' = Left(d) /\ pc'[d] = pc[d]
  BY <1>1 DEF TypeInv, TypeOK, Left
<1>3. \A i \in Left(c)' : todo'[c][i].key \notin ErrorKeys
  <2> DEFINE s == FormWrites(f)
  <2>0. /\ Len(s) \in {4, 5}
        /\ s[1] = Write("mode", f.mode) /\ s[2] = Write("host", f.host)
        /\ s[3] = Write("username", UsernameOf(f)) /\ s[4] = Write("enabled", f.enabled)
        /\ Len(s) = 5 => s[5].key = "password"
    BY FormFacts
  <2>2. todo'[c] = s
    BY <1>1 DEF TypeInv
  <2> HIDE DEF s
  <2>1. /\ Len(s) \in {4, 5}
        /\ s[1].key = "mode" /\ s[2].key = "host" /\ s[3].key = "username"
        /\ s[4].key = "enabled"
        /\ Len(s) = 5 => s[5].key = "password"
    BY <2>0 DEF Write
  <2>3. \A i \in 1..Len(s) : i \in {1, 2, 3, 4} \/ (i = 5 /\ Len(s) = 5)
    BY <2>1, Positions
  <2> QED BY <2>1, <2>2, <2>3 DEF Left, ErrorKeys
<1>4. ASSUME NEW k \in ErrorKeys, NEW d \in Mailers, Owes(d, k)
      PROVE  Owes(d, k)'
  <2>1. d # c /\ d \in Threads
    BY <1>1, <1>4 DEF Owes, Attempting, Threads
  <2> QED BY <1>2, <1>4, <2>1 DEF Owes, Attempting
<1>5. ASSUME NEW d \in Threads, NEW i \in Left(d)', todo'[d][i].key \in ErrorKeys
      PROVE  /\ d \in Mailers
             /\ todo'[d][i].value = TRUE => FALSE \in outcomes'
             /\ todo'[d][i].value = FALSE => TRUE \in outcomes'
  <2>1. d # c
    BY <1>3, <1>5
  <2> QED BY <1>1, <1>2, <1>5, <2>1 DEF ErrorInv
<1>6. \A k \in ErrorKeys :
        /\ outcomes' = {TRUE} => set'[k] = FALSE \/ \E d \in Mailers : Owes(d, k)'
        /\ outcomes' = {FALSE} => set'[k] = TRUE \/ \E d \in Mailers : Owes(d, k)'
  BY <1>1, <1>4 DEF ErrorInv
<1> QED BY <1>5, <1>6 DEF ErrorInv

LEMMA ErrorQuiet ==
    ASSUME TypeInv, ErrorInv, NEW c \in Mailers, Quiet(c)
    PROVE  ErrorInv'
<1>0. /\ UNCHANGED <<set, todo>> /\ pc[c] # "write" /\ pc'[c] # "write"
      /\ \A d \in Mailers : d # c => pc'[d] = pc[d]
      /\ \A d \in Threads : Left(d)' = Left(d)
      /\ Mailers \subseteq Threads
  BY QuietFrame DEF TypeInv, TypeOK, Threads, Left, Labels
<1>1. ASSUME NEW d \in Threads, NEW i \in Left(d)', todo'[d][i].key \in ErrorKeys
      PROVE  /\ d \in Mailers
             /\ todo'[d][i].value = TRUE => FALSE \in outcomes'
             /\ todo'[d][i].value = FALSE => TRUE \in outcomes'
  <2>1. i \in Left(d) /\ d \in Mailers /\ todo'[d] = todo[d]
    BY <1>0, <1>1 DEF ErrorInv
  <2>2. todo[d] # <<>>
    BY <2>1, NoneLeft DEF Left
  <2>3. pc[d] = "write" /\ d # c
    BY <1>0, <2>2 DEF TypeInv, TypeOK
  <2>4. outcomes \subseteq outcomes'
    BY <2>1, <2>3, Outcomes DEF Attempting
  <2> QED BY <1>1, <2>1, <2>4 DEF ErrorInv
<1>2. ASSUME NEW k \in ErrorKeys
      PROVE  /\ outcomes' = {TRUE} => set'[k] = FALSE \/ \E d \in Mailers : Owes(d, k)'
             /\ outcomes' = {FALSE} => set'[k] = TRUE \/ \E d \in Mailers : Owes(d, k)'
  <2>1. CASE Attempting(c)'
    <3>1. Owes(c, k)'
      BY <1>0, <2>1 DEF Owes
    <3> QED BY <3>1
  <2>2. CASE ~Attempting(c)'
    <3>1. outcomes' = outcomes /\ ~Attempting(c)
      BY <2>2, Outcomes
    <3>2. \A d \in Mailers : Owes(d, k) => Owes(d, k)'
      BY <1>0, <3>1 DEF Owes, Attempting
    <3> QED BY <1>0, <3>1, <3>2 DEF ErrorInv
  <2> QED BY <2>1, <2>2
<1> QED BY <1>1, <1>2 DEF ErrorInv

LEMMA ErrorEnds ==
    ASSUME TypeInv, ErrorInv, NEW c \in Mailers, Ends(c)
    PROVE  ErrorInv'
<1>0. /\ pc' = [pc EXCEPT ![c] = "write"] /\ UNCHANGED set
      /\ Mailers \subseteq Threads /\ c \in Threads /\ pc'[c] = "write"
      /\ \A d \in Mailers : d # c => pc'[d] = pc[d]
  BY EndsFrame DEF TypeInv, TypeOK, Threads
<1>1. PICK failed \in BOOLEAN :
          /\ todo' = [todo EXCEPT ![c] = Recorded(failed)]
          /\ failed = TRUE => FALSE \in outcomes'
          /\ failed = FALSE => TRUE \in outcomes'
  BY EndsFrame
<1>2. /\ todo'[c] = Recorded(failed)
      /\ \A d \in Threads : d # c => todo'[d] = todo[d] /\ Left(d)' = Left(d)
  BY <1>0, <1>1 DEF TypeInv, Left
<1>3. /\ Left(c)' = 1..2
      /\ todo'[c][1].key = "error" /\ todo'[c][1].value = failed
      /\ todo'[c][2].key = "errorAt" /\ todo'[c][2].value = failed
  BY <1>2, RecordedFacts DEF Left
<1>4. \A k \in ErrorKeys : Owes(c, k)'
  <2>1. 1 \in Left(c)' /\ 2 \in Left(c)'
    BY <1>3
  <2> QED BY <1>0, <1>3, <2>1 DEF Owes, Attempting, ErrorKeys
<1>5. ASSUME NEW d \in Threads, NEW i \in Left(d)', todo'[d][i].key \in ErrorKeys
      PROVE  /\ d \in Mailers
             /\ todo'[d][i].value = TRUE => FALSE \in outcomes'
             /\ todo'[d][i].value = FALSE => TRUE \in outcomes'
  <2>1. CASE d = c
    <3>1. i \in {1, 2} /\ todo'[c][i].value = failed
      BY <1>3, <1>5, <2>1
    <3> QED BY <1>1, <2>1, <3>1
  <2>2. CASE d # c
    <3>1. i \in Left(d) /\ todo'[d] = todo[d] /\ d \in Mailers
      BY <1>2, <1>5, <2>2 DEF ErrorInv
    <3>2. todo[d] # <<>>
      BY <3>1, NoneLeft DEF Left
    <3>3. pc[d] = "write"
      BY <3>2 DEF TypeInv, TypeOK
    <3>4. outcomes \subseteq outcomes'
      BY <2>2, <3>1, <3>3, Outcomes DEF Attempting
    <3> QED BY <1>5, <3>1, <3>4 DEF ErrorInv
  <2> QED BY <2>1, <2>2
<1> QED BY <1>4, <1>5 DEF ErrorInv

LEMMA ErrorCrash ==
    ASSUME TypeInv, ErrorInv, Crash
    PROVE  ErrorInv'
<1>1. \A d \in Threads : Left(d)' = {}
  BY NoneLeft DEF Crash, Left
<1>2. outcomes' # {TRUE} /\ outcomes' # {FALSE}
  BY DEF Crash
<1> QED BY <1>1, <1>2 DEF ErrorInv

LEMMA ErrorStutter ==
    ASSUME ErrorInv, UNCHANGED vars
    PROVE  ErrorInv'
BY DEF ErrorInv, vars, Left, Owes, Attempting

\* When the last attempts ended alike, the error that is shown and its time are
\* theirs, in whatever order they stored them, for any senders and forms.
THEOREM LastError == Spec => []LastErrorExact
<1>1. Init => ErrorInv
  <2> SUFFICES ASSUME Init PROVE ErrorInv
    OBVIOUS
  <2>1. \A c \in Threads : Left(c) = {}
    BY NoneLeft DEF Init, Left
  <2> QED BY <2>1 DEF Init, ErrorInv
<1>2. TypeInv /\ ErrorInv /\ [Next]_vars => ErrorInv'
  BY ErrorSetValue, ErrorSave, ErrorQuiet, ErrorEnds, ErrorCrash, ErrorStutter, Steps
<1>3. ErrorInv => LastErrorExact
  <2> SUFFICES ASSUME ErrorInv, NEW ok \in BOOLEAN, outcomes = {ok},
                      \A c \in Mailers : ~Attempting(c)
               PROVE  set.error = ~ok /\ set.errorAt = ~ok
    BY DEF LastErrorExact
  <2>1. \A k \in ErrorKeys : \A c \in Mailers : ~Owes(c, k)
    BY DEF Owes
  <2>2. CASE ok = TRUE
    BY <2>1, <2>2 DEF ErrorInv, ErrorKeys
  <2>3. CASE ok = FALSE
    BY <2>1, <2>3 DEF ErrorInv, ErrorKeys
  <2> QED BY <2>2, <2>3
<1> QED BY <1>1, <1>2, <1>3, TypeInit, TypeStep, PTL DEF Spec

=============================================================================
