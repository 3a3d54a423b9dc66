------------------------------- MODULE Probes -------------------------------
(***************************************************************************)
(* What a target form lets through and what a probe of it concludes:       *)
(* _read_target_form of app/views.py, is_valid_host of app/util.py and     *)
(* run_check of app/checks.py.  The ping binary, sockets and urllib are    *)
(* external: they answer for a world, chosen anew for every probe.  Times  *)
(* of a world are milliseconds.                                            *)
(***************************************************************************)
EXTENDS Integers

CONSTANTS Null, Blank, Garbled,  \* no value, an empty text, a text that is no number
          Forms,                 \* the forms that are sent
          PingWorlds, TcpWorlds, HttpWorlds

Platforms == {"Windows", "Darwin", "Linux"}
CheckTypes == {"icmp", "tcp", "http"}
HttpsPorts == {443, 8443}
MaxPort == 65535
Ports == 1..MaxPort

\* The numbers of the form: default, lowest and highest.
Numbers == [expect_status    |-> <<200, 100, 599>>,
            interval_seconds |-> <<60, 5, 86400>>,
            timeout_seconds  |-> <<5, 1, 300>>,
            fail_threshold   |-> <<3, 1, 100>>]

\* What is assumed of the constants: a form is sent with texts or numbers, a
\* world answers with numbers, and neither "ok" nor a number is Null.
ProbesConstants ==
    /\ Null \notin Int /\ Null # "ok"
    /\ Forms \subseteq [host : STRING, check_type : STRING, verify_tls : BOOLEAN,
                        port : Int \cup {Blank, Garbled},
                        numbers : [DOMAIN Numbers -> Int \cup {Blank, Garbled}]]
    /\ PingWorlds \subseteq [is : STRING, after : Nat]
    /\ HttpWorlds \subseteq [port : Nat, valid_cert : BOOLEAN, body : BOOLEAN, status : Nat,
                             hop : {"none", "http", "https"}, hop_status : Nat]

VARIABLES platform,  \* platform.system()
          target,    \* the row of the target, Null before it is created
          world,     \* what the last probe met
          verdict    \* its CheckResult, Null before the first

vars == <<platform, target, world, verdict>>

Init ==
    /\ platform \in Platforms
    /\ target = Null /\ world = Null /\ verdict = Null

-----------------------------------------------------------------------------
(* The form. *)

\* Hosts by how they are written; "name%zone" and "?" are no hosts.
IsValidHost(h) == h \in {"name", "v4", "v6", "[v6]", "v6%zone"}

IsIpv6(h) == h \in {"v6", "[v6]", "v6%zone"}

\* _positive_int; Null stands for an entry in errors.
PositiveInt(field, text) ==
    IF text = Blank THEN Numbers[field][1]
    ELSE IF text # Garbled /\ text \in Numbers[field][2]..Numbers[field][3]
         THEN text ELSE Null

\* Mutant: the port of a TCP check is not asked for.
PortErrorLax(f) == f.port # Blank /\ f.port \notin Ports

PortError(f) ==
    IF f.port = Blank THEN f.check_type = "tcp"
    ELSE f.port = Garbled \/ f.port \notin Ports

\* _read_target_form: the values, and whether there is any error.
Values(f) ==
    [f EXCEPT !.port = IF @ = Blank THEN Null ELSE @,
              !.numbers = [n \in DOMAIN Numbers |-> PositiveInt(n, f.numbers[n])]]

FormErrors(f) ==
    \/ ~IsValidHost(f.host)
    \/ f.check_type \notin CheckTypes
    \/ PortError(f)
    \/ \E n \in DOMAIN Numbers : PositiveInt(n, f.numbers[n]) = Null

\* target_new; target_edit stores the same values over an older row.
SaveTarget ==
    /\ target = Null
    /\ \E f \in Forms : ~FormErrors(f) /\ target' = Values(f)
    /\ UNCHANGED <<platform, world, verdict>>

-----------------------------------------------------------------------------
(* Probes.  A verdict is "ok" or why not. *)

AtLeast(low, n) == IF n < low THEN low ELSE n

\* _ping_command: the value of its timeout option.
PingOption(timeout) ==
    IF platform = "Linux" THEN AtLeast(1, timeout) ELSE AtLeast(1, timeout * 1000)

\* The ping binary waits for so long, in milliseconds.
PingWaits(option) == IF platform = "Linux" THEN option * 1000 ELSE option

\* What ping does in world w: it is missing, hangs in its resolver, hears from a
\* router, or from the host after w.after.  It ends at a time, with an exit code
\* and a text that has a TTL or not: Windows exits with 0 when a router answers,
\* and prints no TTL for IPv6.
Ping(host, option, w) ==
    CASE w.is = "reply" /\ w.after <= PingWaits(option) ->
            [at |-> w.after, code |-> 0, ttl |-> ~(platform = "Windows" /\ IsIpv6(host))]
      [] w.is = "router" ->
            [at |-> 0, code |-> IF platform = "Windows" THEN 0 ELSE 1, ttl |-> FALSE]
      [] OTHER -> [at |-> PingWaits(option), code |-> 1, ttl |-> FALSE]

Backstop(timeout) == AtLeast(2000, timeout * 1000 + 5000)

\* Mutant: the exit code is enough.
AnsweredByCode(p) == p.code = 0

Answered(p) == p.code = 0 /\ (platform = "Windows" => p.ttl)

CheckIcmp(host, timeout, w) ==
    LET p == Ping(host, PingOption(timeout), w)
    IN CASE w.is = "missing" -> "no ping"
         [] w.is = "stuck" \/ p.at > Backstop(timeout) -> "killed"
         [] OTHER -> IF Answered(p) THEN "ok" ELSE "no reply"

\* socket.create_connection in world w accepts, or raises what it raises.
CheckTcp(port, w) == IF w = port THEN "ok" ELSE "no connection"

\* build_http_url; the host is written with its brackets taken off.
BuildHttpUrl(host, port) ==
    [scheme |-> IF port \in HttpsPorts THEN "https" ELSE "http",
     brackets |-> IsIpv6(host),
     port |-> IF port \in {80, 443} THEN Null ELSE port]

\* The port urllib asks, and whether it finds a host in the URL.
PortOf(url) ==
    IF url.port # Null THEN url.port ELSE IF url.scheme = "https" THEN 443 ELSE 80
Readable(url, host) == url.brackets = IsIpv6(host)

\* urlopen: it follows a redirect, and without a context of its own it verifies
\* certificates.  The result is a status, or Null for an URLError.
Urlopen(url, host, verify, w) ==
    LET reached == Readable(url, host) /\ w.port = PortOf(url)
        trusted == w.valid_cert \/ (url.scheme = "https" /\ ~verify)
    IN IF ~reached \/ (url.scheme = "https" /\ ~trusted) THEN Null
       ELSE IF w.hop = "none" THEN w.status
       ELSE IF w.hop = "https" /\ ~trusted THEN Null ELSE w.hop_status

\* Mutant: an HTTPError counts as unreachable.
CheckHttpErrorIsDown(t, w) ==
    LET url == BuildHttpUrl(t.host, t.port)
        status == Urlopen(url, t.host, t.verify_tls, w)
    IN IF status = Null \/ status >= 300 THEN "no response"
       ELSE IF ~w.body THEN "no response"
       ELSE IF status = t.numbers.expect_status THEN "ok" ELSE "status"

\* check_http.  An HTTPError carries a status, and draining it may fail; a body
\* that stalls after a success raises socket.timeout.
CheckHttp(t, w) ==
    LET url == BuildHttpUrl(t.host, t.port)
        status == Urlopen(url, t.host, t.verify_tls, w)
    IN IF status = Null \/ (status < 300 /\ ~w.body) THEN "no response"
       ELSE IF status = t.numbers.expect_status THEN "ok" ELSE "status"

\* run_check.
RunCheck(t, w) ==
    CASE t.check_type = "tcp" -> IF t.port = Null THEN "no port" ELSE CheckTcp(t.port, w)
      [] t.check_type = "http" -> CheckHttp(t, w)
      [] OTHER -> CheckIcmp(t.host, t.numbers.timeout_seconds, w)

Worlds(type) ==
    CASE type = "tcp" -> TcpWorlds [] type = "http" -> HttpWorlds [] OTHER -> PingWorlds

Probe ==
    /\ target # Null /\ verdict = Null
    /\ world' \in Worlds(target.check_type)
    /\ verdict' = RunCheck(target, world')
    /\ UNCHANGED <<platform, target>>

\* The target is deleted, for the next form.
DeleteTarget ==
    /\ target # Null
    /\ target' = Null /\ world' = Null /\ verdict' = Null
    /\ UNCHANGED platform

Next == SaveTarget \/ Probe \/ DeleteTarget

Spec == Init /\ [][Next]_vars

-----------------------------------------------------------------------------
(* Properties. *)

\* Every stored number is in the range its form promises, whatever was typed:
\* nobody is probed without a pause, a timeout or a threshold, and no target is
\* DOWN because the form let it go without a port.
TypeOK ==
    target # Null =>
        /\ target.check_type \in CheckTypes
        /\ target.port \in Ports \/ (target.port = Null /\ target.check_type # "tcp")
        /\ \A n \in DOMAIN Numbers :
              Numbers[n][2] <= target.numbers[n] /\ target.numbers[n] <= Numbers[n][3]

\* The port a target is configured with; 80 for an HTTP check without one.
ConfiguredPort(t) == IF t.port = Null THEN 80 ELSE t.port

\* The status that an HTTP check compares: that of the configured host, or,
\* when it redirects, that of the page it leads to, whoever serves it.
ComparedStatus(w) == IF w.hop = "none" THEN w.status ELSE w.hop_status

\* A ping is ok only if the host itself replied, no router in its place, and
\* within the timeout of the form.  An HTTP check is ok only if something
\* answered on the configured port, the status it compares is the expected one,
\* a page that is a success did not stall, and, unless verification is off, the
\* certificate was to be trusted wherever it went over https.  So without a
\* redirect the host answered as configured; a host that redirects may have
\* answered anything, and nothing is said of the time an HTTP check took.  A TCP
\* check says what create_connection says.
OkWasAnswered ==
    verdict = "ok" =>
        /\ target.check_type = "icmp" =>
              world.is = "reply" /\ world.after <= target.numbers.timeout_seconds * 1000
        /\ target.check_type = "http" =>
              /\ world.port = ConfiguredPort(target)
              /\ ComparedStatus(world) = target.numbers.expect_status
              /\ ComparedStatus(world) < 300 => world.body
              /\ target.verify_tls /\ (target.port \in HttpsPorts \/ world.hop = "https")
                    => world.valid_cert

\* The direct answer of an HTTP endpoint is the one that was expected.
AnswersAsExpected(t, w) ==
    /\ w.port = ConfiguredPort(t)
    /\ w.status = t.numbers.expect_status
    /\ w.body
    /\ t.verify_tls /\ t.port \in HttpsPorts => w.valid_cert

\* A host that answers as configured is up.  Left out: IPv6 on Windows, whose
\* ping prints no TTL, and endpoints that redirect.
AnsweredIsOk ==
    verdict # Null /\ verdict # "ok" =>
        CASE target.check_type = "icmp" ->
                \/ platform = "Windows" /\ IsIpv6(target.host)
                \/ world.is # "reply"
                \/ world.after > target.numbers.timeout_seconds * 1000
          [] target.check_type = "tcp" -> world # target.port
          [] OTHER -> world.hop # "none" \/ ~AnswersAsExpected(target, world)

\* README.md:299: expect_status may be set to "302 if that is what the endpoint
\* legitimately returns".
RedirectCanBeExpected ==
    verdict # Null /\ target.check_type = "http" =>
        (AnswersAsExpected(target, world) => verdict = "ok")

=============================================================================
