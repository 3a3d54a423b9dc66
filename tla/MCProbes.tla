------------------------------ MODULE MCProbes ------------------------------
(* Forms and worlds for TLC: every host, type and port with one number of the
   form away from its default, and worlds on both sides of every limit. *)
EXTENDS Integers

CONSTANTS None, Blank, Garbled, Forms, PingWorlds, TcpWorlds, HttpWorlds
VARIABLES platform, target, world, verdict

P == INSTANCE Probes WITH Null <- None

ASSUME ProbesAssumption == P!ProbesConstants

MCTexts == [expect_status    |-> {Garbled, 99, 100, 302, 401, 599, 600},
            interval_seconds |-> {Garbled, 4, 5, 86400, 86401},
            timeout_seconds  |-> {Garbled, 0, 1, 300, 301},
            fail_threshold   |-> {Garbled, 0, 1, 100, 101}]

MCForms ==
    LET blank == [n \in DOMAIN P!Numbers |-> Blank]
        numbers == {blank} \cup UNION {{[blank EXCEPT ![n] = x] : x \in MCTexts[n]} :
                                         n \in DOMAIN P!Numbers}
    IN [host : {"name", "v4", "v6", "[v6]", "v6%zone", "name%zone", "?"},
        check_type : P!CheckTypes \cup {"?"},
        port : {Blank, Garbled, 0, 80, 443, 8443, 65535, 65536},
        verify_tls : BOOLEAN,
        numbers : numbers]

MCPingWorlds ==
    [is : {"missing", "stuck", "router", "silent"}, after : {0}]
    \cup [is : {"reply"}, after : {1, 1000, 1001, 5000, 5001, 300000, 300001}]

MCTcpWorlds == {None, 80, 443, 65535}

MCHttpWorlds ==
    [port : {80, 443, 8443, 65535}, valid_cert : BOOLEAN, body : BOOLEAN,
     status : {200, 401}, hop : {"none"}, hop_status : {200}]
    \cup
    [port : {80, 443, 8443, 65535}, valid_cert : BOOLEAN, body : BOOLEAN,
     status : {302}, hop : {"none", "http", "https"}, hop_status : {200}]

ProbesSpec == P!Spec

\* The properties of Probes, which states what they are about.
StoredInRange == P!TypeOK
OkWasAnswered == P!OkWasAnswered
AnsweredIsOk == P!AnsweredIsOk
RedirectCanBeExpected == P!RedirectCanBeExpected

=============================================================================
