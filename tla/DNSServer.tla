------------------------------ MODULE DNSServer -----------------------------
(***************************************************************************)
(* The authoritative DNS server of dns.go.  The library runs serveDNS in a *)
(* goroutine of its own for every UDP query and TCP connection; between    *)
(* two database statements of one query, other queries are served, users   *)
(* publish and delete records, and the test may be stopped.  serveDNS      *)
(* answers from the records of the test and records the query, if the test *)
(* is running:                                                             *)
(*                                                                         *)
(*   idle -> check -> lookup -> record -> reply -> done                    *)
(*                                                                         *)
(* A query that needs no database goes to reply or done at once, and one   *)
(* whose first statement fails, or whose test is not running, from check   *)
(* to reply.  A crash of the process loses the queries that are not done.  *)
(***************************************************************************)
EXTENDS Database

CONSTANTS
  Names,   \* the names that are asked for
  QTypes,  \* the types that are asked for
  Classes  \* the classes that are asked for

ASSUME DNSAssumption == Names \subseteq Hostname

VARIABLE query  \* the goroutine of every query: its locals and its reply

dnsVars == <<dbVars, query>>

(* A resource record; data is NULL in those that the code builds itself.   *)
BuiltInTypes == {"A", "AAAA", "MX", "NS", "SOA"}
RR == [type : BuiltInTypes \cup RecordTypes, data : RData \cup {NULL}]

DNSReply == [rcode  : {"NOERROR", "NXDOMAIN", "REFUSED"},
             answer : SUBSET RR,
             soa    : BOOLEAN]      \* whether the authority section has the SOA

QueryLocations == {"idle", "check", "lookup", "record", "reply", "done", "lost"}

(* The fields arrived and failed are history: the stage of the query's     *)
(* test at its arrival, and whether a statement failed.                    *)
Query == [pc      : QueryLocations,
          name    : Hostname,            \* fqdn
          qtype   : QTypes \cup {NULL},
          known   : BOOLEAN,             \* answers # nil
          answers : SUBSET RR,
          reply   : DNSReply \cup {NULL},
          arrived : Stages,
          failed  : BOOLEAN]

NoQuery ==
  [pc |-> "idle", name |-> [labels |-> <<>>, dot |-> FALSE], qtype |-> NULL,
   known |-> FALSE, answers |-> {}, reply |-> NULL, arrived |-> "absent",
   failed |-> FALSE]

DNSTypeOK ==
  /\ DBTypeOK
  /\ query \in [DNSQueries -> Query]

DNSInit == query = [q \in DNSQueries |-> NoQuery]

TargetOf(q) == parseHostname(query[q].name)
TestOf(q) == TargetOf(q).id

QueryInFlight(q) == query[q].pc \notin {"idle", "done", "lost"}

-----------------------------------------------------------------------------
(* Names under test.<domain>, and the answers that need no database.       *)

IsSubDomain(name) ==
  LET n == Len(name.labels)
  IN n >= 2 /\ name.labels[n].word = "domain" /\ name.labels[n-1].word = "test"

IsTestDomain(name) == IsSubDomain(name) /\ Len(name.labels) = 2

BuiltIn(types, qtype) ==
  {[type |-> ty, data |-> NULL] : ty \in {ty \in types : qtype \in {ty, "ANY"}}}

ApexAnswers(qtype) == BuiltIn({"NS", "SOA"}, qtype)

(* Every name of a test has the server's addresses and a mail exchanger,   *)
(* unless it begins with an underscore: its answers start out as nil.      *)
HostAnswers(name, qtype) ==
  IF IsUnderscored(name) THEN {} ELSE BuiltIn({"A", "AAAA", "MX"}, qtype)

(* A bug: the first CNAME ends the loop but does not replace the answers.  *)
lookupDNSRecordsAppending(t, sub, qtype, answers) ==
  LET rows == {r \in dns_record :
                 r.test = t /\ r.sub = sub /\ (qtype = "ANY" \/ r.type \in {qtype, "CNAME"})}
  IN answers \cup {[type |-> r.type, data |-> r.data] : r \in rows}

(* lookupDNSRecords: the rows are read in the order of their ids and       *)
(* appended to the answers, but the first CNAME replaces all answers and   *)
(* ends the loop.                                                          *)
lookupDNSRecords(t, sub, qtype, answers) ==
  LET rows == {r \in dns_record :
                 /\ r.test = t
                 /\ r.sub = sub
                 /\ qtype = "ANY" \/ r.type = qtype \/ r.type = "CNAME"}
      AsRR(r) == [type |-> r.type, data |-> r.data]
      cnames == {r \in rows : r.type = "CNAME"}
      first == {r \in cnames : \A s \in cnames : r.id <= s.id}
  IN IF cnames = {} THEN answers \cup {AsRR(r) : r \in rows}
                    ELSE {AsRR(r) : r \in first}

(* A bug: a query whose statement failed is answered with an error.        *)
ReplyToServfail(q) ==
  [rcode  |-> IF query[q].failed THEN "SERVFAIL" ELSE "NOERROR",
   answer |-> query[q].answers,
   soa    |-> query[q].answers = {}]

(* The response.  Only nil answers make the name nonexistent.              *)
ReplyTo(q) ==
  [rcode  |-> IF query[q].known \/ query[q].answers # {} THEN "NOERROR" ELSE "NXDOMAIN",
   answer |-> query[q].answers,
   soa    |-> query[q].answers = {}]

refused == [rcode |-> "REFUSED", answer |-> {}, soa |-> FALSE]

-----------------------------------------------------------------------------
(* serveDNS up to its first statement.                                     *)

QueryArrival(name, qtype, pc, known, answers, reply) ==
  [pc |-> pc, name |-> name, qtype |-> qtype, known |-> known,
   answers |-> answers, reply |-> reply, failed |-> FALSE,
   arrived |-> IF parseHostname(name).ok THEN Stage(parseHostname(name).id)
                                         ELSE "absent"]

Refusable(name, class, qtype) ==
  class # "IN" \/ qtype \in {"IXFR", "AXFR"} \/ ~IsSubDomain(name)

(* The library hands over only messages with exactly one question.         *)
Refuse(q, name, class, qtype) ==
  LET fqdn == ToLower(name)
  IN /\ query[q].pc = "idle"
     /\ Refusable(fqdn, class, qtype)
     /\ query' = [query EXCEPT ![q] = QueryArrival(fqdn, qtype, "done", FALSE, {}, refused)]
     /\ UNCHANGED dbVars

AnswerApex(q, name, class, qtype) ==
  LET fqdn == ToLower(name)
  IN /\ query[q].pc = "idle"
     /\ ~Refusable(fqdn, class, qtype)
     /\ IsTestDomain(fqdn)
     /\ query' = [query EXCEPT ![q] =
                    QueryArrival(fqdn, qtype, "reply", TRUE, ApexAnswers(qtype), NULL)]
     /\ UNCHANGED dbVars

(* A name under test.<domain> that belongs to no test.                     *)
DenyName(q, name, class, qtype) ==
  LET fqdn == ToLower(name)
  IN /\ query[q].pc = "idle"
     /\ ~Refusable(fqdn, class, qtype)
     /\ ~IsTestDomain(fqdn)
     /\ ~parseHostname(fqdn).ok
     /\ query' = [query EXCEPT ![q] = QueryArrival(fqdn, qtype, "reply", FALSE, {}, NULL)]
     /\ UNCHANGED dbVars

AdmitQuery(q, name, class, qtype) ==
  LET fqdn == ToLower(name)
  IN /\ query[q].pc = "idle"
     /\ ~Refusable(fqdn, class, qtype)
     /\ parseHostname(fqdn).ok
     /\ query' = [query EXCEPT ![q] =
                    QueryArrival(fqdn, qtype, "check", ~IsUnderscored(fqdn),
                            HostAnswers(fqdn, qtype), NULL)]
     /\ UNCHANGED dbVars

serveDNS(q) ==
  \E name \in Names, class \in Classes, qtype \in QTypes :
    \/ Refuse(q, name, class, qtype)
    \/ AnswerApex(q, name, class, qtype)
    \/ DenyName(q, name, class, qtype)
    \/ AdmitQuery(q, name, class, qtype)

-----------------------------------------------------------------------------
(* The statements of serveDNS, and the reply.                              *)

CheckQuery(q) ==
  /\ query[q].pc = "check"
  /\ \/ query' = [query EXCEPT ![q].pc =
                    IF isRunningTest(TestOf(q)) THEN "lookup" ELSE "reply"]
     \/ query' = [query EXCEPT ![q].pc = "reply", ![q].failed = TRUE]
  /\ UNCHANGED dbVars

(* A bug: a query that finds published records is answered at once.        *)
LookupReturning(q) ==
  LET found == lookupDNSRecords(TestOf(q), TargetOf(q).sub, query[q].qtype, {})
  IN /\ query[q].pc = "lookup"
     /\ query' = [query EXCEPT ![q].pc = IF found = {} THEN "record" ELSE "reply",
                               ![q].answers = found \cup @]
     /\ UNCHANGED dbVars

(* A failing lookup is logged, and the query is recorded all the same.     *)
Lookup(q) ==
  /\ query[q].pc = "lookup"
  /\ \/ query' = [query EXCEPT ![q].pc = "record",
                               ![q].answers = lookupDNSRecords(
                                  TestOf(q), TargetOf(q).sub, query[q].qtype, @)]
     \/ query' = [query EXCEPT ![q].pc = "record", ![q].failed = TRUE]
  /\ UNCHANGED dbVars

(* A failing insertion is logged, and the query is answered all the same.  *)
recordDNSRequest(q) ==
  /\ query[q].pc = "record"
  /\ \/ /\ InsertDNSRequest(TestOf(q), q)
        /\ query' = [query EXCEPT ![q].pc = "reply"]
     \/ /\ query' = [query EXCEPT ![q].pc = "reply", ![q].failed = TRUE]
        /\ UNCHANGED dbVars

WriteReply(q) ==
  /\ query[q].pc = "reply"
  /\ query' = [query EXCEPT ![q].pc = "done", ![q].reply = ReplyTo(q)]
  /\ UNCHANGED dbVars

ServeQuery(q) == CheckQuery(q) \/ Lookup(q) \/ recordDNSRequest(q) \/ WriteReply(q)

(* The process dies (log.Fatal in any server ends it) and starts again:    *)
(* the goroutines are gone, the database is as the last commit left it.    *)
DNSCrash ==
  /\ \E q \in DNSQueries : QueryInFlight(q)
  /\ query' = [q \in DNSQueries |->
                 IF QueryInFlight(q) THEN [query[q] EXCEPT !.pc = "lost"] ELSE query[q]]

DNSNext == \E q \in DNSQueries : serveDNS(q) \/ ServeQuery(q)

-----------------------------------------------------------------------------
(* The component among the others.                                         *)

DNSServerInit == DBInit /\ DNSInit

DNSServerNext ==
  \/ DNSNext
  \/ OtherStatements /\ UNCHANGED query
  \/ DNSCrash /\ UNCHANGED dbVars

DNSServerSpec == DNSServerInit /\ [][DNSServerNext]_dnsVars

-----------------------------------------------------------------------------
(* Properties.                                                             *)

Admitted(q) == query[q].pc # "idle" /\ TargetOf(q).ok

(* A query that arrives after its test was stopped is never recorded, so   *)
(* stopping a test keeps later queries out of its results (home.html:51),  *)
(* although recordDNSRequest itself does not look at the test.  A query    *)
(* that arrived before may still be recorded after the stop.               *)
NoLateQuery == \A r \in dns_request : query[r.req].arrived # "stopped"

(* The reply to a query that arrives after its test was stopped holds no   *)
(* published record: the stop withdraws all of them at once.               *)
NoLateAnswer ==
  \A q \in DNSQueries :
    query[q].arrived = "stopped"
      => \A rr \in query[q].answers : rr.type \notin RecordTypes

(* If a test runs from the arrival of a query to the reply and no          *)
(* statement of the query fails, the query is recorded: on every path of   *)
(* serveDNS that answers from the test, whatever other goroutines do.      *)
LiveQueryRecorded ==
  \A q \in DNSQueries :
    /\ query[q].pc = "done" /\ Admitted(q)
    /\ query[q].reply # refused
    /\ query[q].arrived = "running" /\ isRunningTest(TestOf(q))
    /\ ~query[q].failed
    => \E r \in dns_request : r.test = TestOf(q) /\ r.req = q

(* A reply that holds a CNAME holds nothing else, whatever records users   *)
(* publish and delete under the name meanwhile.                            *)
CNAMEAlone ==
  \A q \in DNSQueries :
    \A rr \in query[q].answers : rr.type = "CNAME" => query[q].answers = {rr}

(* A failing statement never costs a test its addresses: the name of a     *)
(* test resolves to the server, or to the CNAME that a user published      *)
(* for it, even if the database is not available.                          *)
AddressSurvivesFaults ==
  \A q \in DNSQueries :
    /\ query[q].pc = "done" /\ Admitted(q) /\ ~IsUnderscored(query[q].name)
    /\ query[q].reply # refused
    /\ query[q].qtype \in {"A", "ANY"}
    => /\ query[q].reply.rcode = "NOERROR"
       /\ \E rr \in query[q].reply.answer : rr.type \in {"A", "CNAME"}

(* README.md:5 promises that all DNS queries to the subdomain of a test    *)
(* are recorded.  A zone transfer, or a query of another class than IN, is *)
(* refused before anything is recorded (dns.go:43).                        *)
EveryQueryRecorded ==
  \A q \in DNSQueries :
    /\ query[q].pc = "done" /\ Admitted(q)
    /\ query[q].arrived = "running" /\ isRunningTest(TestOf(q))
    /\ ~query[q].failed
    => \E r \in dns_request : r.test = TestOf(q) /\ r.req = q

=============================================================================
