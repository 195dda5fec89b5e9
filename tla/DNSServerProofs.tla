-------------------------- MODULE DNSServerProofs --------------------------
(***************************************************************************)
(* Theorems about the DNS server, for every set of tests, names, queries   *)
(* and records: its type invariant; that a query which arrives after its   *)
(* test was stopped is neither recorded nor answered from the records of   *)
(* the test; that a CNAME is always alone in a reply; that a query is      *)
(* recorded if its test runs all along and no statement fails; and that    *)
(* the name of a test resolves whichever statements fail.                  *)
(***************************************************************************)
EXTENDS DNSServer, DatabaseProofs

-----------------------------------------------------------------------------
(* What the steps have in common.                                          *)

BuiltInRR == {rr \in RR : rr.type \in BuiltInTypes}

Arrives(q, name, qtype, pc, known, answers, reply) ==
  /\ query[q].pc = "idle"
  /\ query' = [query EXCEPT ![q] =
                 QueryArrival(name, qtype, pc, known, answers, reply)]
  /\ \/ /\ pc = "check" /\ parseHostname(name).ok /\ answers = HostAnswers(name, qtype)
        /\ reply = NULL
     \/ pc = "reply" /\ ~parseHostname(name).ok /\ reply = NULL
     \/ pc = "done" /\ reply = refused

(* A query arrives: it starts a goroutine and leaves the database alone. *)
LEMMA ArrivalStep ==
  ASSUME DNSTypeOK, NEW q \in DNSQueries, serveDNS(q)
  PROVE  \E name \in Hostname, qtype \in QTypes, pc \in QueryLocations, known \in BOOLEAN,
            answers \in SUBSET BuiltInRR, reply \in DNSReply \cup {NULL} :
           /\ Arrives(q, name, qtype, pc, known, answers, reply)
           /\ UNCHANGED dbVars
<1> USE DNSAssumption DEF QueryLocations, Arrives
<1>1. PICK name \in Names, class \in Classes, qtype \in QTypes :
        \/ Refuse(q, name, class, qtype)
        \/ AnswerApex(q, name, class, qtype)
        \/ DenyName(q, name, class, qtype)
        \/ AdmitQuery(q, name, class, qtype)
  BY DEF serveDNS
<1> DEFINE fqdn == ToLower(name)
<1>2. fqdn \in Hostname
  BY ToLowerType
<1>3. ASSUME NEW types \in SUBSET BuiltInTypes
      PROVE  BuiltIn(types, qtype) \in SUBSET BuiltInRR
  BY DEF BuiltIn, RR, BuiltInRR
<1>4. /\ ApexAnswers(qtype) \in SUBSET BuiltInRR
      /\ HostAnswers(fqdn, qtype) \in SUBSET BuiltInRR
      /\ {} \in SUBSET BuiltInRR
  BY <1>3 DEF ApexAnswers, HostAnswers, BuiltInTypes
<1>5. refused \in DNSReply
  BY DEF refused, DNSReply
<1>6. IsUnderscored(fqdn) \in BOOLEAN
  BY DEF IsUnderscored
<1>7. IsTestDomain(fqdn) => ~parseHostname(fqdn).ok
  BY DEF IsTestDomain, parseHostname
<1> HIDE DEF fqdn
<1>8. CASE Refuse(q, name, class, qtype)
  BY <1>2, <1>4, <1>5, <1>8 DEF Refuse, fqdn
<1>9. CASE AnswerApex(q, name, class, qtype)
  BY <1>2, <1>4, <1>7, <1>9 DEF AnswerApex, fqdn
<1>10. CASE DenyName(q, name, class, qtype)
  BY <1>2, <1>4, <1>10 DEF DenyName, fqdn
<1>11. CASE AdmitQuery(q, name, class, qtype)
  BY <1>2, <1>4, <1>6, <1>11 DEF AdmitQuery, fqdn
<1> QED BY <1>1, <1>8, <1>9, <1>10, <1>11

(* The records that lookupDNSRecords adds or puts in place of the answers. *)
LEMMA LookupType ==
  ASSUME DNSTypeOK, NEW t, NEW sub, NEW qtype, NEW answers \in SUBSET RR
  PROVE  lookupDNSRecords(t, sub, qtype, answers) \in SUBSET RR
<1>1. \A r \in dns_record : [type |-> r.type, data |-> r.data] \in RR
  BY DEF DNSTypeOK, DBTypeOK, DNSRecord, RR
<1> QED BY <1>1 DEF lookupDNSRecords

-----------------------------------------------------------------------------
(* A statement of the goroutine of q, or its reply, changes nothing else.  *)
Moves(q, pc, answers, reply, failed) ==
  /\ \A p \in DNSQueries \ {q} : query'[p] = query[p]
  /\ query'[q].pc = pc
  /\ query'[q].answers = answers
  /\ query'[q].reply = reply
  /\ query'[q].failed = failed
  /\ query'[q].name = query[q].name
  /\ query'[q].qtype = query[q].qtype
  /\ query'[q].arrived = query[q].arrived

(* The check either goes on to the lookup, of a running test, or to the     *)
(* reply.                                                                  *)
LEMMA CheckMoves ==
  ASSUME DNSTypeOK, NEW q \in DNSQueries, CheckQuery(q)
  PROVE  /\ query[q].pc = "check"
         /\ UNCHANGED dbVars
         /\ \/ /\ isRunningTest(TestOf(q))
               /\ Moves(q, "lookup", query[q].answers, query[q].reply, query[q].failed)
            \/ /\ ~isRunningTest(TestOf(q))
               /\ Moves(q, "reply", query[q].answers, query[q].reply, query[q].failed)
            \/ Moves(q, "reply", query[q].answers, query[q].reply, TRUE)
  BY DEF CheckQuery, Moves, DNSTypeOK, Query

(* The lookup always goes on to the recording, with or without records.    *)
LEMMA LookupMoves ==
  ASSUME DNSTypeOK, NEW q \in DNSQueries, Lookup(q)
  PROVE  /\ query[q].pc = "lookup"
         /\ UNCHANGED dbVars
         /\ \/ Moves(q, "record",
                     lookupDNSRecords(TestOf(q), TargetOf(q).sub, query[q].qtype,
                                      query[q].answers),
                     query[q].reply, query[q].failed)
            \/ Moves(q, "record", query[q].answers, query[q].reply, TRUE)
  BY DEF Lookup, Moves, DNSTypeOK, Query

(* The recording always goes on to the reply, with a row or a failure.     *)
LEMMA RecordMoves ==
  ASSUME DNSTypeOK, NEW q \in DNSQueries, recordDNSRequest(q)
  PROVE  /\ query[q].pc = "record"
         /\ \/ /\ InsertDNSRequest(TestOf(q), q)
               /\ Moves(q, "reply", query[q].answers, query[q].reply, query[q].failed)
            \/ /\ UNCHANGED dbVars
               /\ Moves(q, "reply", query[q].answers, query[q].reply, TRUE)
  BY DEF recordDNSRequest, Moves, DNSTypeOK, Query

(* The reply ends the query. *)
LEMMA ReplyMoves ==
  ASSUME DNSTypeOK, NEW q \in DNSQueries, WriteReply(q)
  PROVE  /\ query[q].pc = "reply"
         /\ UNCHANGED dbVars
         /\ Moves(q, "done", query[q].answers, ReplyTo(q), query[q].failed)
  BY DEF WriteReply, Moves, DNSTypeOK, Query

(* A crash moves the goroutines and nothing else. *)
LEMMA CrashMoves ==
  ASSUME DNSTypeOK, DNSCrash
  PROVE  \A p \in DNSQueries :
           /\ query'[p].pc = query[p].pc \/ query'[p].pc = "lost"
           /\ query'[p].answers = query[p].answers
           /\ query'[p].reply = query[p].reply
           /\ query'[p].failed = query[p].failed
           /\ query'[p].name = query[p].name
           /\ query'[p].qtype = query[p].qtype
           /\ query'[p].arrived = query[p].arrived
  BY DEF DNSCrash, DNSTypeOK, Query

-----------------------------------------------------------------------------
(* Type correctness.                                                       *)

(* Only a query that belongs to a test gets to the statements. *)
ServedBelongsToTest ==
  \A q \in DNSQueries :
    query[q].pc \in {"check", "lookup", "record"} => TargetOf(q).ok

TypeInv == DNSTypeOK /\ ServedBelongsToTest

(* The test of a query that belongs to one. *)
LEMMA TestOfType ==
  ASSUME DNSTypeOK, NEW q \in DNSQueries, TargetOf(q).ok
  PROVE  TestOf(q) \in TestIDs
<1>1. query[q].name \in Hostname
  BY DEF DNSTypeOK, Query
<1> QED BY <1>1, TargetType DEF TargetOf, TestOf

(* The initial state is well typed. *)
LEMMA TypeInit ==
  DNSServerInit => TypeInv
  BY DatabaseAssumption
     DEF DNSServerInit, DBInit, DNSInit, DNSTypeOK, DBTypeOK, TestRow, NoQuery, Query,
         QueryLocations, Hostname, Stages, RequestRow, TypeInv, ServedBelongsToTest

(* Every step keeps the types. *)
LEMMA TypeStep ==
  ASSUME TypeInv, [DNSServerNext]_dnsVars
  PROVE  TypeInv'
<1> USE DEF TypeInv, DNSTypeOK, ServedBelongsToTest, TargetOf
<1>1. ASSUME NEW q \in DNSQueries, serveDNS(q)
      PROVE  TypeInv'
  <2>1. PICK name \in Hostname, qtype \in QTypes, pc \in QueryLocations, known \in BOOLEAN,
             answers \in SUBSET BuiltInRR, reply \in DNSReply \cup {NULL} :
          /\ Arrives(q, name, qtype, pc, known, answers, reply)
          /\ UNCHANGED dbVars
    BY <1>1, ArrivalStep
  <2> DEFINE new == QueryArrival(name, qtype, pc, known, answers, reply)
  <2>2. new \in Query /\ new.pc = pc /\ new.name = name
    BY DEF QueryArrival, Query, Stage, Stages, BuiltInRR
  <2>3. query' = [query EXCEPT ![q] = new]
    BY <2>1 DEF Arrives
  <2> HIDE DEF new
  <2>4. DNSTypeOK'
    BY <2>1, <2>2, <2>3 DEF dbVars, DBTypeOK
  <2>5. ServedBelongsToTest'
    BY <2>1, <2>2, <2>3 DEF Arrives
  <2> QED BY <2>4, <2>5
<1>2. ASSUME NEW q \in DNSQueries, CheckQuery(q)
      PROVE  TypeInv'
  BY <1>2 DEF CheckQuery, dbVars, DBTypeOK, Query, QueryLocations
<1>3. ASSUME NEW q \in DNSQueries, Lookup(q)
      PROVE  TypeInv'
  <2>1. lookupDNSRecords(TestOf(q), TargetOf(q).sub, query[q].qtype, query[q].answers)
          \in SUBSET RR
    BY LookupType DEF Query
  <2> QED BY <2>1, <1>3 DEF Lookup, dbVars, DBTypeOK, Query, QueryLocations
<1>4. ASSUME NEW q \in DNSQueries, recordDNSRequest(q)
      PROVE  TypeInv'
  <2>1. TestOf(q) \in TestIDs
    BY <1>4, TestOfType DEF recordDNSRequest
  <2>2. DBTypeOK'
    BY <1>4, <2>1, RequestStatements DEF recordDNSRequest, dbVars, DBTypeOK
  <2>3. query' \in [DNSQueries -> Query] /\ ServedBelongsToTest'
    BY <1>4 DEF recordDNSRequest, Query, QueryLocations
  <2> QED BY <2>2, <2>3
<1>5. ASSUME NEW q \in DNSQueries, WriteReply(q)
      PROVE  TypeInv'
  <2>1. ReplyTo(q) \in DNSReply
    BY DEF ReplyTo, DNSReply, Query
  <2>2. DBTypeOK'
    BY <1>5 DEF WriteReply, dbVars, DBTypeOK
  <2>3. query' = [query EXCEPT ![q].pc = "done", ![q].reply = ReplyTo(q)]
    BY <1>5 DEF WriteReply
  <2>4. query' \in [DNSQueries -> Query]
    <3> DEFINE replied == [query[q] EXCEPT !.pc = "done", !.reply = ReplyTo(q)]
    <3>1. replied \in Query
      BY <2>1 DEF Query, QueryLocations
    <3>2. query' = [query EXCEPT ![q] = replied]
      BY <2>3
    <3> QED BY <3>1, <3>2
  <2>5. ServedBelongsToTest'
    BY <2>3
  <2> QED BY <2>2, <2>4, <2>5
<1>6. CASE OtherStatements /\ UNCHANGED query
  BY <1>6, EnvironmentStep
<1>7. CASE DNSCrash /\ UNCHANGED dbVars
  BY <1>7 DEF DNSCrash, dbVars, DBTypeOK, Query, QueryLocations
<1>8. CASE UNCHANGED dnsVars
  BY <1>8 DEF dnsVars, dbVars, DBTypeOK
<1> QED BY <1>1, <1>2, <1>3, <1>4, <1>5, <1>6, <1>7, <1>8 DEF DNSServerNext, DNSNext, ServeQuery

(* The tables and the locals of the goroutines are well typed, always. *)
THEOREM DNSTypeCorrect == DNSServerSpec => []DNSTypeOK
<1>1. TypeInv /\ [DNSServerNext]_dnsVars => TypeInv'
  BY TypeStep
<1>2. TypeInv => DNSTypeOK
  BY DEF TypeInv
<1> QED BY TypeInit, <1>1, <1>2, PTL DEF DNSServerSpec

-----------------------------------------------------------------------------
(* A query that arrives after the stop is not recorded and not answered    *)
(* from the records of the test.                                           *)

(* It never gets beyond the check. *)
LateIsStopped ==
  \A q \in DNSQueries :
    query[q].arrived = "stopped" =>
      /\ TargetOf(q).ok
      /\ Stage(TestOf(q)) = "stopped"
      /\ query[q].pc \notin {"idle", "lookup", "record"}

(* A recorded query has arrived. *)
RecordedHasArrived ==
  \A r \in dns_request : query[r.req].pc # "idle"

LateInv ==
  /\ TypeInv
  /\ LateIsStopped
  /\ RecordedHasArrived
  /\ NoLateQuery
  /\ NoLateAnswer

(* What a step may do to a query that has arrived. *)
KeepsLate(p) ==
  /\ query'[p].arrived = query[p].arrived
  /\ query'[p].name = query[p].name
  /\ query[p].pc # "idle" => query'[p].pc # "idle"
  /\ query[p].arrived = "stopped" =>
       /\ query'[p].answers = query[p].answers
       /\ query'[p].pc \notin {"idle", "lookup", "record"}

(* A step that moves no late query forward keeps both properties of them.  *)
LEMMA KeepingLate ==
  ASSUME LateInv,
         \A p \in DNSQueries : KeepsLate(p),
         \A t : Stage(t)' = Stage(t),
         \A r \in dns_request' :
           \/ r \in dns_request
           \/ /\ r.req \in DNSQueries
              /\ query[r.req].pc # "idle"
              /\ query[r.req].arrived # "stopped"
  PROVE  LateIsStopped' /\ RecordedHasArrived' /\ NoLateQuery' /\ NoLateAnswer'
<1> USE DEF KeepsLate, LateInv
<1>1. \A r \in dns_request' :
        /\ r.req \in DNSQueries
        /\ query[r.req].pc # "idle"
        /\ query[r.req].arrived # "stopped"
  BY DEF TypeInv, DNSTypeOK, DBTypeOK, RequestRow, RecordedHasArrived, NoLateQuery
<1>2. RecordedHasArrived' /\ NoLateQuery'
  BY <1>1 DEF RecordedHasArrived, NoLateQuery
<1>3. LateIsStopped'
  BY DEF LateIsStopped, TargetOf, TestOf
<1>4. NoLateAnswer'
  BY DEF NoLateAnswer
<1> QED BY <1>2, <1>3, <1>4

(* At first no query has arrived. *)
LEMMA LateInit ==
  DNSServerInit => LateInv
  BY TypeInit DEF DNSServerInit, DBInit, DNSInit, NoQuery, LateInv, LateIsStopped,
                  RecordedHasArrived, NoLateQuery, NoLateAnswer

(* Every step keeps late queries from the lookup and the recording.        *)
LEMMA LateStep ==
  ASSUME LateInv, [DNSServerNext]_dnsVars
  PROVE  LateInv'
<1>1. TypeInv'
  BY TypeStep DEF LateInv
<1>2. /\ query \in [DNSQueries -> Query]
      /\ \A r \in dns_request : r.req \in DNSQueries
  BY DEF LateInv, TypeInv, DNSTypeOK, DBTypeOK, RequestRow
<1> DEFINE Goal == LateIsStopped' /\ RecordedHasArrived' /\ NoLateQuery' /\ NoLateAnswer'
<1> USE DEF LateIsStopped, RecordedHasArrived, NoLateQuery, NoLateAnswer, TargetOf, TestOf
<1>3. ASSUME NEW q \in DNSQueries, serveDNS(q)
      PROVE  Goal
  <2>1. PICK name \in Hostname, qtype \in QTypes, pc \in QueryLocations, known \in BOOLEAN,
             answers \in SUBSET BuiltInRR, reply \in DNSReply \cup {NULL} :
          /\ Arrives(q, name, qtype, pc, known, answers, reply)
          /\ UNCHANGED dbVars
    BY <1>3, ArrivalStep DEF LateInv, TypeInv
  <2> DEFINE new == QueryArrival(name, qtype, pc, known, answers, reply)
  <2>2. /\ new.pc = pc /\ new.name = name /\ new.answers = answers
        /\ new.arrived = "stopped" => /\ parseHostname(name).ok
                                      /\ Stage(parseHostname(name).id) = "stopped"
    BY DEF QueryArrival
  <2>3. query[q].pc = "idle" /\ query' = [query EXCEPT ![q] = new]
    BY <2>1 DEF Arrives
  <2>4. new.pc \notin {"idle", "lookup", "record"}
    BY <2>1, <2>2 DEF Arrives
  <2>5. /\ dns_request' = dns_request
        /\ \A t : Stage(t)' = Stage(t)
    BY <2>1 DEF dbVars, Stage, Exists
  <2>6. \A rr \in new.answers : rr.type \notin RecordTypes
    BY <2>2 DEF BuiltInRR, BuiltInTypes, RecordTypes
  <2> HIDE DEF new
  <2>7. \A r \in dns_request : query'[r.req] = query[r.req]
    BY <1>2, <2>3 DEF LateInv
  <2>8. RecordedHasArrived' /\ NoLateQuery'
    BY <2>5, <2>7 DEF LateInv
  <2>9. LateIsStopped' /\ NoLateAnswer'
    BY <1>2, <2>2, <2>3, <2>4, <2>5, <2>6 DEF LateInv
  <2> QED BY <2>8, <2>9
<1>4. ASSUME NEW q \in DNSQueries, CheckQuery(q)
      PROVE  Goal
  <2>1. dns_request' = dns_request /\ \A t : Stage(t)' = Stage(t)
    BY <1>4 DEF CheckQuery, dbVars, Stage, Exists
  <2>2. query[q].arrived = "stopped" => ~isRunningTest(TestOf(q))
    BY DEF LateInv, Stage, isRunningTest, Exists
  <2>3. ASSUME NEW p \in DNSQueries
        PROVE  KeepsLate(p)
    BY <1>4, <2>2, CheckMoves DEF Moves, KeepsLate, LateInv, TypeInv
  <2> QED BY <2>1, <2>3, KeepingLate
<1>5. ASSUME NEW q \in DNSQueries, Lookup(q)
      PROVE  Goal
  <2>1. dns_request' = dns_request /\ \A t : Stage(t)' = Stage(t)
    BY <1>5 DEF Lookup, dbVars, Stage, Exists
  <2>2. query[q].arrived # "stopped"
    BY <1>5 DEF Lookup, LateInv
  <2>3. ASSUME NEW p \in DNSQueries
        PROVE  KeepsLate(p)
    BY <1>5, <2>2, LookupMoves DEF Moves, KeepsLate, LateInv, TypeInv
  <2> QED BY <2>1, <2>3, KeepingLate
<1>6. ASSUME NEW q \in DNSQueries, recordDNSRequest(q)
      PROVE  Goal
  <2>1. query[q].arrived # "stopped" /\ query[q].pc = "record"
    BY <1>6 DEF recordDNSRequest, LateInv
  <2>2. /\ \A t : Stage(t)' = Stage(t)
        /\ \A r \in dns_request' : r \in dns_request \/ r.req = q
    BY <1>6 DEF recordDNSRequest, InsertDNSRequest, RowFor, dbVars, Stage, Exists
  <2>3. ASSUME NEW p \in DNSQueries
        PROVE  KeepsLate(p)
    BY <1>6, <2>1, RecordMoves DEF Moves, KeepsLate, LateInv, TypeInv
  <2> QED BY <2>1, <2>2, <2>3, KeepingLate
<1>7. ASSUME NEW q \in DNSQueries, WriteReply(q)
      PROVE  Goal
  <2>1. dns_request' = dns_request /\ \A t : Stage(t)' = Stage(t)
    BY <1>7 DEF WriteReply, dbVars, Stage, Exists
  <2>3. ASSUME NEW p \in DNSQueries
        PROVE  KeepsLate(p)
    BY <1>7, ReplyMoves DEF Moves, KeepsLate, LateInv, TypeInv
  <2> QED BY <2>1, <2>3, KeepingLate
<1>8. ASSUME OtherStatements, UNCHANGED query
      PROVE  Goal
  <2>1. StopsAreFinal /\ UNCHANGED dns_request
    BY <1>8, EnvironmentStep DEF LateInv, TypeInv, DNSTypeOK
  <2>2. \A q \in DNSQueries : TargetOf(q).ok => TestOf(q) \in TestIDs
    BY TestOfType DEF LateInv, TypeInv
  <2> QED BY <1>8, <2>1, <2>2 DEF LateInv, StopsAreFinal
<1>9. ASSUME DNSCrash, UNCHANGED dbVars
      PROVE  Goal
  <2>1. dns_request' = dns_request /\ \A t : Stage(t)' = Stage(t)
    BY <1>9 DEF dbVars, Stage, Exists
  <2> QED BY <1>2, <1>9, <2>1, CrashMoves DEF LateInv, TypeInv
<1>10. ASSUME UNCHANGED dnsVars
       PROVE  Goal
  <2>1. UNCHANGED <<query, dns_request, test>>
    BY <1>10 DEF dnsVars, dbVars
  <2> QED BY <2>1 DEF LateInv, Stage, Exists
<1>11. Goal
  BY <1>3, <1>4, <1>5, <1>6, <1>7, <1>8, <1>9, <1>10 DEF DNSServerNext, DNSNext, ServeQuery
<1> QED BY <1>1, <1>11 DEF LateInv

(* Stopping a test keeps every later query out of its results. *)
THEOREM NoLateQueryHolds == DNSServerSpec => []NoLateQuery
<1>1. LateInv /\ [DNSServerNext]_dnsVars => LateInv'
  BY LateStep
<1>2. LateInv => NoLateQuery
  BY DEF LateInv
<1> QED BY LateInit, <1>1, <1>2, PTL DEF DNSServerSpec

(* Stopping a test withdraws its records from every later query. *)
THEOREM NoLateAnswerHolds == DNSServerSpec => []NoLateAnswer
<1>1. LateInv /\ [DNSServerNext]_dnsVars => LateInv'
  BY LateStep
<1>2. LateInv => NoLateAnswer
  BY DEF LateInv
<1> QED BY LateInit, <1>1, <1>2, PTL DEF DNSServerSpec

-----------------------------------------------------------------------------
(* A CNAME is the only answer.  The ids of the records are unique, so the  *)
(* first CNAME is one row; until the lookup, no answer is a CNAME.         *)

NoCNAMEBeforeLookup ==
  \A q \in DNSQueries :
    query[q].pc \in {"idle", "check", "lookup"} =>
      \A rr \in query[q].answers : rr.type # "CNAME"

CNAMEInv ==
  /\ TypeInv
  /\ IDsUnique(dns_record)
  /\ NoCNAMEBeforeLookup
  /\ CNAMEAlone

(* At first there are no answers. *)
LEMMA CNAMEInit ==
  DNSServerInit => CNAMEInv
  BY TypeInit DEF DNSServerInit, DBInit, DNSInit, NoQuery, CNAMEInv, IDsUnique,
                  NoCNAMEBeforeLookup, CNAMEAlone

(* The lookup puts a CNAME among the answers only by itself.              *)
LEMMA LookupCNAME ==
  ASSUME DBTypeOK, IDsUnique(dns_record), NEW t, NEW sub, NEW qtype,
         NEW answers, \A rr \in answers : rr.type # "CNAME",
         NEW rr \in lookupDNSRecords(t, sub, qtype, answers), rr.type = "CNAME"
  PROVE  lookupDNSRecords(t, sub, qtype, answers) = {rr}
<1> DEFINE rows == {r \in dns_record : /\ r.test = t
                                       /\ r.sub = sub
                                       /\ qtype = "ANY" \/ r.type = qtype \/ r.type = "CNAME"}
           AsRR(r) == [type |-> r.type, data |-> r.data]
           cnames == {r \in rows : r.type = "CNAME"}
           first == {r \in cnames : \A s \in cnames : r.id <= s.id}
<1>1. \A r \in rows : AsRR(r).type = r.type
  OBVIOUS
<1>2. \A r, s \in first : r = s
  <2>1. \A r \in first : r \in dns_record /\ r.id \in Nat
    BY DEF DBTypeOK, DNSRecord
  <2>2. ASSUME NEW r \in first, NEW s \in first
        PROVE  r.id = s.id
    BY <2>1
  <2> QED BY <2>1, <2>2 DEF IDsUnique
<1>3. lookupDNSRecords(t, sub, qtype, answers) =
        IF cnames = {} THEN answers \cup {AsRR(r) : r \in rows} ELSE {AsRR(r) : r \in first}
  BY DEF lookupDNSRecords
<1>4. CASE cnames = {}
  <2>1. \A r \in rows : AsRR(r).type # "CNAME"
    BY <1>1, <1>4
  <2> QED BY <1>3, <1>4, <2>1
<1>5. CASE cnames # {}
  <2> HIDE DEF first, AsRR
  <2> QED BY <1>2, <1>3, <1>5
<1> QED BY <1>4, <1>5

(* What a step other than a lookup may do to a query. *)
KeepsAnswers(p) ==
  /\ query'[p].answers = query[p].answers
  /\ query'[p].pc \in {"idle", "check", "lookup"} =>
       query[p].pc \in {"idle", "check", "lookup"}

(* A step that leaves the answers alone keeps CNAMEInv's parts about them. *)
LEMMA KeepingAnswers ==
  ASSUME CNAMEInv, \A p \in DNSQueries : KeepsAnswers(p)
  PROVE  NoCNAMEBeforeLookup' /\ CNAMEAlone'
<1>1. NoCNAMEBeforeLookup'
  BY DEF CNAMEInv, KeepsAnswers, NoCNAMEBeforeLookup
<1>2. CNAMEAlone'
  BY DEF CNAMEInv, KeepsAnswers, CNAMEAlone
<1> QED BY <1>1, <1>2

(* Every step keeps CNAMEInv. *)
LEMMA CNAMEStep ==
  ASSUME CNAMEInv, [DNSServerNext]_dnsVars
  PROVE  CNAMEInv'
<1>1. TypeInv'
  BY TypeStep DEF CNAMEInv
<1>2. DNSTypeOK /\ query \in [DNSQueries -> Query]
  BY DEF CNAMEInv, TypeInv, DNSTypeOK
<1> DEFINE Goal == IDsUnique(dns_record)' /\ NoCNAMEBeforeLookup' /\ CNAMEAlone'
<1> USE DEF NoCNAMEBeforeLookup, CNAMEAlone
<1>3. ASSUME NEW q \in DNSQueries, serveDNS(q)
      PROVE  Goal
  <2>1. PICK name \in Hostname, qtype \in QTypes, pc \in QueryLocations, known \in BOOLEAN,
             answers \in SUBSET BuiltInRR, reply \in DNSReply \cup {NULL} :
          /\ Arrives(q, name, qtype, pc, known, answers, reply)
          /\ UNCHANGED dbVars
    BY <1>2, <1>3, ArrivalStep
  <2>2. query'[q].answers = answers /\ \A p \in DNSQueries \ {q} : query'[p] = query[p]
    BY <1>2, <2>1 DEF Arrives, QueryArrival
  <2>3. \A rr \in answers : rr.type # "CNAME"
    BY DEF BuiltInRR, BuiltInTypes
  <2>4. IDsUnique(dns_record)'
    BY <2>1 DEF dbVars, CNAMEInv, IDsUnique
  <2>5. ASSUME NEW p \in DNSQueries, NEW rr \in query'[p].answers, rr.type = "CNAME"
        PROVE  p # q /\ query'[p] = query[p]
    <3>1. p # q
      BY <2>2, <2>3, <2>5
    <3> QED BY <2>2, <3>1
  <2>6. NoCNAMEBeforeLookup' /\ CNAMEAlone'
    BY <2>5 DEF CNAMEInv
  <2> QED BY <2>4, <2>6
<1>4. ASSUME NEW q \in DNSQueries, CheckQuery(q)
      PROVE  Goal
  <2>1. IDsUnique(dns_record)'
    BY <1>4 DEF CheckQuery, dbVars, CNAMEInv, IDsUnique
  <2>2. ASSUME NEW p \in DNSQueries
        PROVE  KeepsAnswers(p)
    BY <1>2, <1>4, CheckMoves DEF Moves, KeepsAnswers
  <2> QED BY <2>1, <2>2, KeepingAnswers
<1>5. ASSUME NEW q \in DNSQueries, Lookup(q)
      PROVE  Goal
  <2>1. IDsUnique(dns_record)'
    BY <1>5 DEF Lookup, dbVars, CNAMEInv, IDsUnique
  <2> DEFINE found == lookupDNSRecords(TestOf(q), TargetOf(q).sub, query[q].qtype,
                                       query[q].answers)
  <2>2. \A rr \in query[q].answers : rr.type # "CNAME"
    BY <1>5 DEF Lookup, CNAMEInv
  <2>3. \A rr \in found : rr.type = "CNAME" => found = {rr}
    BY <1>2, <2>2, LookupCNAME DEF CNAMEInv, DNSTypeOK
  <2>4. /\ query'[q].answers \in {found, query[q].answers}
        /\ query'[q].pc = "record"
        /\ \A p \in DNSQueries \ {q} : query'[p] = query[p]
    BY <1>2, <1>5, LookupMoves DEF Moves
  <2> HIDE DEF found
  <2> QED BY <2>1, <2>3, <2>4 DEF CNAMEInv
<1>6. ASSUME NEW q \in DNSQueries, recordDNSRequest(q)
      PROVE  Goal
  <2>1. IDsUnique(dns_record)'
    BY <1>6 DEF recordDNSRequest, InsertDNSRequest, dbVars, CNAMEInv, IDsUnique
  <2>2. ASSUME NEW p \in DNSQueries
        PROVE  KeepsAnswers(p)
    BY <1>2, <1>6, RecordMoves DEF Moves, KeepsAnswers
  <2> QED BY <2>1, <2>2, KeepingAnswers
<1>7. ASSUME NEW q \in DNSQueries, WriteReply(q)
      PROVE  Goal
  <2>1. IDsUnique(dns_record)'
    BY <1>7 DEF WriteReply, dbVars, CNAMEInv, IDsUnique
  <2>2. ASSUME NEW p \in DNSQueries
        PROVE  KeepsAnswers(p)
    BY <1>2, <1>7, ReplyMoves DEF Moves, KeepsAnswers
  <2> QED BY <2>1, <2>2, KeepingAnswers
<1>8. ASSUME OtherStatements, UNCHANGED query
      PROVE  Goal
  <2>1. IDsUnique(dns_record)'
    BY <1>2, <1>8, EnvironmentStep DEF CNAMEInv, DNSTypeOK, IDsUnique
  <2> QED BY <1>8, <2>1 DEF CNAMEInv
<1>9. ASSUME DNSCrash, UNCHANGED dbVars
      PROVE  Goal
  <2>1. IDsUnique(dns_record)'
    BY <1>9 DEF dbVars, CNAMEInv, IDsUnique
  <2>2. ASSUME NEW p \in DNSQueries
        PROVE  KeepsAnswers(p)
    BY <1>2, <1>9, CrashMoves DEF Moves, KeepsAnswers
  <2> QED BY <2>1, <2>2, KeepingAnswers
<1>10. ASSUME UNCHANGED dnsVars
       PROVE  Goal
  BY <1>10 DEF dnsVars, dbVars, CNAMEInv, IDsUnique
<1>11. Goal
  BY <1>3, <1>4, <1>5, <1>6, <1>7, <1>8, <1>9, <1>10 DEF DNSServerNext, DNSNext, ServeQuery
<1> QED BY <1>1, <1>11 DEF CNAMEInv

(* A reply that holds a CNAME holds nothing else, whatever users publish   *)
(* and delete while the query is served.                                   *)
THEOREM CNAMEAloneHolds == DNSServerSpec => []CNAMEAlone
<1>1. CNAMEInv /\ [DNSServerNext]_dnsVars => CNAMEInv'
  BY CNAMEStep
<1>2. CNAMEInv => CNAMEAlone
  BY DEF CNAMEInv
<1> QED BY CNAMEInit, <1>1, <1>2, PTL DEF DNSServerSpec

-----------------------------------------------------------------------------
(* A query that met no failure and a test that runs all along is recorded. *)

(* The query is past its insertion and owes its test a row. *)
OwesRow(q) ==
  /\ query[q].pc = "reply" \/ (query[q].pc = "done" /\ query[q].reply # refused)
  /\ TargetOf(q).ok
  /\ query[q].arrived = "running" /\ isRunningTest(TestOf(q))
  /\ ~query[q].failed

HasRow(q) == \E r \in dns_request : r.test = TestOf(q) /\ r.req = q

(* The test of a query that arrived while it was running still exists. *)
LiveExists ==
  \A q \in DNSQueries :
    query[q].arrived = "running" => TargetOf(q).ok /\ Stage(TestOf(q)) # "absent"

RecordInv ==
  /\ TypeInv
  /\ LiveExists
  /\ \A q \in DNSQueries : OwesRow(q) => HasRow(q)

(* At first no query owes a row. *)
LEMMA RecordInit ==
  DNSServerInit => RecordInv
  BY TypeInit DEF DNSServerInit, DNSInit, NoQuery, RecordInv, LiveExists, OwesRow

(* What a step may do to a query other than the one it serves. *)
KeepsLive(p) ==
  /\ query'[p].name = query[p].name
  /\ query'[p].arrived = query[p].arrived

(* Every step keeps RecordInv: a query that leaves the recording without a *)
(* failure has its row, and rows are never taken away.                     *)
LEMMA RecordStep ==
  ASSUME RecordInv, [DNSServerNext]_dnsVars
  PROVE  RecordInv'
<1>1. TypeInv'
  BY TypeStep DEF RecordInv
<1>2. DNSTypeOK /\ query \in [DNSQueries -> Query]
  BY DEF RecordInv, TypeInv, DNSTypeOK
<1> DEFINE Goal == LiveExists' /\ \A q \in DNSQueries : OwesRow(q)' => HasRow(q)'
           SameTests == \A t : Stage(t)' = Stage(t) /\ isRunningTest(t)' = isRunningTest(t)
           SameQuery(p) == query'[p] = query[p]
<1>3. ASSUME SameTests, dns_request \subseteq dns_request',
             \A p \in DNSQueries : KeepsLive(p),
             \A p \in DNSQueries : OwesRow(p)' => OwesRow(p) \/ HasRow(p)'
      PROVE  Goal
  <2>1. LiveExists'
    BY <1>3 DEF RecordInv, LiveExists, KeepsLive, TargetOf, TestOf
  <2>2. \A p \in DNSQueries : HasRow(p) => HasRow(p)'
    BY <1>3 DEF HasRow, KeepsLive, TargetOf, TestOf
  <2> QED BY <1>3, <2>1, <2>2 DEF RecordInv
<1>4. UNCHANGED dbVars => SameTests /\ dns_request \subseteq dns_request'
  BY DEF dbVars, Stage, Exists, isRunningTest
<1>5. ASSUME NEW q \in DNSQueries, serveDNS(q)
      PROVE  Goal
  <2>1. PICK name \in Hostname, qtype \in QTypes, pc \in QueryLocations, known \in BOOLEAN,
             answers \in SUBSET BuiltInRR, reply \in DNSReply \cup {NULL} :
          /\ Arrives(q, name, qtype, pc, known, answers, reply)
          /\ UNCHANGED dbVars
    BY <1>2, <1>5, ArrivalStep
  <2> DEFINE new == QueryArrival(name, qtype, pc, known, answers, reply)
  <2>2. /\ new.pc = pc /\ new.name = name /\ new.reply = reply
        /\ new.arrived = "running" => /\ parseHostname(name).ok
                                      /\ Stage(parseHostname(name).id) # "absent"
    BY DEF QueryArrival
  <2>3. /\ query' = [query EXCEPT ![q] = new]
        /\ \/ new.pc = "check"
           \/ ~parseHostname(name).ok
           \/ new.pc = "done" /\ new.reply = refused
    BY <2>1, <2>2 DEF Arrives
  <2>4. SameTests /\ dns_request' = dns_request
    BY <1>4, <2>1 DEF dbVars
  <2> HIDE DEF new
  <2>5. query'[q] = new /\ \A p \in DNSQueries \ {q} : SameQuery(p)
    BY <1>2, <2>3
  <2>6. LiveExists'
    BY <2>2, <2>4, <2>5 DEF RecordInv, LiveExists, TargetOf, TestOf
  <2>7. ~OwesRow(q)'
    BY <2>2, <2>3, <2>5 DEF OwesRow, TargetOf
  <2>8. ASSUME NEW p \in DNSQueries \ {q}
        PROVE  (OwesRow(p)' => OwesRow(p)) /\ (HasRow(p) => HasRow(p)')
    BY <2>4, <2>5 DEF OwesRow, HasRow, TargetOf, TestOf
  <2> QED BY <2>6, <2>7, <2>8 DEF RecordInv
<1>6. ASSUME NEW q \in DNSQueries, CheckQuery(q)
      PROVE  Goal
  <2>1. UNCHANGED dbVars
    BY <1>6 DEF CheckQuery
  <2>2. ASSUME NEW p \in DNSQueries
        PROVE  KeepsLive(p) /\ (OwesRow(p)' => OwesRow(p))
    BY <1>2, <1>4, <1>6, <2>1, CheckMoves DEF Moves, KeepsLive, OwesRow, TargetOf, TestOf
  <2> QED BY <1>3, <1>4, <2>1, <2>2
<1>7. ASSUME NEW q \in DNSQueries, Lookup(q)
      PROVE  Goal
  <2>1. UNCHANGED dbVars
    BY <1>7 DEF Lookup
  <2>2. ASSUME NEW p \in DNSQueries
        PROVE  KeepsLive(p) /\ (OwesRow(p)' => OwesRow(p))
    BY <1>2, <1>4, <1>7, <2>1, LookupMoves DEF Moves, KeepsLive, OwesRow, TargetOf, TestOf
  <2> QED BY <1>3, <1>4, <2>1, <2>2
<1>8. ASSUME NEW q \in DNSQueries, recordDNSRequest(q)
      PROVE  Goal
  <2>1. SameTests /\ dns_request \subseteq dns_request'
    BY <1>4, <1>8 DEF recordDNSRequest, InsertDNSRequest, Stage, Exists, isRunningTest
  <2>2. ASSUME NEW p \in DNSQueries
        PROVE  KeepsLive(p)
    BY <1>2, <1>8, RecordMoves DEF Moves, KeepsLive
  <2>3. HasRow(q)' \/ query'[q].failed
    <3>1. CASE InsertDNSRequest(TestOf(q), q)
      <4>1. RowFor(TestOf(q), q) \in dns_request'
        BY <3>1 DEF InsertDNSRequest
      <4>2. TestOf(q)' = TestOf(q)
        BY <2>2 DEF KeepsLive, TestOf, TargetOf
      <4>3. RowFor(TestOf(q), q).test = TestOf(q) /\ RowFor(TestOf(q), q).req = q
        BY DEF RowFor
      <4> QED BY <4>1, <4>2, <4>3 DEF HasRow
    <3> QED BY <1>2, <1>8, <3>1, RecordMoves DEF Moves
  <2>4. ASSUME NEW p \in DNSQueries
        PROVE  OwesRow(p)' => OwesRow(p) \/ HasRow(p)'
    <3>1. CASE p = q
      BY <2>3, <3>1 DEF OwesRow
    <3>2. CASE p # q
      BY <1>2, <1>8, <2>1, <3>2, RecordMoves DEF Moves, OwesRow, TargetOf, TestOf
    <3> QED BY <3>1, <3>2
  <2> QED BY <1>3, <2>1, <2>2, <2>4
<1>9. ASSUME NEW q \in DNSQueries, WriteReply(q)
      PROVE  Goal
  <2>1. UNCHANGED dbVars
    BY <1>9 DEF WriteReply
  <2>2. ASSUME NEW p \in DNSQueries
        PROVE  KeepsLive(p) /\ (OwesRow(p)' => OwesRow(p))
    BY <1>2, <1>4, <1>9, <2>1, ReplyMoves DEF Moves, KeepsLive, OwesRow, TargetOf, TestOf
  <2> QED BY <1>3, <1>4, <2>1, <2>2
<1>10. ASSUME OtherStatements, UNCHANGED query
       PROVE  Goal
  <2>1. StopsAreFinal /\ UNCHANGED dns_request
    BY <1>2, <1>10, EnvironmentStep DEF DNSTypeOK
  <2>2. \A q \in DNSQueries : TargetOf(q).ok => TestOf(q) \in TestIDs
    BY <1>2, TestOfType
  <2>3. LiveExists'
    BY <1>10, <2>1, <2>2 DEF RecordInv, LiveExists, StopsAreFinal, TargetOf, TestOf
  <2>4. ASSUME NEW t \in TestIDs, Stage(t) # "absent", isRunningTest(t)'
        PROVE  isRunningTest(t)
    BY <2>1, <2>4 DEF StopsAreFinal, Stage, isRunningTest, Exists
  <2>5. ASSUME NEW p \in DNSQueries
        PROVE  (OwesRow(p)' => OwesRow(p)) /\ HasRow(p)' = HasRow(p)
    BY <1>10, <2>1, <2>2, <2>4 DEF OwesRow, HasRow, RecordInv, LiveExists, TargetOf, TestOf
  <2> QED BY <2>3, <2>5 DEF RecordInv
<1>11. ASSUME DNSCrash, UNCHANGED dbVars
       PROVE  Goal
  <2>1. ASSUME NEW p \in DNSQueries
        PROVE  KeepsLive(p) /\ (OwesRow(p)' => OwesRow(p))
    BY <1>2, <1>4, <1>11, CrashMoves DEF KeepsLive, OwesRow, TargetOf, TestOf
  <2> QED BY <1>3, <1>4, <1>11, <2>1
<1>12. ASSUME UNCHANGED dnsVars
       PROVE  Goal
  <2>1. UNCHANGED <<query, dbVars>>
    BY <1>12 DEF dnsVars
  <2>2. ASSUME NEW p \in DNSQueries
        PROVE  KeepsLive(p) /\ (OwesRow(p)' => OwesRow(p))
    BY <1>4, <2>1 DEF KeepsLive, OwesRow, TargetOf, TestOf
  <2> QED BY <1>3, <1>4, <2>1, <2>2
<1>13. Goal
  BY <1>5, <1>6, <1>7, <1>8, <1>9, <1>10, <1>11, <1>12 DEF DNSServerNext, DNSNext, ServeQuery
<1> QED BY <1>1, <1>13 DEF RecordInv

(* Every query to a test that runs from its arrival to its reply is        *)
(* recorded, unless a statement fails.                                     *)
THEOREM LiveQueryRecordedHolds == DNSServerSpec => []LiveQueryRecorded
<1>1. RecordInv /\ [DNSServerNext]_dnsVars => RecordInv'
  BY RecordStep
<1>2. RecordInv => LiveQueryRecorded
  BY DEF RecordInv, LiveQueryRecorded, OwesRow, HasRow, Admitted
<1> QED BY RecordInit, <1>1, <1>2, PTL DEF DNSServerSpec

-----------------------------------------------------------------------------
(* A failing statement never costs a test its addresses.                   *)

(* The query is for the address of a name of a test. *)
AsksForAddress(q) ==
  /\ TargetOf(q).ok /\ ~IsUnderscored(query[q].name)
  /\ query[q].qtype \in {"A", "ANY"}

LeadsSomewhere(answers) == \E rr \in answers : rr.type \in {"A", "CNAME"}

(* Its answers start out with the server's address, and nothing takes it   *)
(* out but a CNAME.                                                        *)
KeepsAddress(q) ==
  AsksForAddress(q) =>
    /\ query[q].pc \in {"check", "lookup", "record", "reply"} =>
         LeadsSomewhere(query[q].answers)
    /\ query[q].pc = "done" /\ query[q].reply # refused =>
         query[q].reply.rcode = "NOERROR" /\ LeadsSomewhere(query[q].reply.answer)

AddressInv == TypeInv /\ \A q \in DNSQueries : KeepsAddress(q)

(* What the lookup makes of answers that lead somewhere does so, too.      *)
LEMMA LookupAddress ==
  ASSUME DBTypeOK, NEW t, NEW sub, NEW qtype, NEW answers, LeadsSomewhere(answers)
  PROVE  LeadsSomewhere(lookupDNSRecords(t, sub, qtype, answers))
<1> DEFINE rows == {r \in dns_record : /\ r.test = t
                                       /\ r.sub = sub
                                       /\ qtype = "ANY" \/ r.type = qtype \/ r.type = "CNAME"}
           AsRR(r) == [type |-> r.type, data |-> r.data]
           cnames == {r \in rows : r.type = "CNAME"}
           first == {r \in cnames : \A s \in cnames : r.id <= s.id}
<1>1. lookupDNSRecords(t, sub, qtype, answers) =
        IF cnames = {} THEN answers \cup {AsRR(r) : r \in rows} ELSE {AsRR(r) : r \in first}
  BY DEF lookupDNSRecords
<1>2. \A r \in cnames : AsRR(r).type = "CNAME" /\ r.id \in Nat
  BY DEF DBTypeOK, DNSRecord
<1> HIDE DEF AsRR, cnames
<1>3. CASE cnames = {}
  BY <1>1, <1>3 DEF LeadsSomewhere
<1>4. CASE cnames # {}
  <2>1. \E id \in {r.id : r \in cnames} : \A other \in {r.id : r \in cnames} : id <= other
    BY <1>2, <1>4, SmallestOfNat
  <2>2. PICK r \in cnames : \A s \in cnames : r.id <= s.id
    BY <2>1
  <2> QED BY <1>1, <1>2, <1>4, <2>2 DEF LeadsSomewhere
<1> QED BY <1>3, <1>4

(* A name without an underscore has the server's address from the start. *)
LEMMA HostAddress ==
  ASSUME NEW name, NEW qtype \in {"A", "ANY"}, ~IsUnderscored(name)
  PROVE  LeadsSomewhere(HostAnswers(name, qtype))
<1>1. [type |-> "A", data |-> NULL] \in HostAnswers(name, qtype)
  BY DEF HostAnswers, BuiltIn
<1> QED BY <1>1 DEF LeadsSomewhere

(* The reply to a query whose answers lead somewhere is no error. *)
LEMMA ReplyAddress ==
  ASSUME NEW q \in DNSQueries, LeadsSomewhere(query[q].answers)
  PROVE  /\ ReplyTo(q).rcode = "NOERROR"
         /\ LeadsSomewhere(ReplyTo(q).answer)
  BY DEF ReplyTo, LeadsSomewhere

(* A step that is not of the query p leaves it its address, and so does a  *)
(* crash.                                                                  *)
LEMMA AddressUndisturbed ==
  ASSUME NEW p \in DNSQueries, KeepsAddress(p),
         query'[p].pc = query[p].pc \/ query'[p].pc = "lost",
         query'[p].answers = query[p].answers, query'[p].reply = query[p].reply,
         query'[p].name = query[p].name, query'[p].qtype = query[p].qtype
  PROVE  KeepsAddress(p)'
  BY DEF KeepsAddress, AsksForAddress, TargetOf

(* Every step keeps the addresses. *)
LEMMA AddressStep ==
  ASSUME AddressInv, [DNSServerNext]_dnsVars
  PROVE  AddressInv'
<1>1. TypeInv'
  BY TypeStep DEF AddressInv
<1>2. DNSTypeOK /\ query \in [DNSQueries -> Query] /\ \A q \in DNSQueries : KeepsAddress(q)
  BY DEF AddressInv, TypeInv, DNSTypeOK
<1> DEFINE Goal == \A q \in DNSQueries : KeepsAddress(q)'
<1>3. ASSUME NEW q \in DNSQueries, serveDNS(q)
      PROVE  Goal
  <2>1. PICK name \in Hostname, qtype \in QTypes, pc \in QueryLocations, known \in BOOLEAN,
             answers \in SUBSET BuiltInRR, reply \in DNSReply \cup {NULL} :
          Arrives(q, name, qtype, pc, known, answers, reply)
    BY <1>2, <1>3, ArrivalStep
  <2> DEFINE new == QueryArrival(name, qtype, pc, known, answers, reply)
  <2>2. /\ new.pc = pc /\ new.name = name /\ new.qtype = qtype /\ new.answers = answers
        /\ new.reply = reply
    BY DEF QueryArrival
  <2>3. /\ query' = [query EXCEPT ![q] = new]
        /\ \/ pc = "check" /\ answers = HostAnswers(name, qtype)
           \/ ~parseHostname(name).ok
           \/ pc = "done" /\ reply = refused
    BY <2>1 DEF Arrives
  <2> HIDE DEF new
  <2>4. query'[q] = new /\ \A p \in DNSQueries \ {q} : query'[p] = query[p]
    BY <1>2, <2>3
  <2>5. KeepsAddress(q)'
    BY <2>2, <2>3, <2>4, HostAddress DEF KeepsAddress, AsksForAddress, TargetOf
  <2> QED BY <1>2, <2>4, <2>5, AddressUndisturbed
<1>4. ASSUME NEW q \in DNSQueries, query[q].pc \in {"check", "lookup", "record"},
             query'[q].pc \in {"lookup", "record", "reply"},
             LeadsSomewhere(query[q].answers) => LeadsSomewhere(query'[q].answers),
             query'[q].name = query[q].name, query'[q].qtype = query[q].qtype,
             \A p \in DNSQueries \ {q} : query'[p] = query[p]
      PROVE  Goal
  <2>1. KeepsAddress(q)'
    BY <1>2, <1>4 DEF KeepsAddress, AsksForAddress, TargetOf
  <2> QED BY <1>2, <1>4, <2>1, AddressUndisturbed
<1>5. ASSUME NEW q \in DNSQueries, CheckQuery(q)
      PROVE  Goal
  BY <1>2, <1>4, <1>5, CheckMoves DEF Moves
<1>6. ASSUME NEW q \in DNSQueries, Lookup(q)
      PROVE  Goal
  <2> DEFINE found == lookupDNSRecords(TestOf(q), TargetOf(q).sub, query[q].qtype,
                                       query[q].answers)
  <2>1. LeadsSomewhere(query[q].answers) => LeadsSomewhere(found)
    BY <1>2, LookupAddress DEF DNSTypeOK
  <2>2. /\ query[q].pc = "lookup" /\ query'[q].pc = "record"
        /\ query'[q].answers \in {found, query[q].answers}
        /\ query'[q].name = query[q].name /\ query'[q].qtype = query[q].qtype
        /\ \A p \in DNSQueries \ {q} : query'[p] = query[p]
    BY <1>2, <1>6, LookupMoves DEF Moves
  <2> HIDE DEF found
  <2> QED BY <1>4, <2>1, <2>2
<1>7. ASSUME NEW q \in DNSQueries, recordDNSRequest(q)
      PROVE  Goal
  BY <1>2, <1>4, <1>7, RecordMoves DEF Moves
<1>8. ASSUME NEW q \in DNSQueries, WriteReply(q)
      PROVE  Goal
  <2>1. query[q].pc = "reply" /\ Moves(q, "done", query[q].answers, ReplyTo(q), query[q].failed)
    BY <1>2, <1>8, ReplyMoves
  <2>2. KeepsAddress(q)'
    BY <1>2, <2>1, ReplyAddress DEF Moves, KeepsAddress, AsksForAddress, TargetOf
  <2> QED BY <1>2, <2>1, <2>2, AddressUndisturbed DEF Moves
<1>9. ASSUME UNCHANGED query
      PROVE  Goal
  <2>1. \A p \in DNSQueries : query'[p] = query[p]
    BY <1>9
  <2> QED BY <1>2, <2>1, AddressUndisturbed
<1>10. ASSUME DNSCrash
       PROVE  Goal
  <2> SUFFICES ASSUME NEW p \in DNSQueries PROVE KeepsAddress(p)'
    OBVIOUS
  <2> QED BY <1>2, <1>10, CrashMoves, AddressUndisturbed
<1>11. Goal
  BY <1>3, <1>5, <1>6, <1>7, <1>8, <1>9, <1>10 DEF DNSServerNext, DNSNext, ServeQuery, dnsVars
<1> QED BY <1>1, <1>11 DEF AddressInv

(* The name of a test always resolves to the server, or to the CNAME that  *)
(* a user published for it, whichever statements fail.                     *)
THEOREM AddressSurvivesFaultsHolds == DNSServerSpec => []AddressSurvivesFaults
<1>1. DNSServerInit => AddressInv
  BY TypeInit DEF DNSServerInit, DNSInit, NoQuery, AddressInv, KeepsAddress
<1>2. AddressInv /\ [DNSServerNext]_dnsVars => AddressInv'
  BY AddressStep
<1>3. AddressInv => AddressSurvivesFaults
  BY DEF AddressInv, KeepsAddress, AsksForAddress, LeadsSomewhere, Admitted,
         AddressSurvivesFaults
<1> QED BY <1>1, <1>2, <1>3, PTL DEF DNSServerSpec

-----------------------------------------------------------------------------
(* What the server promises to the log of a test, for the composition with *)
(* the other servers and the dashboard (SystemProofs).                     *)

(* The query was found to belong to a running test. *)
IsAdmitted(q) == query[q].pc \in {"lookup", "record"}

(* It has no row before it is recorded. *)
NewHasNoRow(q) ==
  query[q].pc \in {"idle", "check", "lookup", "record"} =>
    \A row \in dns_request : row.req # q

ServerInv == TypeInv /\ \A q \in DNSQueries : NewHasNoRow(q)

(* A step of the goroutine of q admits it to its test, if that is running, *)
(* leaves its row there, or does nothing that matters to the test.         *)
ServesTest(q) ==
  /\ \A p \in DNSQueries \ {q} : query'[p] = query[p]
  /\ UNCHANGED <<clock, test, dns_record, http_file, http_request, smtp_request>>
  /\ \/ /\ UNCHANGED dns_request
        /\ IsAdmitted(q)' => IsAdmitted(q) /\ TestOf(q)' = TestOf(q)
     \/ /\ UNCHANGED dns_request /\ TestOf(q)' = TestOf(q)
        /\ TestOf(q) \in TestIDs /\ isRunningTest(TestOf(q)) /\ ~IsAdmitted(q)
        /\ IsAdmitted(q)'
        /\ \A row \in dns_request : row.req # q
     \/ /\ IsAdmitted(q) /\ ~IsAdmitted(q)'
        /\ TestOf(q) \in TestIDs /\ InsertDNSRequest(TestOf(q), q)

(* That is all that serveDNS does, and it keeps the invariant. *)
LEMMA ServerStep ==
  ASSUME ServerInv, NEW q \in DNSQueries, serveDNS(q) \/ ServeQuery(q)
  PROVE  ServerInv' /\ ServesTest(q)
<1>1. TypeInv'
  BY TypeStep DEF ServerInv, DNSServerNext, DNSNext
<1>2. /\ DNSTypeOK /\ query \in [DNSQueries -> Query] /\ \A p \in DNSQueries : NewHasNoRow(p)
      /\ query[q].pc \in {"check", "lookup", "record"} => TestOf(q) \in TestIDs
  BY TestOfType DEF ServerInv, TypeInv, DNSTypeOK, ServedBelongsToTest
<1> USE DEF NewHasNoRow, IsAdmitted, ServesTest
<1>3. ASSUME UNCHANGED dns_request, \A p \in DNSQueries \ {q} : query'[p] = query[p],
             query[q].pc \in {"idle", "check", "lookup", "record"}
      PROVE  \A p \in DNSQueries : NewHasNoRow(p)'
  BY <1>2, <1>3
<1>4. CASE serveDNS(q)
  <2>1. PICK name \in Hostname, qtype \in QTypes, pc \in QueryLocations, known \in BOOLEAN,
             answers \in SUBSET BuiltInRR, reply \in DNSReply \cup {NULL} :
          /\ Arrives(q, name, qtype, pc, known, answers, reply)
          /\ UNCHANGED dbVars
    BY <1>2, <1>4, ArrivalStep
  <2> DEFINE new == QueryArrival(name, qtype, pc, known, answers, reply)
  <2>2. new.pc = pc
    BY DEF QueryArrival
  <2>3. query[q].pc = "idle" /\ query' = [query EXCEPT ![q] = new] /\ pc \notin {"lookup", "record"}
    BY <2>1 DEF Arrives
  <2> HIDE DEF new
  <2>4. query'[q].pc = pc /\ \A p \in DNSQueries \ {q} : query'[p] = query[p]
    BY <1>2, <2>2, <2>3
  <2>5. UNCHANGED <<clock, test, dns_record, http_file, dns_request, http_request, smtp_request>>
    BY <2>1 DEF dbVars
  <2> QED BY <1>1, <1>3, <2>3, <2>4, <2>5 DEF ServerInv
<1>5. ASSUME CheckQuery(q) \/ Lookup(q) \/ WriteReply(q)
      PROVE  UNCHANGED <<clock, test, dns_record, http_file, dns_request, http_request, smtp_request>>
  BY <1>5 DEF CheckQuery, Lookup, WriteReply, dbVars
<1>6. CASE CheckQuery(q)
  <2>1. TestOf(q)' = TestOf(q)
    BY <1>2, <1>6, CheckMoves DEF Moves, TestOf, TargetOf
  <2> QED BY <1>1, <1>2, <1>3, <1>5, <1>6, <2>1, CheckMoves DEF Moves, ServerInv
<1>7. CASE Lookup(q)
  <2>1. TestOf(q)' = TestOf(q)
    BY <1>2, <1>7, LookupMoves DEF Moves, TestOf, TargetOf
  <2> QED BY <1>1, <1>2, <1>3, <1>5, <1>7, <2>1, LookupMoves DEF Moves, ServerInv
<1>8. CASE recordDNSRequest(q)
  <2>1. /\ query[q].pc = "record" /\ query'[q].pc = "reply"
        /\ \A p \in DNSQueries \ {q} : query'[p] = query[p]
        /\ InsertDNSRequest(TestOf(q), q) \/ UNCHANGED dbVars
    BY <1>2, <1>8, RecordMoves DEF Moves
  <2>2. CASE InsertDNSRequest(TestOf(q), q)
    <3>1. /\ UNCHANGED <<clock, test, dns_record, http_file, http_request, smtp_request>>
          /\ \A row \in dns_request' : row \in dns_request \/ row.req = q
      BY <2>2 DEF InsertDNSRequest, RowFor
    <3>2. \A p \in DNSQueries : NewHasNoRow(p)'
      BY <1>2, <2>1, <3>1
    <3> QED BY <1>1, <1>2, <2>1, <2>2, <3>1, <3>2 DEF ServerInv
  <2>3. CASE UNCHANGED dbVars
    BY <1>1, <1>3, <2>1, <2>3 DEF dbVars, ServerInv
  <2> QED BY <2>1, <2>2, <2>3
<1>9. CASE WriteReply(q)
  <2>1. query[q].pc = "reply" /\ query'[q].pc = "done"
        /\ \A p \in DNSQueries \ {q} : query'[p] = query[p]
    BY <1>2, <1>9, ReplyMoves DEF Moves
  <2>2. \A p \in DNSQueries : NewHasNoRow(p)'
    BY <1>2, <1>5, <1>9, <2>1
  <2> QED BY <1>1, <1>5, <1>9, <2>1, <2>2 DEF ServerInv
<1> QED BY <1>4, <1>6, <1>7, <1>8, <1>9 DEF ServeQuery

(* Others leave the goroutines and the rows of the queries alone.          *)
LEMMA OthersKeep ==
  ASSUME ServerInv, DBTypeOK', UNCHANGED <<query, dns_request>>
  PROVE  ServerInv'
  BY DEF ServerInv, TypeInv, DNSTypeOK, ServedBelongsToTest, TargetOf, NewHasNoRow

(* A crash admits nobody. *)
LEMMA CrashKeeps ==
  ASSUME ServerInv, DNSCrash, UNCHANGED dbVars
  PROVE  /\ ServerInv'
         /\ \A q \in DNSQueries : IsAdmitted(q)' => IsAdmitted(q) /\ TestOf(q)' = TestOf(q)
<1>1. TypeInv'
  BY TypeStep DEF ServerInv, DNSServerNext
<1>2. UNCHANGED dns_request
  BY DEF dbVars
<1>3. ASSUME NEW q \in DNSQueries
      PROVE  NewHasNoRow(q)' /\ (IsAdmitted(q)' => IsAdmitted(q) /\ TestOf(q)' = TestOf(q))
  BY <1>2, CrashMoves DEF ServerInv, TypeInv, NewHasNoRow, IsAdmitted, TestOf, TargetOf
<1> QED BY <1>1, <1>3 DEF ServerInv

(* At first no query has arrived, whatever tests there are. *)
LEMMA ServerBegins ==
  ASSUME DBTypeOK, dns_request = {}, DNSInit
  PROVE  ServerInv /\ \A q \in DNSQueries : ~IsAdmitted(q)
  BY DatabaseAssumption
     DEF DNSInit, DNSTypeOK, NoQuery, Query, QueryLocations, Hostname, Stages, TypeInv,
         ServedBelongsToTest, ServerInv, NewHasNoRow, IsAdmitted

-----------------------------------------------------------------------------
(* What becomes of the answers to a query, for the same composition.       *)

(* A record is found: it is among the answers, or a CNAME is in its place. *)
IsAnswered(answers, rr) == \E other \in answers : other.type = "CNAME" \/ other = rr

(* The lookup finds every record of the name that has the type that is     *)
(* asked for.                                                              *)
LEMMA LookupFinds ==
  ASSUME DBTypeOK, NEW row \in dns_record, NEW qtype \in {row.type, "ANY"}, NEW answers
  PROVE  IsAnswered(lookupDNSRecords(row.test, row.sub, qtype, answers),
                    [type |-> row.type, data |-> row.data])
<1> DEFINE rows == {r \in dns_record : /\ r.test = row.test
                                       /\ r.sub = row.sub
                                       /\ qtype = "ANY" \/ r.type = qtype \/ r.type = "CNAME"}
           AsRR(r) == [type |-> r.type, data |-> r.data]
           cnames == {r \in rows : r.type = "CNAME"}
           first == {r \in cnames : \A s \in cnames : r.id <= s.id}
<1>1. lookupDNSRecords(row.test, row.sub, qtype, answers) =
        IF cnames = {} THEN answers \cup {AsRR(r) : r \in rows} ELSE {AsRR(r) : r \in first}
  BY DEF lookupDNSRecords
<1>2. row \in rows
  OBVIOUS
<1>3. \A r \in cnames : AsRR(r).type = "CNAME" /\ r.id \in Nat
  BY DEF DBTypeOK, DNSRecord
<1>4. AsRR(row) = [type |-> row.type, data |-> row.data]
  OBVIOUS
<1> HIDE DEF AsRR, cnames, rows
<1>5. CASE cnames = {}
  BY <1>1, <1>2, <1>4, <1>5 DEF IsAnswered
<1>6. CASE cnames # {}
  <2>1. \E id \in {r.id : r \in cnames} : \A other \in {r.id : r \in cnames} : id <= other
    BY <1>3, <1>6, SmallestOfNat
  <2>2. PICK r \in cnames : \A s \in cnames : r.id <= s.id
    BY <2>1
  <2> QED BY <1>1, <1>3, <1>6, <2>2 DEF IsAnswered
<1> QED BY <1>5, <1>6

(* It finds nothing but records. *)
LEMMA LookupOnly ==
  ASSUME NEW t, NEW sub, NEW qtype, NEW answers,
         NEW rr \in lookupDNSRecords(t, sub, qtype, answers)
  PROVE  rr \in answers \/ \E row \in dns_record : rr = [type |-> row.type, data |-> row.data]
  BY DEF lookupDNSRecords

(* Before a reply is written there is none, and after that there is        *)
(* another only to what was refused.                                       *)
ReplyHasAnswers(q) ==
  /\ query[q].pc \in {"idle", "check", "lookup", "record", "reply"} => query[q].reply = NULL
  /\ query[q].reply \notin {NULL, refused} => query[q].reply.answer = query[q].answers

(* A query arrives, or one of its statements is executed, its reply is     *)
(* written, or it is lost.                                                 *)
TurnsQuery(q) ==
  \/ /\ query[q].pc = "idle"
     /\ \/ query'[q].pc = "check" /\ query'[q].reply = NULL
        \/ query'[q].pc = "reply" /\ query'[q].reply = NULL /\ ~TargetOf(q).ok'
        \/ query'[q].pc = "done" /\ query'[q].reply = refused
     /\ \A rr \in query'[q].answers : rr.type \in BuiltInTypes
  \/ /\ query[q].pc \notin {"idle", "done", "lost"}
     /\ query'[q].name = query[q].name /\ query'[q].qtype = query[q].qtype
     /\ query[q].failed \in BOOLEAN /\ query'[q].failed \in {query[q].failed, TRUE}
     /\ \/ /\ query[q].pc = "check" /\ query'[q].pc \in {"lookup", "reply"}
           /\ query'[q].pc = "reply" => ~isRunningTest(TestOf(q)) \/ query'[q].failed
           /\ query'[q].answers = query[q].answers /\ query'[q].reply = query[q].reply
        \/ /\ query[q].pc = "lookup" /\ query'[q].pc = "record"
           /\ \/ query'[q].answers = lookupDNSRecords(TestOf(q), TargetOf(q).sub,
                                                     query[q].qtype, query[q].answers)
              \/ query'[q].failed /\ query'[q].answers = query[q].answers
           /\ query'[q].reply = query[q].reply
        \/ /\ query[q].pc = "record" /\ query'[q].pc = "reply"
           /\ query'[q].answers = query[q].answers /\ query'[q].reply = query[q].reply
        \/ /\ query[q].pc = "reply" /\ query'[q].pc = "done"
           /\ query'[q].answers = query[q].answers
           /\ query'[q].reply.answer = query[q].answers
        \/ /\ query'[q].pc = "lost"
           /\ query'[q].answers = query[q].answers /\ query'[q].reply = query[q].reply

(* That is all that happens to a query. *)
LEMMA QueryStep ==
  ASSUME TypeInv, NEW q \in DNSQueries, serveDNS(q) \/ ServeQuery(q)
  PROVE  TurnsQuery(q) /\ \A p \in DNSQueries \ {q} : query'[p] = query[p]
<1>1. DNSTypeOK /\ query \in [DNSQueries -> Query] /\ query[q].failed \in BOOLEAN
  BY DEF TypeInv, DNSTypeOK, Query
<1> DEFINE Goal == TurnsQuery(q) /\ \A p \in DNSQueries \ {q} : query'[p] = query[p]
<1>2. CASE serveDNS(q)
  <2>1. PICK name \in Hostname, qtype \in QTypes, pc \in QueryLocations, known \in BOOLEAN,
             answers \in SUBSET BuiltInRR, reply \in DNSReply \cup {NULL} :
          Arrives(q, name, qtype, pc, known, answers, reply)
    BY <1>1, <1>2, ArrivalStep
  <2> DEFINE new == QueryArrival(name, qtype, pc, known, answers, reply)
  <2>2. /\ new.pc = pc /\ new.name = name /\ new.answers = answers /\ new.reply = reply
    BY DEF QueryArrival
  <2>3. /\ query[q].pc = "idle" /\ query' = [query EXCEPT ![q] = new]
        /\ \/ pc = "check" /\ reply = NULL
           \/ pc = "reply" /\ ~parseHostname(name).ok /\ reply = NULL
           \/ pc = "done" /\ reply = refused
    BY <2>1 DEF Arrives
  <2> HIDE DEF new
  <2>4. query'[q] = new /\ \A p \in DNSQueries \ {q} : query'[p] = query[p]
    BY <1>1, <2>3
  <2>5. TargetOf(q)' = parseHostname(name)
    BY <2>2, <2>4 DEF TargetOf
  <2>6. \A rr \in answers : rr.type \in BuiltInTypes
    BY DEF BuiltInRR
  <2> QED BY <2>2, <2>3, <2>4, <2>5, <2>6 DEF TurnsQuery
<1>3. CASE CheckQuery(q)
  BY <1>1, <1>3, CheckMoves DEF Moves, TurnsQuery
<1>4. CASE Lookup(q)
  <2> DEFINE found == lookupDNSRecords(TestOf(q), TargetOf(q).sub, query[q].qtype,
                                       query[q].answers)
  <2>1. /\ query[q].pc = "lookup"
        /\ \/ Moves(q, "record", found, query[q].reply, query[q].failed)
           \/ Moves(q, "record", query[q].answers, query[q].reply, TRUE)
    BY <1>1, <1>4, LookupMoves
  <2> HIDE DEF found
  <2>2. /\ query'[q].pc = "record" /\ query'[q].reply = query[q].reply
        /\ query'[q].name = query[q].name /\ query'[q].qtype = query[q].qtype
        /\ query'[q].failed \in {query[q].failed, TRUE}
        /\ \/ query'[q].answers = found
           \/ query'[q].failed /\ query'[q].answers = query[q].answers
        /\ \A p \in DNSQueries \ {q} : query'[p] = query[p]
    BY <2>1 DEF Moves
  <2> QED BY <1>1, <2>1, <2>2 DEF TurnsQuery, found
<1>5. CASE recordDNSRequest(q)
  BY <1>1, <1>5, RecordMoves DEF Moves, TurnsQuery
<1>6. CASE WriteReply(q)
  <2>1. ReplyTo(q).answer = query[q].answers
    BY DEF ReplyTo
  <2> QED BY <1>1, <1>6, <2>1, ReplyMoves DEF Moves, TurnsQuery
<1> QED BY <1>2, <1>3, <1>4, <1>5, <1>6 DEF ServeQuery

(* A crash loses the queries that are not done. *)
LEMMA CrashTurnsQueries ==
  ASSUME TypeInv, DNSCrash, NEW q \in DNSQueries
  PROVE  query'[q] = query[q] \/ TurnsQuery(q)
<1>1. CASE QueryInFlight(q)
  <2>1. query'[q] = [query[q] EXCEPT !.pc = "lost"] /\ query[q] \in Query
    BY <1>1 DEF DNSCrash, TypeInv, DNSTypeOK
  <2> QED BY <1>1, <2>1 DEF TurnsQuery, QueryInFlight, Query
<1>2. CASE ~QueryInFlight(q)
  BY <1>2 DEF DNSCrash
<1> QED BY <1>1, <1>2

(* So the reply that is written holds the answers. *)
LEMMA ReplyTurns ==
  ASSUME NEW q \in DNSQueries, ReplyHasAnswers(q), query'[q] = query[q] \/ TurnsQuery(q)
  PROVE  ReplyHasAnswers(q)'
  BY DEF ReplyHasAnswers, TurnsQuery

=============================================================================
