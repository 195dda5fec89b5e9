------------------------------ MODULE Database ------------------------------
(***************************************************************************)
(* The SQLite database, the only state that the servers share and the only *)
(* state that survives a crash: the tables of schema/001.sql and           *)
(* schema/003.sql, and the SQL statements that the Go code executes.       *)
(*                                                                         *)
(* The program opens no transaction of its own: every statement commits by *)
(* itself, so every statement is one atomic step, and the steps of         *)
(* different goroutines interleave between statements.  A statement that   *)
(* fails (a database busy for longer than the timeout of five seconds, a   *)
(* full disk) changes nothing; the components model that case.             *)
(*                                                                         *)
(* The component modules extend this one, so they share its variables.     *)
(***************************************************************************)
EXTENDS Hostnames, FiniteSets

CONSTANTS
  NULL,          \* SQL NULL, and "no value" of a Go variable
  TestLifetime,  \* the age at which cleanupTests stops a test (6 hours)
  ZoneOffset,    \* the UTC offset of the server's time zone
  Subdomains,    \* the subdomains that users publish under
  RData,         \* the data of DNS records
  RecordData,    \* which data a record of which type may have
  Paths,         \* paths of HTTP files
  Contents,      \* contents of HTTP files
  DNSQueries,    \* the DNS queries that may arrive
  HTTPRequests,  \* the HTTP requests that may arrive
  Mails,         \* the mail transactions that may arrive
  MaxClock,      \* bound of the clock
  MaxRows        \* bound of the row ids of dns_record and http_file

RecordTypes == {"TXT", "CAA", "CNAME"}

ASSUME DatabaseAssumption ==
  /\ NULL \notin Int \cup TestIDs
  /\ TestLifetime \in Nat
  /\ ZoneOffset \in Int
  /\ MaxClock \in Nat
  /\ MaxRows \in Nat
  /\ Subdomains \subseteq Seq(AnyWord)
  /\ RecordData \subseteq RecordTypes \X RData

VARIABLES
  clock,         \* the time in UTC
  test,          \* table test: started_at and stopped_at of every test ID
  dns_record,    \* table dns_record: the records users published
  http_file,     \* table http_file: the files users published
  dns_request,   \* table dns_request   \
  http_request,  \* table http_request   | the requests recorded
  smtp_request   \* table smtp_request  /

dbVars ==
  <<clock, test, dns_record, http_file, dns_request, http_request, smtp_request>>

Schemes == {"http", "https"}

(* A row of the table test; without one, both are NULL.                    *)
TestRow ==
  [started : Nat, stopped : Nat \cup {NULL}] \cup {[started |-> NULL, stopped |-> NULL]}

DNSRecord ==
  [id : Nat, test : TestIDs, sub : Seq(AnyWord), type : RecordTypes, data : RData]

HTTPFile ==
  [id : Nat, test : TestIDs, scheme : Schemes, sub : Seq(AnyWord),
   path : Paths, content : Contents]

(* A row of a request table stands for the request it was made from.  The  *)
(* field live is history: whether the test was running at the insertion.   *)
RequestRow(requests) == [test : TestIDs, req : requests, live : BOOLEAN]

DBTypeOK ==
  /\ clock \in Nat
  /\ test \in [TestIDs -> TestRow]
  /\ dns_record \subseteq DNSRecord
  /\ http_file \subseteq HTTPFile
  /\ dns_request \subseteq RequestRow(DNSQueries)
  /\ http_request \subseteq RequestRow(HTTPRequests)
  /\ smtp_request \subseteq RequestRow(Mails)

DBInit ==
  /\ clock = 0
  /\ test = [t \in TestIDs |-> [started |-> NULL, stopped |-> NULL]]
  /\ dns_record = {}
  /\ http_file = {}
  /\ dns_request = {}
  /\ http_request = {}
  /\ smtp_request = {}

-----------------------------------------------------------------------------
(* Reading.  A test that does not exist is not running.                    *)

Exists(t) == test[t].started # NULL

(* A bug: a test that was stopped is not told from a running one.          *)
isRunningTestIfExists(t) == Exists(t)

isRunningTest(t) == Exists(t) /\ test[t].stopped = NULL

(* The three stages of a test's life, used by history fields.              *)
Stage(t) ==
  IF ~Exists(t) THEN "absent"
  ELSE IF test[t].stopped = NULL THEN "running" ELSE "stopped"

Stages == {"absent", "running", "stopped"}

-----------------------------------------------------------------------------
(* The table test.                                                         *)

Tick ==
  /\ clock < MaxClock
  /\ clock' = clock + 1
  /\ UNCHANGED <<test, dns_record, http_file, dns_request, http_request, smtp_request>>

(* INSERT INTO test: the ID is 128 fresh random bits, so no row has it.    *)
InsertTest(t) ==
  /\ ~Exists(t)
  /\ test' = [test EXCEPT ![t] = [started |-> clock, stopped |-> NULL]]
  /\ UNCHANGED <<clock, dns_record, http_file, dns_request, http_request, smtp_request>>

(* A bug: a test that was stopped is stopped again.                        *)
StopTestAgain(t) ==
  /\ test' = IF Exists(t) THEN [test EXCEPT ![t].stopped = clock] ELSE test
  /\ UNCHANGED <<clock, dns_record, http_file, dns_request, http_request, smtp_request>>

(* UPDATE test SET stopped_at = CURRENT_TIMESTAMP                          *)
(*   WHERE test_id = ? AND stopped_at IS NULL                              *)
StopTest(t) ==
  /\ test' = IF isRunningTest(t)
               THEN [test EXCEPT ![t].stopped = clock]
               ELSE test
  /\ UNCHANGED <<clock, dns_record, http_file, dns_request, http_request, smtp_request>>

(* cleanupTests compares text.  started_at is CURRENT_TIMESTAMP, in UTC;   *)
(* the cutoff is a Go time in the server's zone, and the driver binds it   *)
(* as the local date and time followed by the offset, so the comparison    *)
(* takes the local time for UTC.  Of two equal times the stored one is a   *)
(* proper prefix of the bound one and counts as smaller.                   *)
Expired(t) == test[t].started <= clock + ZoneOffset - TestLifetime

cleanupTests ==
  /\ test' = [t \in TestIDs |->
                IF isRunningTest(t) /\ Expired(t)
                  THEN [test[t] EXCEPT !.stopped = clock]
                  ELSE test[t]]
  /\ UNCHANGED <<clock, dns_record, http_file, dns_request, http_request, smtp_request>>

-----------------------------------------------------------------------------
(* The tables dns_record and http_file.  SQLite gives an INTEGER PRIMARY   *)
(* KEY the value after the largest in the table, so the id of a deleted    *)
(* last row is used again.                                                 *)
IsNextID(id, rows) ==
  /\ \A r \in rows : r.id < id
  /\ id = 1 \/ \E r \in rows : r.id = id - 1

(* A bug: the condition on the test is missing.                            *)
RowIs(r, t, id) == r.id = id

(* The condition of both DELETE statements: test_id = ? AND ..._id = ?     *)
RowIsOf(r, t, id) == r.test = t /\ r.id = id

InsertRecord(t, sub, type, data) ==
  /\ Exists(t)
  /\ \E id \in 1..MaxRows :
       /\ IsNextID(id, dns_record)
       /\ dns_record' = dns_record \cup
            {[id |-> id, test |-> t, sub |-> sub, type |-> type, data |-> data]}
  /\ UNCHANGED <<clock, test, http_file, dns_request, http_request, smtp_request>>

DeleteRecord(t, id) ==
  /\ dns_record' = {r \in dns_record : ~RowIsOf(r, t, id)}
  /\ UNCHANGED <<clock, test, http_file, dns_request, http_request, smtp_request>>

FileAt(t, scheme, sub, path) ==
  {f \in http_file : <<f.test, f.scheme, f.sub, f.path>> = <<t, scheme, sub, path>>}

(* INSERT INTO http_file ... ON CONFLICT DO NOTHING.                       *)
InsertFile(t, scheme, sub, path, content) ==
  /\ Exists(t)
  /\ IF FileAt(t, scheme, sub, path) = {}
       THEN \E id \in 1..MaxRows :
              /\ IsNextID(id, http_file)
              /\ http_file' = http_file \cup
                   {[id |-> id, test |-> t, scheme |-> scheme, sub |-> sub,
                     path |-> path, content |-> content]}
       ELSE http_file' = http_file
  /\ UNCHANGED <<clock, test, dns_record, dns_request, http_request, smtp_request>>

DeleteFile(t, id) ==
  /\ http_file' = {f \in http_file : ~RowIsOf(f, t, id)}
  /\ UNCHANGED <<clock, test, dns_record, dns_request, http_request, smtp_request>>

-----------------------------------------------------------------------------
(* The request tables.  Rows are inserted and never updated or deleted.    *)

RowFor(t, req) == [test |-> t, req |-> req, live |-> isRunningTest(t)]

InsertDNSRequest(t, q) ==
  /\ Exists(t)
  /\ dns_request' = dns_request \cup {RowFor(t, q)}
  /\ UNCHANGED <<clock, test, dns_record, http_file, http_request, smtp_request>>

InsertHTTPRequest(t, r) ==
  /\ Exists(t)
  /\ http_request' = http_request \cup {RowFor(t, r)}
  /\ UNCHANGED <<clock, test, dns_record, http_file, dns_request, smtp_request>>

InsertSMTPRequest(t, m) ==
  /\ Exists(t)
  /\ smtp_request' = smtp_request \cup {RowFor(t, m)}
  /\ UNCHANGED <<clock, test, dns_record, http_file, dns_request, http_request>>

-----------------------------------------------------------------------------
(* The statements that change what the servers read, by whichever          *)
(* goroutine: the environment of a component that is checked by itself.    *)
OtherStatements ==
  \/ \E t \in TestIDs :
       \/ InsertTest(t)
       \/ StopTest(t)
       \/ \E sub \in Subdomains, type \in RecordTypes, data \in RData :
            <<type, data>> \in RecordData /\ InsertRecord(t, sub, type, data)
       \/ \E id \in 1..MaxRows : DeleteRecord(t, id)
       \/ \E scheme \in Schemes, sub \in Subdomains, path \in Paths, content \in Contents :
            InsertFile(t, scheme, sub, path, content)
       \/ \E id \in 1..MaxRows : DeleteFile(t, id)
  \/ cleanupTests
  \/ Tick

=============================================================================
