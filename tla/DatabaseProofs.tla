--------------------------- MODULE DatabaseProofs ---------------------------
(***************************************************************************)
(* Lemmas about the statements of Database and the names of Hostnames, for *)
(* the proofs about the components: every statement keeps the tables well  *)
(* typed, and none starts a stopped test again.                            *)
(***************************************************************************)
EXTENDS Database, TLAPS, WellFoundedInduction

(* No statement starts a stopped test again or makes a test vanish. *)
StopsAreFinal ==
  \A t \in TestIDs : /\ Stage(t) = "stopped" => Stage(t)' = "stopped"
                     /\ Stage(t) # "absent" => Stage(t)' # "absent"

(* A test stays in its stage, or is stopped, and the time of that is noted *)
(* once and for all.                                                       *)
MayEnd(t) ==
  \/ Stage(t)' = Stage(t) /\ test'[t].stopped = test[t].stopped
  \/ Stage(t) = "running" /\ Stage(t)' = "stopped" /\ test'[t].stopped = clock

(* No two rows of a table share their primary key. *)
IDsUnique(rows) == \A r, s \in rows : r.id = s.id => r = s

-----------------------------------------------------------------------------
(* Lower-casing a name yields a name. *)
LEMMA ToLowerType ==
  ASSUME NEW name \in Hostname
  PROVE  ToLower(name) \in Hostname
<1>1. /\ name.labels \in Seq(Label)
      /\ name.dot \in BOOLEAN
  BY DEF Hostname
<1>2. ASSUME NEW i \in 1..Len(name.labels)
      PROVE  LowerLabel(name.labels[i].word) \in Label
  <2>1. name.labels[i] \in Label
    BY <1>1
  <2> QED BY <2>1 DEF Label, LowerLabel
<1>3. [i \in 1..Len(name.labels) |-> LowerLabel(name.labels[i].word)] \in Seq(Label)
  BY <1>1, <1>2
<1> QED BY <1>1, <1>3 DEF ToLower, Hostname

(* parseHostname returns a test ID and a subdomain, or not ok. *)
LEMMA ParseType ==
  ASSUME NEW name \in Hostname
  PROVE  parseHostname(name) \in Target
<1>1. name.labels \in Seq(Label)
  BY DEF Hostname
<1>2. ASSUME NEW i \in 1..Len(name.labels)
      PROVE  name.labels[i].word \in AnyWord
  <2>1. name.labels[i] \in Label
    BY <1>1
  <2> QED BY <2>1 DEF Label
<1>3. [i \in 1..(Len(name.labels) - 3) |-> name.labels[i].word] \in Seq(AnyWord)
  <2>1. CASE Len(name.labels) < 3
    <3>1. 1..(Len(name.labels) - 3) = {}
      BY <1>1, <2>1
    <3>2. [i \in 1..(Len(name.labels) - 3) |-> name.labels[i].word] = << >>
      BY <3>1
    <3> QED BY <3>2
  <2>2. CASE Len(name.labels) >= 3
    <3>1. Len(name.labels) - 3 \in Nat
      BY <1>1, <2>2
    <3>2. \A i \in 1..(Len(name.labels) - 3) : name.labels[i].word \in AnyWord
      BY <1>1, <1>2, <3>1
    <3> QED BY <3>1, <3>2
  <2> QED BY <1>1, <2>1, <2>2
<1> QED BY <1>3 DEF parseHostname, Target

(* The test of a name that belongs to one. *)
LEMMA TargetType ==
  ASSUME NEW name \in Hostname, parseHostname(name).ok
  PROVE  parseHostname(name).id \in TestIDs
<1>1. parseHostname(name) \in Target
  BY ParseType
<1>2. parseHostname(name) # [ok |-> FALSE]
  OBVIOUS
<1>3. parseHostname(name) \in [ok : {TRUE}, id : TestIDs, sub : Seq(AnyWord)]
  BY <1>1, <1>2 DEF Target
<1> QED BY <1>3

(* The name that makeHostname gives to a subdomain of a test is parsed as  *)
(* that test and that subdomain, and whether it ends in a dot is of no     *)
(* consequence: what a user publishes is found under the name he is shown. *)
THEOREM RoundTrip ==
  ASSUME NEW id \in TestIDs, NEW sub \in Seq(AnyWord), NEW dot \in BOOLEAN
  PROVE  parseHostname([makeHostname(id, sub) EXCEPT !.dot = dot])
           = [ok |-> TRUE, id |-> id, sub |-> sub]
<1> DEFINE words == sub \o <<id, "test", "domain">>
           name == [makeHostname(id, sub) EXCEPT !.dot = dot]
           n == Len(words)
<1>1. words \in Seq(AnyWord) /\ n = Len(sub) + 3 /\ n \in Nat
  BY DEF AnyWord
<1>2. name.labels = [i \in 1..n |-> LowerLabel(words[i])]
  BY DEF makeHostname
<1>3. Len(name.labels) = n
  BY <1>1, <1>2
<1>4. /\ words[n] = "domain" /\ words[n-1] = "test" /\ words[n-2] = id
      /\ \A i \in 1..Len(sub) : words[i] = sub[i]
  BY <1>1
<1>5. /\ name.labels[n] = LowerLabel("domain")
      /\ name.labels[n-1] = LowerLabel("test")
      /\ name.labels[n-2].word = id
      /\ \A i \in 1..Len(sub) : name.labels[i].word = sub[i]
  <2>1. \A i \in 1..n : name.labels[i] = LowerLabel(words[i])
    BY <1>2
  <2>2. n \in 1..n /\ n-1 \in 1..n /\ n-2 \in 1..n /\ 1..Len(sub) \subseteq 1..n
    BY <1>1
  <2> HIDE DEF name, words
  <2>3. \A word : LowerLabel(word).word = word
    BY DEF LowerLabel
  <2> QED BY <1>4, <2>1, <2>2, <2>3
<1>6. [i \in 1..(n-3) |-> name.labels[i].word] = sub
  BY <1>1, <1>5
<1> HIDE DEF name, words
<1>7. n >= 3
  BY <1>1
<1>8. parseHostname(name) = [ok |-> TRUE, id |-> id, sub |-> sub]
  BY <1>3, <1>5, <1>6, <1>7 DEF parseHostname
<1> QED BY <1>8 DEF name

-----------------------------------------------------------------------------
(* The tables of a new database are empty. *)
LEMMA EmptyDatabase ==
  ASSUME DBInit
  PROVE  DBTypeOK
  BY DatabaseAssumption DEF DBInit, DBTypeOK, TestRow, RequestRow

(* The statements on the table test. *)
LEMMA TestStatements ==
  ASSUME DBTypeOK,
         \/ Tick
         \/ \E t \in TestIDs : InsertTest(t) \/ StopTest(t)
         \/ cleanupTests
  PROVE  /\ DBTypeOK'
         /\ StopsAreFinal
         /\ UNCHANGED <<dns_record, http_file, dns_request, http_request, smtp_request>>
<1> DEFINE Goal == /\ DBTypeOK'
                   /\ StopsAreFinal
                   /\ UNCHANGED <<dns_record, http_file, dns_request, http_request, smtp_request>>
<1> USE DatabaseAssumption DEF DBTypeOK, TestRow, StopsAreFinal, Stage, Exists, isRunningTest
<1>1. CASE Tick
  BY <1>1 DEF Tick
<1>2. ASSUME NEW t \in TestIDs, InsertTest(t)
      PROVE  Goal
  BY <1>2 DEF InsertTest
<1>3. ASSUME NEW t \in TestIDs, StopTest(t)
      PROVE  Goal
  BY <1>3 DEF StopTest
<1>4. CASE cleanupTests
  <2>1. test' \in [TestIDs -> TestRow]
    BY <1>4 DEF cleanupTests
  <2> QED BY <2>1, <1>4 DEF cleanupTests
<1> QED BY <1>1, <1>2, <1>3, <1>4

(* A test that is started was absent, and has no time of a stop. *)
LEMMA StartOfTest ==
  ASSUME DBTypeOK, NEW t \in TestIDs, InsertTest(t)
  PROVE  /\ Stage(t) = "absent" /\ Stage(t)' = "running"
         /\ \A u \in TestIDs \ {t} : Stage(u)' = Stage(u)
         /\ \A u \in TestIDs : test'[u].stopped = test[u].stopped
         /\ UNCHANGED clock
<1>1. /\ clock \in Nat /\ test[t] \in TestRow /\ test[t].started = NULL
      /\ test' = [test EXCEPT ![t] = [started |-> clock, stopped |-> NULL]]
      /\ UNCHANGED clock
  BY DEF InsertTest, DBTypeOK, Exists
<1>2. test[t].stopped = NULL /\ clock # NULL
  BY <1>1, DatabaseAssumption DEF TestRow
<1>3. /\ test'[t] = [started |-> clock, stopped |-> NULL]
      /\ \A u \in TestIDs \ {t} : test'[u] = test[u]
  BY <1>1 DEF DBTypeOK
<1> QED BY <1>1, <1>2, <1>3 DEF Stage, Exists

(* A stop, by whomever, ends running tests only. *)
LEMMA StopOfTests ==
  ASSUME DBTypeOK, cleanupTests \/ \E t \in TestIDs : StopTest(t)
  PROVE  UNCHANGED clock /\ \A t \in TestIDs : MayEnd(t)
<1>1. clock \in Nat /\ clock # NULL /\ UNCHANGED clock
  BY DatabaseAssumption DEF DBTypeOK, cleanupTests, StopTest
<1>2. ASSUME NEW t \in TestIDs
      PROVE  \/ test'[t] = test[t]
             \/ isRunningTest(t) /\ test'[t] = [test[t] EXCEPT !.stopped = clock]
  BY DEF DBTypeOK, cleanupTests, StopTest
<1>3. ASSUME NEW t \in TestIDs
      PROVE  MayEnd(t)
  <2>1. test[t] \in TestRow
    BY DEF DBTypeOK
  <2>2. CASE isRunningTest(t) /\ test'[t] = [test[t] EXCEPT !.stopped = clock]
    <3>1. /\ test'[t].stopped = clock /\ test'[t].started = test[t].started
          /\ test[t].started # NULL /\ test[t].stopped = NULL
      BY <2>1, <2>2 DEF TestRow, isRunningTest, Exists
    <3> QED BY <1>1, <3>1 DEF MayEnd, Stage, Exists
  <2> QED BY <1>2, <2>2 DEF MayEnd, Stage, Exists
<1> QED BY <1>1, <1>3

(* The statements on what users publish. *)
LEMMA PublishStatements ==
  ASSUME DBTypeOK, NEW t \in TestIDs,
         \/ \E sub \in Seq(AnyWord), type \in RecordTypes, data \in RData :
              InsertRecord(t, sub, type, data)
         \/ \E id \in 1..MaxRows : DeleteRecord(t, id)
         \/ \E scheme \in Schemes, sub \in Seq(AnyWord), path \in Paths, content \in Contents :
              InsertFile(t, scheme, sub, path, content)
         \/ \E id \in 1..MaxRows : DeleteFile(t, id)
  PROVE  /\ DBTypeOK'
         /\ UNCHANGED <<clock, test, dns_request, http_request, smtp_request>>
         /\ IDsUnique(dns_record) => IDsUnique(dns_record')
<1> DEFINE Goal == /\ DBTypeOK'
                   /\ UNCHANGED <<clock, test, dns_request, http_request, smtp_request>>
                   /\ IDsUnique(dns_record) => IDsUnique(dns_record')
<1> USE DatabaseAssumption DEF DBTypeOK
<1>1. ASSUME NEW sub \in Seq(AnyWord), NEW type \in RecordTypes, NEW data \in RData,
             InsertRecord(t, sub, type, data)
      PROVE  Goal
  <2>1. PICK id \in 1..MaxRows :
          /\ IsNextID(id, dns_record)
          /\ dns_record' = dns_record \cup
               {[id |-> id, test |-> t, sub |-> sub, type |-> type, data |-> data]}
    BY <1>1 DEF InsertRecord
  <2>2. dns_record' \subseteq DNSRecord
    BY <2>1 DEF DNSRecord
  <2>3. IDsUnique(dns_record) => IDsUnique(dns_record')
    BY <2>1 DEF IDsUnique, IsNextID, DNSRecord
  <2> QED BY <2>2, <2>3, <1>1 DEF InsertRecord
<1>2. ASSUME NEW id \in 1..MaxRows, DeleteRecord(t, id)
      PROVE  Goal
  BY <1>2 DEF DeleteRecord, IDsUnique
<1>3. ASSUME NEW scheme \in Schemes, NEW sub \in Seq(AnyWord), NEW path \in Paths,
             NEW content \in Contents, InsertFile(t, scheme, sub, path, content)
      PROVE  Goal
  BY <1>3 DEF InsertFile, HTTPFile, IDsUnique
<1>4. ASSUME NEW id \in 1..MaxRows, DeleteFile(t, id)
      PROVE  Goal
  BY <1>4 DEF DeleteFile, IDsUnique
<1> QED BY <1>1, <1>2, <1>3, <1>4

(* The statements that record requests. *)
LEMMA RequestStatements ==
  ASSUME DBTypeOK, NEW t \in TestIDs,
         \/ \E q \in DNSQueries : InsertDNSRequest(t, q)
         \/ \E r \in HTTPRequests : InsertHTTPRequest(t, r)
         \/ \E m \in Mails : InsertSMTPRequest(t, m)
  PROVE  DBTypeOK' /\ UNCHANGED test
<1> USE DEF DBTypeOK
<1>1. ASSUME NEW requests, NEW r \in requests
      PROVE  RowFor(t, r) \in RequestRow(requests)
  BY DEF RowFor, RequestRow, isRunningTest
<1>2. ASSUME NEW q \in DNSQueries, InsertDNSRequest(t, q)
      PROVE  DBTypeOK' /\ UNCHANGED test
  BY <1>1, <1>2 DEF InsertDNSRequest
<1>3. ASSUME NEW r \in HTTPRequests, InsertHTTPRequest(t, r)
      PROVE  DBTypeOK' /\ UNCHANGED test
  BY <1>1, <1>3 DEF InsertHTTPRequest
<1>4. ASSUME NEW m \in Mails, InsertSMTPRequest(t, m)
      PROVE  DBTypeOK' /\ UNCHANGED test
  BY <1>1, <1>4 DEF InsertSMTPRequest
<1> QED BY <1>2, <1>3, <1>4

-----------------------------------------------------------------------------
(* A statement of another goroutine starts no stopped test again, and      *)
(* leaves the requests that were recorded alone.                           *)
LEMMA EnvironmentStep ==
  ASSUME DBTypeOK, OtherStatements
  PROVE  /\ DBTypeOK'
         /\ StopsAreFinal
         /\ UNCHANGED <<dns_request, http_request, smtp_request>>
         /\ IDsUnique(dns_record) => IDsUnique(dns_record')
<1>1. CASE \E t \in TestIDs : InsertTest(t) \/ StopTest(t)
  BY <1>1, TestStatements
<1>2. CASE cleanupTests \/ Tick
  BY <1>2, TestStatements
<1>3. CASE \E t \in TestIDs :
             \/ \E sub \in Subdomains, type \in RecordTypes, data \in RData :
                  InsertRecord(t, sub, type, data)
             \/ \E id \in 1..MaxRows : DeleteRecord(t, id)
             \/ \E scheme \in Schemes, sub \in Subdomains, path \in Paths,
                   content \in Contents : InsertFile(t, scheme, sub, path, content)
             \/ \E id \in 1..MaxRows : DeleteFile(t, id)
  <2>1. /\ DBTypeOK'
        /\ UNCHANGED <<test, dns_request, http_request, smtp_request>>
        /\ IDsUnique(dns_record) => IDsUnique(dns_record')
    <3>1. \A sub \in Subdomains : sub \in Seq(AnyWord)
      BY DatabaseAssumption
    <3> QED BY <1>3, <3>1, PublishStatements
  <2> QED BY <2>1 DEF StopsAreFinal, Stage, Exists
<1> QED BY <1>1, <1>2, <1>3 DEF OtherStatements

(* A step that leaves the table test alone stops nothing. *)
LEMMA TestUnchanged ==
  ASSUME UNCHANGED test
  PROVE  /\ StopsAreFinal
         /\ \A t : Stage(t)' = Stage(t) /\ isRunningTest(t)' = isRunningTest(t)
  BY DEF StopsAreFinal, Stage, Exists, isRunningTest

(* Every non-empty set of natural numbers has a smallest member. *)
LEMMA SmallestOfNat ==
  ASSUME NEW T, T \subseteq Nat, T # {}
  PROVE  \E x \in T : \A y \in T : x <= y
<1>1. PICK x \in T : \A y \in T : <<y, x>> \notin OpToRel(<, Nat)
  BY NatLessThanWellFounded, WFMin, Zenon
<1>2. \A y \in T : ~(y < x)
  BY <1>1 DEF OpToRel
<1>3. \A y \in T : x <= y
  BY <1>2
<1> QED BY <1>3

(* What is running is neither absent nor stopped. *)
LEMMA RunningStage ==
  ASSUME NEW t
  PROVE  isRunningTest(t) <=> Stage(t) = "running"
  BY DEF Stage, isRunningTest

=============================================================================
