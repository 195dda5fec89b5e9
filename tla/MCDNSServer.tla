----------------------------- MODULE MCDNSServer -----------------------------
(***************************************************************************)
(* The DNS server on small instances: one test, and the names that take    *)
(* serveDNS along each of its paths.                                       *)
(***************************************************************************)
EXTENDS DNSServer

CONSTANTS t1, q1

MCTestIDs == {t1}
MCWords == {"www", "_acme"}
MCUnderscored == {"_acme"}
MCRecordData == RecordTypes \X RData
MCSubdomains == {<<>>, <<"_acme">>}

Upper(word) == [word |-> word, upper |-> TRUE]
Under(labels) ==
  [labels |-> labels \o <<LowerLabel("test"), LowerLabel("domain")>>, dot |-> TRUE]

(* The apex, the test (in upper case), a name below it that begins with an *)
(* underscore, a name of no test, and a name outside of test.<domain>.     *)
ApexName == Under(<<>>)
TestName == Under(<<Upper(t1)>>)
AcmeName == Under(<<LowerLabel("_acme"), LowerLabel(t1)>>)
WrongName == Under(<<LowerLabel("www")>>)
OutsideName == [labels |-> <<LowerLabel("domain")>>, dot |-> TRUE]

MCNames == {ApexName, TestName, AcmeName, WrongName, OutsideName}
MCTestNames == {TestName, AcmeName}

=============================================================================
