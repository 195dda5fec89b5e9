SPECIFICATION HTTPServerSpec
CONSTANTS
  NULL = NULL
  t1 = t1
  r1 = r1
  TestIDs <- MCTestIDs
  Words <- MCWords
  Underscored <- MCUnderscored
  Subdomains <- MCSubdomains
  Hosts <- MCHosts
  ServerNames <- MCServerNames
  SourceKinds = {TRUE, FALSE}
  HTTPRequests = {r1}
  Paths = {"p"}
  Contents = {"c", "d"}
  DNSQueries = {}
  Mails = {}
  RData = {}
  RecordData = {}
  TestLifetime = 0
  ZoneOffset = 0
  MaxClock = 0
  MaxRows = 3
INVARIANTS
  ServedIsRecorded
  NoLateRequest
  LiveRequestServed
CHECK_DEADLOCK FALSE
