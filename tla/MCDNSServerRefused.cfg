SPECIFICATION DNSServerSpec
CONSTANTS
  NULL = NULL
  t1 = t1
  q1 = q1
  TestIDs <- MCTestIDs
  Words <- MCWords
  Underscored <- MCUnderscored
  Subdomains <- MCSubdomains
  Names <- MCTestNames
  QTypes = {"A", "AXFR"}
  Classes = {"IN"}
  DNSQueries = {q1}
  RData = {"d"}
  RecordData <- MCRecordData
  HTTPRequests = {}
  Mails = {}
  Paths = {}
  Contents = {}
  TestLifetime = 0
  ZoneOffset = 0
  MaxClock = 0
  MaxRows = 1
INVARIANTS
  EveryQueryRecorded
CHECK_DEADLOCK FALSE
