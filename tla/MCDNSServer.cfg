SPECIFICATION DNSServerSpec
CONSTANTS
  NULL = NULL
  t1 = t1
  q1 = q1
  TestIDs <- MCTestIDs
  Words <- MCWords
  Underscored <- MCUnderscored
  Subdomains <- MCSubdomains
  Names <- MCNames
  QTypes = {"A", "TXT", "ANY", "AXFR"}
  Classes = {"IN", "CH"}
  DNSQueries = {q1}
  RData = {"d", "e"}
  RecordData <- MCRecordData
  HTTPRequests = {}
  Mails = {}
  Paths = {}
  Contents = {}
  TestLifetime = 0
  ZoneOffset = 0
  MaxClock = 0
  MaxRows = 2
INVARIANTS
  DNSTypeOK
  NoLateQuery
  NoLateAnswer
  LiveQueryRecorded
  CNAMEAlone
  AddressSurvivesFaults
CHECK_DEADLOCK FALSE
