SPECIFICATION FairCleanupSpec
CONSTANTS
  NULL = NULL
  t1 = t1
  t2 = t2
  TestIDs <- MCTestIDs
  Words = {}
  Underscored = {}
  Subdomains = {}
  DNSQueries = {}
  HTTPRequests = {}
  Mails = {}
  Paths = {}
  Contents = {}
  RData = {}
  RecordData = {}
  TestLifetime = 3
  ZoneOffset = 1
  Period = 2
  MaxClock = 10
  MaxRows = 0
  MaxFailures = 2
  MaxCrashes = 1
INVARIANTS
  NoOverdueTest
PROPERTIES
  EventuallyStopped
CHECK_DEADLOCK FALSE
