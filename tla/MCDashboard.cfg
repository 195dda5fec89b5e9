SPECIFICATION DashboardSpec
CONSTANTS
  NULL = NULL
  t1 = t1
  t2 = t2
  TestIDs <- MCTestIDs
  Words = {}
  Underscored = {}
  Malformed = {}
  Subdomains <- MCSubdomains
  Sessions = {"s1"}
  Posted <- MCPosted
  redirectDashboardToHTTPS = TRUE
  DNSQueries = {}
  HTTPRequests = {}
  Mails = {}
  Paths <- MCPaths
  Contents <- MCContents
  RData <- MCRData
  RecordData <- MCRecordData
  TestLifetime = 0
  ZoneOffset = 0
  MaxClock = 0
  MaxRows = 1
PROPERTIES
  NoLateEdit
  OnlyOwnRows
  AddedFileIsServed
CHECK_DEADLOCK FALSE
