SPECIFICATION SystemSpec
CONSTANTS
  NULL = NULL
  t1 = t1
  q1 = q1
  r1 = r1
  c1 = c1
  s1 = s1
  s2 = s2
  TestIDs <- MCTestIDs
  Words <- MCWords
  Underscored = {}
  Malformed = {"none"}
  Subdomains <- MCSubdomains
  Paths <- MCPaths
  Contents <- MCContents
  RData <- MCRData
  RecordData <- MCRecordData
  DNSQueries = {q1}
  HTTPRequests = {r1}
  Mails = {1}
  Connections = {c1}
  Sessions = {s1, s2}
  Scenes <- MCScenes
  Names <- MCNames
  QTypes = {"A", "TXT"}
  Classes = {"IN"}
  Hosts <- MCHosts
  ServerNames <- MCHosts
  SourceKinds = {TRUE}
  Addresses <- MCHosts
  MaxRecipients = 1
  Posted <- MCPosted
  redirectDashboardToHTTPS = FALSE
  TestLifetime = 0
  ZoneOffset = 0
  MaxClock = 1
  MaxRows = 2
INVARIANTS
  SystemTypeOK
  ResultsPageComplete
  
  PublishedIsAnswered
  CNAMEsLeadToCAs
PROPERTIES
  ImplementsTestLog
CHECK_DEADLOCK FALSE
