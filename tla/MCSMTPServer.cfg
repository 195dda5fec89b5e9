SPECIFICATION FairSMTPServerSpec
CONSTANTS
  NULL = NULL
  t1 = t1
  t2 = t2
  s1 = s1
  TestIDs <- MCTestIDs
  Words <- MCWords
  Underscored = {}
  Subdomains = {}
  Sessions = {s1}
  Mails = {1, 2}
  Addresses <- MCAddresses
  MaxRecipients = 2
  DNSQueries = {}
  HTTPRequests = {}
  RData = {}
  RecordData = {}
  Paths = {}
  Contents = {}
  TestLifetime = 0
  ZoneOffset = 0
  MaxClock = 0
  MaxRows = 0
INVARIANTS
  RecordedForRecipients
  RecordedOnce
  NoLateMail
  LiveMailRecorded
PROPERTIES
  MailAnswered
CHECK_DEADLOCK FALSE
