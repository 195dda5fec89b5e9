SPECIFICATION FairIPSpec
CONSTANTS
  NONE = NONE
  l1 = l1
  Feeds = {"prefixes", "names", "google"}
  Interval <- MCInterval
  RetryAfter <- MCRetryAfter
  Lookups = {l1}
  MaxVersion <- MCMaxVersion
  MaxFailures <- MCMaxFailures
INVARIANTS
  FamiliesAgree
  FreshEnough
PROPERTIES
  LookupIsSnapshot
  NeverForgets
  NewsArrives
CHECK_DEADLOCK FALSE
