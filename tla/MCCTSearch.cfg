SPECIFICATION FairSearchSpec
CONSTANTS
  r1 = r1
  r2 = r2
  Runs = {r1, r2}
  PageSize = 2
  MaxIssuances = 5
INVARIANTS
  NoRowTwice
  SearchComplete
  EndIsVisible
PROPERTIES
  SearchAdvances
  SearchEnds
CHECK_DEADLOCK FALSE
