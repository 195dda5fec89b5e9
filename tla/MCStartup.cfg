SPECIFICATION FairStartupSpec
CONSTANTS
  NULL = NULL
  Handshakes = {"h1", "h2"}
  Configurations <- MCConfigurations
  Inherited = {3}
  OtherSockets <- MCOtherSockets
  Visitors = {"v1"}
  MaxStarts = 2
INVARIANTS
  HandshakesAgree
  NoHalfService
  NoSpuriousConflict
PROPERTIES
  HandshakeEnds
  RedirectLeadsSomewhere
CHECK_DEADLOCK FALSE
