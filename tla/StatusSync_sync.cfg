SPECIFICATION FairSpec
CONSTANTS
  a = a
  b = b
  r1 = r1
  r2 = r2
  Lines <- MCLines
  Reqs <- MCReqs
  Words <- MCForward
  SiteWords <- MCSiteWords
  FailCodes <- MCFailCodes
  MaxSaves = 2
  MaxResyncs = 1
  MaxFaults = 2
  MaxAborts = 1
  MaxMoves = 1
CHECK_DEADLOCK FALSE
INVARIANTS
    TypeOK
    LastWasHeld
    SilenceIsAgreement
PROPERTIES
    RowsEnd
