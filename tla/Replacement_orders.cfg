SPECIFICATION Spec
CONSTANTS
  a = a
  n1 = n1
  n2 = n2
  v = v
  NoPo = NoPo
  NoLine = NoLine
  LineSeq <- MCLineSeq
  Spares <- MCSpares
  VendorOf <- MCOneVendor
  SiteStatuses <- MCSite
  Selections <- MCSelections
  MaxEdits = 2
  Asks = {TRUE}
CHECK_DEADLOCK FALSE
INVARIANTS
    TypeOK
    ReplacementsKept
    StatusFollowsLines
PROPERTIES
    CancelsExactly
