SPECIFICATION Spec
CONSTANTS
  s1 = s1
  s2 = s2
  p1 = p1
  p2 = p2
  a1 = a1
  a2 = a2
  NoParcel = NoParcel
  Stone <- MCStone
  Parcel <- MCParcel
  Address <- MCAddress
  FirstDest <- MCFirstDest
  Held <- MCHeld
  Recorded <- MCRecorded
  Cancellable <- MCCancellable
SYMMETRY MCSymmetry
CHECK_DEADLOCK FALSE
INVARIANTS
    TypeOK
    BilledAsDecided
    ParcelsAccounted
PROPERTIES
    SaleLeavesBilled
