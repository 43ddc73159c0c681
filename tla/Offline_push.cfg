CONSTANTS
    a = a
    b = b
    c = c
    p = p
    NoSize = NoSize
    NoNumber = NoNumber
    LineSeq <- MCLineSeq
    SizeLine <- MCSizeLine
    Moves <- MCMoves
    SiteMoves = {"cancelled", "confirmed"}
    Groupings = {"stones", "slices", "parcels"}
    Reserves = {FALSE, TRUE}
    MaxRows = 1
SPECIFICATION Spec
CHECK_DEADLOCK FALSE
INVARIANTS
    TypeOK
    PushedIsRouted
PROPERTIES
    DeadAndAliveApart
    EventuallyPushed
