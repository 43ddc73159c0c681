SPECIFICATION Spec
CONSTANTS
    s1 = s1
    s2 = s2
    s3 = s3
    l1 = l1
    l2 = l2
    l3 = l3
    l4 = l4
    l5 = l5
    p1 = p1
    p2 = p2
    o1 = o1
    o2 = o2
    NoPo = NoPo
    Stone <- WithStock
    Line <- TwoLines
    StoneOf <- TwoStoneOf
    Order = {o1, o2}
    OrderOf <- WithStockOrderOf
    Po = {p1, p2}
    Procured <- TwoStones
    FirstRfq <- TwoRfq
    FirstLine <- TwoFirst
    SaleWords = {}
CHECK_DEADLOCK FALSE
INVARIANTS
    TypeOK
    BoughtOnce
    InspectedFirst
    NothingStranded
