SPECIFICATION Spec
CONSTANTS
    s1 = s1
    s2 = s2
    s3 = s3
    l1 = l1
    l2 = l2
    l3 = l3
    l4 = l4
    l5 = l5
    p1 = p1
    p2 = p2
    o1 = o1
    o2 = o2
    NoPo = NoPo
    Stone <- TwoStones
    Line <- MergedLines
    StoneOf <- MergedStoneOf
    Order = {o1, o2}
    OrderOf <- MergedOrderOf
    Po = {p1, p2}
    Procured <- TwoStones
    FirstRfq <- TwoRfq
    FirstLine <- TwoFirst
    SaleWords <- AnyWord
CHECK_DEADLOCK FALSE
INVARIANTS
    StonesAreSafe
