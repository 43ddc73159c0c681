SPECIFICATION OfficeSpec
CONSTANTS
    r1 = r1
    r2 = r2
    u1 = u1
    g1 = g1
    g2 = g2
    g3 = g3
    v1 = v1
    v2 = v2
    w1 = w1
    w2 = w2
    SizeRow = {r1, r2}
    Shape <- MCShape
    Price = {0, 301}
    Rate = {0, 84}
    Margin <- MCMargin
    RfqUser = {u1}
    Certificate = {"c1"}
    Gem = {g1, g2, g3}
    Vendor = {v1, v2}
    SoldBy <- MCSoldBy
    Numbered = {g1, g2}
    Deaths <- MCDeaths
    MaxDeliveries = 1
    None = None
    Call = {"bad", "good", "other"}
    Cart <- MCCart
    Clerk = {w1, w2}
    MaxServed = 4
    Nil = Nil
    Account = {"a"}
    Profile <- MCProfile
    Address = {1, 2, 3}
    Text = {"t", "-"}
    Junk = {"-"}
    Sale = {"s"}
    Chan = {"root", "s", "t"}
    Root = "root"
    Downstream <- MCDownstream
    Below <- MCBelow
    ChildrenFirst <- MCOrderOfChannels
    Room <- MCRoom
    InSequence = {"s"}
    Delay <- MCDelay
    Task = {1, 2}
    Home <- MCHome
    Order <- MCOrder
    Etas = {0, 2}
    EndOfTime = 2
    Series = {"on", "off"}
    Kind <- MCKind
    PrefixText = {"A"}
    Doc = {1, 2, 3}
    Column <- MCColumn
    Renumbered = {"memo_out"}
    StartNo = 1
    LastNo = 3
    LastYear = 1
    MaxResets = 1
    Unnumbered = Unnumbered
    Bill = {1, 2}
    Category <- MCCategory
    BillPrice <- MCPrice
    Periods = {3}
    EndDates = {2}
    Salvages = {1}
    Factor <- MCFactor
    FirstShare <- MCFirstShare
    MaxCopies <- MCCopies
    MaxEntries = 1
    EndOfBooks = 1
    Item = {1, 2}
    ItemPrice <- MCItemPrice
    Entered = {"payment_pending", "cancelled"}
    Refusals = {"error"}
    MaxLinks = 2
    ApiLine = {1, 2, 3}
    ApiOrder = {"O1", "O2"}
    OrderOf <- MCOrderOf
    FirstStatus <- MCFirstStatus
    Request = {"single", "bulk", "list", "form"}
    Entries <- MCEntries
    ByForm = {"form"}
    MaxTries = 2
    Faulty = {"list"}
    StoneLine = {1, 2, 3}
    Sold = {1, 2}
    MaxFaults = 1
    MaxNews = 3
    Leaves = 3
    MaxObjects = 5
    MaxOnDone = 1
    Keyed = {1, 2}
    MayExist = {1, 2}
CHECK_DEADLOCK FALSE
INVARIANTS
    OfficeTypeOK
    SoldAsQuoted
    GoodsMatchStatuses
    BookedAsCalled
    BooksAgree
    PaidMeansPaid
    SwapToldOnce
    JobsInOrder
PROPERTIES
    AccountsMoveOn
    AddressesSettle
    ChannelsHold
    NumbersAreSound
    ShownIsStored
