CONSTANTS
    main = main
    satellite = satellite
    b1 = b1
    i1 = i1
    i2 = i2
    t1 = t1
    t2 = t2
    r1 = r1
    r2 = r2
    None = None
    Centers <- BothCenters
    MainCenters <- MainOnly
    Batches <- OneBatch
    Items <- TwoItems
    Transactions <- TwoTransactions
    Requests <- TwoRequests
    Sizes = {1, 2}
    MaxQty = 2
SPECIFICATION Spec
SYMMETRY Symmetry
INVARIANTS
    TypeOK
    StockInv
    StockMatchesInventory
    NothingEntersUnconfirmed
    NeverListsMoreThanReceived
CHECK_DEADLOCK FALSE
