CONSTANTS
    o1 = o1
    o2 = o2
    r1 = r1
    r2 = r2
    Orders <- TwoOrders
    Size <- Sizes
    Counts = {0, 2}
    Wanted = {"ACCEPTED", "PROCESSING", "CANCELLED"}
    Requests <- TwoRequests
    MaxTaken = 2
    MaxQty = 4
SYMMETRY Symmetry
SPECIFICATION Spec
INVARIANTS
    AcceptedWasTaken
    ShortByTakenOnly
CHECK_DEADLOCK FALSE
