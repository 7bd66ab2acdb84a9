CONSTANTS
    a1 = a1
    a2 = a2
    f1 = f1
    f2 = f2
    b1 = b1
    b2 = b2
    r1 = r1
    r2 = r2
    None = None
    MaxQty = 2
    Answers <- TwoAnswers
    Farmers <- OneFarmer
    Batches <- TwoBatches
    Owner <- OwnerOfBoth
    ListHasDefault = TRUE
    Asked = {2}
    Verdicts = {"AWARDED", "REJECTED"}
    Requests <- TwoRequests
SPECIFICATION Spec
INVARIANTS
    TypeOK
    FulfilledIsOrdered
    AwardedToAreAwarded
    AcceptedIsOnItsWay
CHECK_DEADLOCK FALSE
