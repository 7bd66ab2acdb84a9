CONSTANTS
    t1 = t1
    p1 = p1
    p2 = p2
    r1 = r1
    r2 = r2
    None = None
    Requester = buyer
    Rows <- OneRow
    Providers <- OneProvider
    Requests <- TwoRequests
    Kinds = {"PRODUCE_DELIVERY"}
    Asked = {"IN_TRANSIT_DELIVERY", "DELIVERED"}
    Moves = {"PAYMENT_SECURED", "RELEASED"}
SPECIFICATION FairSpec
INVARIANTS
    TypeOK
    PickedAfterRelease
    ArrivedAfterDelivery
    OnlyNamedAct
PROPERTIES
    ProviderDeliveryReachesOrder
CHECK_DEADLOCK FALSE
