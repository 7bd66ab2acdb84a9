CONSTANTS
    l1 = l1
    r1 = r1
    r2 = r2
    None = None
    Leads <- OneLead
    Terms = {0, 1, 2}
    Requests <- TwoRequests
    MaxOrders = 1
SYMMETRY Symmetry
SPECIFICATION Spec
INVARIANTS
    TypeOK
    PostedIsApproved
    TotalMatchesTerms
CHECK_DEADLOCK FALSE
