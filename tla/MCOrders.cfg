CONSTANTS
    r1 = r1
    r2 = r2
    Requests <- TwoRequests
    Callers = {"provider"}
    Asked = {"ORDER_ACCEPTED", "IN_TRANSIT", "DELIVERED"}
    AskedPayment = {"SECURED"}
    Errors = TRUE
SPECIFICATION Spec
SYMMETRY Symmetry
INVARIANTS
    TypeOK
    OrderInv
    PaidBeforeFulfilment
    CheckedBeforeCollection
    StockOutBeforeCollection
PROPERTIES
    ConfirmationsStay
CHECK_DEADLOCK FALSE
