CONSTANTS
    r1 = r1
    r2 = r2
    Requests <- TwoRequests
    Callers = {"party", "provider"}
    Asked = {"ORDER_ACCEPTED", "CANCELLED"}
    AskedPayment = {"SECURED"}
    Errors = TRUE
SPECIFICATION Spec
SYMMETRY Symmetry
INVARIANTS
    SecuredPaymentHasEscrow
CHECK_DEADLOCK FALSE
