CONSTANTS
    s1 = s1
    b1 = b1
    b2 = b2
    b3 = b3
    t1 = t1
    t2 = t2
    r1 = r1
    r2 = r2
    r3 = r3
    None = None
    Schedules <- OneSchedule
    Bookings <- ThreeBookings
    Batches <- TwoBatches
    Requests <- ThreeRequests
    MaxQty = 2
    MaxCapacity = 3
SPECIFICATION Spec
SYMMETRY Symmetry
INVARIANTS
    TypeOK
    CapacityInv
    NoOverbooking
    OneReceiptPerPickup
PROPERTIES
    PickupIsFinal
    ImplementsLedger
CHECK_DEADLOCK FALSE
