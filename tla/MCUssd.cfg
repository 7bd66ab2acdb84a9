CONSTANTS
    Undefined = Undefined
    Pins = {1111, 2222}
    PinKeys = {1111, 2222, 7}
    MenuKeys = {1, 2, 3, 4, 5, 6}
    Keys = {1, 2, 6, 98}
    PageSize = 1
    OrderList <- Orders
    CentreList <- Centres
    SchedulesOf <- Schedules2
    BookingList <- Bookings
    RequestList <- Sourcing
    BatchList <- Batches
    AdvisoryList <- Advice
    MaxInputs = 8
    MaxRestarts = 1
SPECIFICATION UssdSpec
INVARIANTS
    UssdTypeOK
PROPERTIES
    PinTypedTwice
    DoneAsShown
CHECK_DEADLOCK FALSE
