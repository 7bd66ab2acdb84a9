CONSTANTS
    u1 = u1
    u2 = u2
    c1 = c1
    c2 = c2
    h1 = h1
    h2 = h2
    Nobody = Nobody
    Users <- TwoUsers
    Calls <- TwoCalls
    Handlers <- TwoHandlers
    Numbers = {1111, 2222}
    Entries = {1111, 2222}
    FirstPins <- SomeHavePins
    MaxKeys = 2
SPECIFICATION CallsSpec
INVARIANTS
    CallsTypeOK
    KnownByTypedPin
PROPERTIES
    StoredWasTypedTwice
    LatestIsAnswered
CHECK_DEADLOCK FALSE
