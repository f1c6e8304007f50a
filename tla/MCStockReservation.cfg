SPECIFICATION FairSpec
CONSTANTS
    Products = {1, 2, 3}
    Requests = {r1, r2, r3}
    Demands <- RingDemands
    Lines <- MCLines
    Levels = {0, 2}
INVARIANTS
    TypeOK
    NoOversell
    NoCircularWait
    ReservedIsSumOfRows
    NormalizedOncePerProduct
PROPERTIES
    RefinesAtomicStock
    EveryReservationEnds
CHECK_DEADLOCK FALSE
