SPECIFICATION Spec
CONSTANTS
    a1 = a1
    a2 = a2
    a3 = a3
    k1 = k1
    k2 = k2
    p1 = p1
    p2 = p2
    Products = {p1, p2}
    Attempts = {a1, a2, a3}
    Keys = {k1, k2}
    KeyOf <- MCKeyOf
    CartOf <- MCCartOf
    Supply <- MCSupply
INVARIANTS
    TypeOK
    OneOrderPerKey
    ReservationHasOrder
    ReservationCoversOrder
CHECK_DEADLOCK FALSE
