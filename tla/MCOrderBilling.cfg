SPECIFICATION Spec
CONSTANTS
    p1 = p1
    p2 = p2
    Creation = Creation
    Products = {p1, p2}
    Edits = {e1, e2}
    Additions <- MCAdditions
    Quotes = {1}
    Charges = 1
    Asked = {3}
    Pages = {g1, g2}
SYMMETRY Symmetry
INVARIANTS
    TypeOK
    PaidPageIsBacked
    RecordedIsCharged
    TotalsFitLines
    OneLinePerProduct
CHECK_DEADLOCK FALSE
