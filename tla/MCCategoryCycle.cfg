SPECIFICATION Spec
CONSTANTS
    administrator = administrator
    visitor = visitor
    NoParent = NoParent
    Categories = {c1, c2}
    Clients = {administrator, visitor}
    CallsOf <- WithVisitor
SYMMETRY Symmetry
INVARIANT NoCycle
