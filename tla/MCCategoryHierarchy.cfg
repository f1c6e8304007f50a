SPECIFICATION Spec
CONSTANTS
    administrator = administrator
    visitor = visitor
    NoParent = NoParent
    Categories = {c1, c2, c3}
    Clients = {administrator}
    CallsOf <- Alone
SYMMETRY Symmetry
INVARIANTS
    TypeOK
    NoCycle
    FlagsExact
    CachesCoherent
    ProductsOfWholeSubtree
CONSTRAINT FewCached
