SPECIFICATION Spec
CONSTANTS
    Keys = {k1, k2}
    c1 = c1
    c2 = c2
    Contents = {c1, c2}
    Generations = {1, 2}
    Requests <- MCRequests
    Readers = {r1}
    expected_bytes <- MCExpectedBytes
    ALIGNMENT = 2
    MAX_TRANSACTIONS = 2
    NONE = NONE
SYMMETRY Symmetric
INVARIANTS
    StoreCanBeRead
    WrittenPagesAreDurable
PROPERTIES
    ImplementsDurableCatalog
