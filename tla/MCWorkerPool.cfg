SPECIFICATION MCSpec
CONSTANTS
    NONE = NONE
    Ranks = {r0, r1, r2}
    Callers = {c1, c2}
    maximum_outstanding = 2
    Kinds = {"Initialize", "ApplyDelta", "Execute"}
    Calls = 4
    MaxStep = 2
    Faults = {"spawn", "execute", "diverge", "panic"}
SYMMETRY Symmetric
CHECK_DEADLOCK FALSE
INVARIANTS
    PermitsAreExact
    OperationsAreUnanimous
    WeightsAreAtomic
