SPECIFICATION Spec
CONSTANTS
    Clients = {c1, c2}
    MaxCapacity = 2
    MaxBreaks = 0
    MaxWaits = 0
INVARIANT RollbackIsExact
