SPECIFICATION MCSpec
CONSTANTS
    Clients = {c1, c2}
    MaxCapacity = 2
    MaxBreaks = 1
    MaxWaits = 1
    c1 = c1
    c2 = c2
    n1 = n1
    n2 = n2
    n3 = n3
    h1 = h1
    h2 = h2
    none = none
INVARIANTS  OwnResult TransactionsExact   IdsDistinct
 
