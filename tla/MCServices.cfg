SPECIFICATION MCSpec
CONSTANTS
    Producers = {p1}
    Admins = {a1}
    MaxRecords = 5
    MaxEras = 1
    MaxQueueSize = 4
    Errors = {2}
    p1 = p1
    a1 = a1
    k1 = k1
    k2 = k2
    k3 = k3
    c1 = c1
    c2 = c2
    w1 = w1
    w2 = w2
INVARIANTS CallsSettle RecordsAccounted StoreCoherent LogSurvives StreamsExact
PROPERTIES EvictsLeastRecent NumbersGrow CallsReturn
