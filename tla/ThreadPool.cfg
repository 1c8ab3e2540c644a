SPECIFICATION FairSpec
CONSTANTS
    Workers = {w1, w2}
    Clients = {c1, c2}
    Stoppers = {s1, s2}
    Tasks = {t1, t2}
    None = None
INVARIANTS IInv StopDrains
PROPERTIES AcceptedRuns
CHECK_DEADLOCK FALSE
