SPECIFICATION FairSpec
CONSTANTS
    Workers = {w1, w2}
    Clients = {c1}
    Stoppers = {s1}
    Tasks = {t1}
    None = None
PROPERTIES StopReturns
CHECK_DEADLOCK FALSE
