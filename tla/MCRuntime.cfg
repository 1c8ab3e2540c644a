SPECIFICATION MCSpec
CONSTANTS
    Roots = {k1, k2}
    Spawned = {k1}
    Jobs <- TwoJobs
    Stoppers = {s1}
    MaxSuspends = 1
    MaxRuns = 1
    k1 = k1
    k2 = k2
    f1 = f1
    s1 = s1
    t1 = t1
    t2 = t2
INVARIANTS OneWaker DrainedAtEnd  ReadInOrder
PROPERTIES LoopHeeds 
CHECK_DEADLOCK FALSE
