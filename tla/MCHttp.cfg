SPECIFICATION MCSpec
CONSTANTS
    Workers = {w1, w2}
    MaxConns = 1
    w1 = w1
    w2 = w2
    c1 = c1
    c2 = c2
    s1 = s1
    s2 = s2
    k1 = k1
    k2 = k2
    none = none
INVARIANTS ResponsesInOrder AnsweredOnce   LookupsAgree 
INVARIANTS ConnectionsAccounted  HandledWhole  NothingDangles
 
