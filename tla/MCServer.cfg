SPECIFICATION MCSpec
CONSTANTS
    Threads = {t1, t2, t3}
    Keys = {db, kv}
    Services = {a, b}
    None = None
INVARIANTS IInv ConversionsAgree
PROPERTY Linearizable
