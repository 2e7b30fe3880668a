CONSTANTS
    Threads = {t1, t2, t3}
    Pids = {p1, p2}
    NumRegions = 2
    EarlyReuse = FALSE
SPECIFICATION Spec
INVARIANTS
    Exclusive
    NoForeignBytes
    WritesLand
    CloseFinds
    TablesDisjoint
PROPERTY
    PoolSpec
CHECK_DEADLOCK FALSE
