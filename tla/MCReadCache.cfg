SPECIFICATION Spec
CONSTANTS
    Thread = {t1, t2}
    Blocks = {b}
    Numbers = {}
    Addresses = {a}
    Values <- MCValues
    NoValue = NoValue
    Decoded <- MCDecoded
    Generations = 2
    PrefSize = 1
    MaxSize = 1
    EntrySize = 1
    MaxPuts = 3
SYMMETRY Threads
INVARIANTS StoredIsFound CachesAgree CollectedOnce
CHECK_DEADLOCK FALSE
