SPECIFICATION FairGossip
CONSTANTS
    Node = {a, b}
    Small = a
    Tx = {t1, t2}
    Peers <- MCPeers
    Capacity <- MCCapacity
    PackageLimit = 1
    OrderSpace = 3
    MaxSubmit = 3
    MaxLost = 1
INVARIANTS OrdersHaveTxs AcceptedOnce
PROPERTIES ReachesAll Settles
CHECK_DEADLOCK FALSE
