SPECIFICATION AlgorithmsSpec
CONSTANTS
    Label = {1, 2}
    Tx = {"t1", "t2", "t3"}
    Block <- MCBlock
    Ts <- MCTs
    Txs <- MCTxs
    TxTime <- MCTxTime
    MaxLen = 3
    Single = 6
    Short = 2
    LenBytes = 2
    Values <- MCValues
    MaxBuffer = 6
    Word = {0, 1, 2, 7, 8, 15}
    SmallWord = {0, 1, 3}
    Octet = {0, 1, 3, 6, 7, 8, 9, 11, 12, 14}
    MaxBytes = 5
    MaxLeaves = 17
    MaxHeight = 5
INVARIANTS
    LoopsMeetClosedForms
    UintNumbers
    StreamRoundTrips
    ReadersAgree
    MerkleKeepsOrder
CHECK_DEADLOCK FALSE
