SPECIFICATION FairSpec
CONSTANTS
    Label = {1, 2, 3}
    Tx = {}
    Block <- MCBlock
    Ts <- MCTs
    Txs <- MCTxs
    TxTime <- MCTxTime
    Bad <- MCBad
    Own <- MCOwn
    Ahead = 1
    Drift = 1
    MaxNow = 2
    MaxFuture = 1
INVARIANTS KnownClosed NeverEarly StuckOnlyByClock
PROPERTY Recovers
CHECK_DEADLOCK FALSE
