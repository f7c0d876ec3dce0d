SPECIFICATION Spec
CONSTANTS
    Label = {1, 2}
    Tx = {}
    Block <- MCBlock
    Ts <- MCTs
    Txs <- MCTxs
    TxTime <- MCTxTime
    Thread = {main, miner}
    Total = 3
INVARIANTS TypeOK AloneIsWhole WalksFind RestIsDurable
PROPERTIES DiskIsForkChoice
CHECK_DEADLOCK FALSE
