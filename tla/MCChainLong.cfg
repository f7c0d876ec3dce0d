SPECIFICATION Spec
CONSTANTS
    Label = {1, 2}
    Block <- MCBlock
    Tx <- MCTx
    Ts <- MCTs
    Txs <- MCTxs
    TxTime <- MCTxTime
    Lmt = 2
    BufferSize = 2
    EpochLen = 9
    Nps = 1
INVARIANTS VerifiedClosed BestChainVerified IndexEndsInTip DiskFollows
CHECK_DEADLOCK FALSE
