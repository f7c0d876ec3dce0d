SPECIFICATION Spec
CONSTANTS
    Label = {1, 2}
    Block <- MCBlock
    Tx <- MCTx
    Ts <- MCTs
    Txs <- MCTxs
    TxTime <- MCTxTime
    Lmt = 3
    BufferSize = 4
    EpochLen = 9
    Nps = 1
INVARIANTS IndexCanonical
PROPERTIES ImplementsForkChoice
CHECK_DEADLOCK FALSE
