SPECIFICATION SpecTies
CONSTANTS
    Label = {1, 2}
    Block <- MCBlock
    Tx <- MCTx
    Ts <- MCTs
    Txs <- MCTxs
    TxTime <- MCTxTime
    Lmt = 2
    BufferSize = 2
    EpochLen = 2
    Nps = 1
INVARIANTS QueueIsWindow RepeatsAreLate AddressesExact
CHECK_DEADLOCK FALSE
