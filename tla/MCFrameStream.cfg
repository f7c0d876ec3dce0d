SPECIFICATION FairSpec
CONSTANTS
    Pairs <- MCPairs
    Me = 7
    Requests <- MCRequests
    Flag = 9
    WireRoom = 6
    AnswerRoom = 3
    MaxRequests = 2
    MaxConnects <- MCMaxConnects
    Connects = 2
    MaxFaults = 1
    MaxUnread = 0
INVARIANTS DecodedAsWritten
PROPERTIES Reconnects DecodedAtLast ClientServes
CHECK_DEADLOCK FALSE
