---------------------------- MODULE MCFrameStream ----------------------------
(* Peer 1 of two does not listen; a message looks like a frame's start.    *)
EXTENDS FrameStream

CONSTANTS Connects

MCPairs == <<1, 2>>

MCMaxConnects == [p \in Peer |-> IF p = 1 THEN 0 ELSE Connects]

MCRequests == {
    [origin |-> 1, op |-> "BROADCAST", msg |-> <<Flag>>],
    [origin |-> 1, op |-> "SUBTRACT", msg |-> <<8>>],
    [origin |-> 1, op |-> "SINGLE", msg |-> <<8>>]}

=============================================================================
