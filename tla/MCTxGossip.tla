----------------------------- MODULE MCTxGossip -----------------------------
(* Nodes that know each other; the filter of one has room for a single     *)
(* transaction.                                                            *)
EXTENDS TxGossip

CONSTANTS Small

MCPeers == [n \in Node |-> Node \ {n}]

MCCapacity == [n \in Node |-> IF n = Small THEN 1 ELSE Cardinality(Tx)]

=============================================================================
