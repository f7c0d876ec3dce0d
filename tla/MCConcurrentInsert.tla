------------------------- MODULE MCConcurrentInsert -------------------------
(* Branches of three blocks and of two.                                    *)
EXTENDS ConcurrentInsert

MCBlock == {<< >>, <<1>>, <<1, 1>>, <<1, 1, 1>>, <<2>>, <<2, 1>>}

MCTs == [b \in MCBlock |-> Len(b)]

MCTxs == [b \in MCBlock |-> << >>]

MCTxTime == [t \in {} |-> 0]

=============================================================================
