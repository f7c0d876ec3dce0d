---------------------------- MODULE MCAlgorithms ---------------------------
(* A small instance of the algorithms.  The loops run on one chain of two   *)
(* blocks and a rival, with a transaction that two of them share.          *)
EXTENDS Algorithms

MCBlock == {<< >>, <<1>>, <<1, 1>>, <<2>>}

MCTs == [b \in MCBlock |-> Len(b)]

MCTxs == [b \in MCBlock |->
            CASE b = <<1>>    -> <<"t1", "t2">>
              [] b = <<1, 1>> -> <<"t3">>
              [] b = <<2>>    -> <<"t2", "t3">>
              [] OTHER        -> << >>]

MCValues == {<<>>, <<0>>, <<6>>, <<0, 0, 0>>}

MCTxTime == [t \in {"t1", "t2", "t3"} |-> 0]

=============================================================================
