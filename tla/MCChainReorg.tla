---------------------------- MODULE MCChainReorg ----------------------------
(* Branches that leave the chain after genesis or its first block and stay  *)
(* short enough to be checked as they arrive, with late rivals.            *)
EXTENDS ChainStore

Branch(l, n) == [k \in 1 .. n |-> IF k = 2 THEN l ELSE 1]

MCBlock == {Branch(1, n) : n \in 0 .. 5} \union {Branch(2, n) : n \in 2 .. 5}
              \union {<<1, 1, 1, 2>>, <<1, 2, 2>>, <<1, 1, 2>>, <<2>>, <<2, 1>>}

MCTs == [b \in MCBlock |-> 10 * Len(b)]

MCTx == {"t1", "t2", "t3", "t4"}

\* The branches carry the same transactions in another order, and the rivals
\* repeat transactions that their own branch has had.
MCTxs == [b \in MCBlock |->
            CASE b = <<1>>          -> <<"t1">>
              [] b = <<1, 1>>       -> <<"t2">>
              [] b = <<1, 1, 1>>    -> <<"t3">>
              [] b = <<1, 1, 1, 1>> -> <<"t4">>
              [] b = <<1, 2>>       -> <<"t3", "t2">>
              [] b = <<1, 2, 1>>    -> <<"t4">>
              [] b = <<1, 2, 2>>    -> <<"t1">>
              [] b = <<1, 1, 1, 2>> -> <<"t4", "t2">>
              [] b = <<1, 1, 1, 1, 1>> -> <<"t1">>
              [] OTHER -> << >>]

\* One slot is a second.  Every transaction is made before the blocks that
\* carry it.
MCTxTime == [t \in MCTx |-> CASE t = "t1" -> 10000 [] t = "t4" -> 30000
                             [] OTHER -> 20000]

=============================================================================
