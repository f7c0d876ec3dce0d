---------------------------- MODULE MCChainLong ----------------------------
(* Branches longer than the buffer: blocks that arrive unverified, and the  *)
(* switches to them that succeed, fail a check, or panic.                  *)
EXTENDS ChainStore

Branch(l, n) == [k \in 1 .. n |-> IF k = 1 THEN l ELSE 1]

MCBlock == {Branch(1, n) : n \in 0 .. 4} \union {Branch(2, n) : n \in 1 .. 4}
              \union {<<1, 1, 2>>, <<1, 2>>, <<2, 1, 2>>, <<2,2>>}

MCTs == [b \in MCBlock |-> 10 * Len(b)]

MCTx == {"t1", "t2", "t3"}

MCTxs == [b \in MCBlock |->
            CASE b = <<1>> -> <<"t1">>
              [] b = <<1, 1>> -> <<"t2">>
              [] b = <<1, 1, 1>> -> <<"t3">>
              [] b = <<2>> -> <<"t2">>
              [] b = <<2, 1>> -> <<"t1">>
              [] b = <<2, 1, 1>> -> <<"t3">>
              [] b = <<2, 1, 2>> -> <<"t2">>
              [] OTHER -> << >>]

MCTxTime == [t \in MCTx |-> 10000]

=============================================================================
