--------------------------- MODULE MCBlockIntake ---------------------------
(* Two blocks of the network in a chain, beside each a block that fails its *)
(* checks, and a block of our own beside the first.                        *)
EXTENDS BlockIntake

MCBlock == {<< >>, <<1>>, <<1, 1>>, <<1, 2>>, <<2>>, <<3>>}

MCTs == [b \in MCBlock |-> Len(b)]

MCOwn == {<<2>>}

MCBad == {<<1, 2>>, <<3>>}

MCTxs == [b \in MCBlock |-> << >>]

MCTxTime == [t \in {} |-> 0]

=============================================================================
