---------------------------- MODULE MCChainTies ----------------------------
(* A chain longer than the queue in which every block has rivals of its own *)
(* height, many of them with transactions the chain has already had.       *)
EXTENDS ChainStore

Twos(s) == {k \in DOMAIN s : s[k] = 2}

\* All paths of up to five blocks that leave the first child at most once.
MCBlock == {s \in UNION {[1 .. n -> {1, 2}] : n \in 0 .. 5} : Cardinality(Twos(s)) <= 1}

MCTs == [b \in MCBlock |-> 10 * Len(b)]

MCTx == {"t1", "t2", "t3", "t4"}

\* t1 and t4 are carried at height 1 and offered again past the window of two
\* blocks, at 5, and t1 at 3 too; t2 is carried at 2 and offered again at 3 and 4.
MCTxs == [b \in MCBlock |->
            CASE Len(b) = 1 -> <<"t1", "t4">>
              [] Len(b) = 2 /\ b[2] = 1 -> <<"t2">>
              [] Len(b) = 3 /\ b[3] = 2 -> <<"t1">>
              [] Len(b) = 3 /\ b[2] = 2 -> <<"t2", "t3">>
              [] Len(b) = 4 /\ b[4] = 2 -> <<"t3", "t2">>
              [] Len(b) = 4 -> <<"t3">>
              [] Len(b) = 5 /\ b[5] = 2 -> <<"t1">>
              [] Len(b) = 5 /\ b[1] = 2 -> <<"t4">>
              [] OTHER -> << >>]

\* One slot is a second.  t1 is dated ahead of the block that carries it first, by
\* more than the window, and comes back; the others are not.
MCTxTime == [t \in MCTx |-> CASE t = "t1" -> 25000 [] t = "t2" -> 20000
                             [] t = "t4" -> 10000
                             [] OTHER -> 25000]

=============================================================================
