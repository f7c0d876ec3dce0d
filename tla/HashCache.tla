----------------------------- MODULE HashCache -----------------------------
(***************************************************************************)
(* HashCache (chain.rs): the queue of the most recent blocks of the best   *)
(* chain, oldest first, and the map from a recent transaction hash to the  *)
(* height of the block that carries it.                                    *)
(*                                                                         *)
(* A BlockInfo is determined by its block hash, so the queue is a sequence *)
(* of blocks; the filler entries Chain::init makes are entries of genesis, *)
(* whose body is empty.                                                    *)
(*                                                                         *)
(* The map is only ever changed by "the transactions of this block leave"  *)
(* and "the transactions of this block enter at its height".  A method or  *)
(* a loop of the code is a sequence of such operations, and what it leaves *)
(* in the map is decided, for each hash, by the last operation that        *)
(* touches it: Applied.  HashCacheLoop runs the loops one call at a time   *)
(* and checks these closed forms against them.                             *)
(***************************************************************************)
EXTENDS BlockTree

Enter(b) == [enters |-> TRUE,  block |-> b]
Leave(b) == [enters |-> FALSE, block |-> b]

\* The operations of ops, a sequence, that touch the hash t.
Touching(ops, t) == {i \in DOMAIN ops : t \in TxSet(ops[i].block)}

Applied(hs, ops) ==
    LET last(t) == ops[Max(Touching(ops, t))]
        kept    == {t \in DOMAIN hs : Touching(ops, t) = {}}
        entered == {t \in Tx : Touching(ops, t) # {} /\ last(t).enters}
    IN [t \in kept \union entered |->
            IF t \in entered THEN Height(last(t).block) ELSE hs[t]]

NoHashes == [t \in {} |-> 0]

-----------------------------------------------------------------------------
(* Lookups.                                                                *)

BestHeight(q) == Height(q[Len(q)])

\* block_info(h): the entry as far below the back of the queue as h is below
\* the height of the back, when there is one.
Cached(q, h) == h <= BestHeight(q) /\ BestHeight(q) - h < Len(q)

BlockInfo(q, h) == q[Len(q) - (BestHeight(q) - h)]

\* contains(hash, left, right)
HeldWithin(hs, t, left, right) == t \in DOMAIN hs /\ hs[t] \in left .. right

-----------------------------------------------------------------------------
(* update_txs_cache(blocks, m): the j-th block replaces position m - j.    *)
(* `replace' pushes the block at the back and swap_remove_back's the old   *)
(* entry: past the back there is no old entry and the block stays appended, *)
(* and just at the back the block removes itself.                          *)

Appends(q, blocks, m) ==
    IF m > Len(q) THEN Min({Len(blocks), (m - Len(q)) \div 2}) ELSE 0

Extended(q, blocks, m) == q \o SubSeq(blocks, 1, Appends(q, blocks, m))

\* update_txs_cache's loop breaks once m blocks are placed.
Placed(blocks, m) == Min({Len(blocks), m})

UpdatedQueue(q, blocks, m) ==
    LET ext == Extended(q, blocks, m)
        j(x) == m + 1 - x
    IN [x \in 1 .. Len(ext) |->
            IF j(x) \in Appends(q, blocks, m) + 1 .. Placed(blocks, m)
            THEN blocks[j(x)] ELSE ext[x]]

\* The entry the j-th replacement removes: Genesis, with no transactions, when
\* the block was appended and nothing was removed.
Replaced(q, blocks, m, j) ==
    LET ext == Extended(q, blocks, m)
    IN IF j <= Appends(q, blocks, m) THEN Genesis
       ELSE IF m + 1 - j > Len(ext) THEN blocks[j]
       ELSE ext[m + 1 - j]

UpdateOps(q, blocks, m) ==
    [x \in 1 .. 2 * Placed(blocks, m) |->
        IF x % 2 = 1 THEN Leave(Replaced(q, blocks, m, (x + 1) \div 2))
                     ELSE Enter(blocks[x \div 2])]

\* A faulty variant: the queue is not shifted.
Unshifted(q) == q

\* The front entry goes to the back, for a higher block to replace it there.
LeftShift(q) == Tail(q) \o <<Head(q)>>

-----------------------------------------------------------------------------
(* tx_cache_roll_back(hash, n): keeps the first n entries of the queue and  *)
(* pushes the n blocks below `hash' in front of them, genesis again and     *)
(* again once the walk has reached it.                                     *)

RolledFront(hash, n) ==
    [i \in 1 .. n |-> LET d == n + 1 - i
                      IN Anc(hash, IF d < Height(hash) THEN Height(hash) - d ELSE 0)]

RolledBack(q, hash, n) == RolledFront(hash, n) \o SubSeq(q, 1, n)

RollBackOps(q, hash, n) ==
    [x \in 1 .. Len(q) - n |-> Leave(q[n + x])]
        \o [i \in 1 .. n |-> Enter(RolledFront(hash, n)[n + 1 - i])]

=============================================================================
