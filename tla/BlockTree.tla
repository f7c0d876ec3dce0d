----------------------------- MODULE BlockTree -----------------------------
(***************************************************************************)
(* Blocks, headers and bodies of the chain crate, as far as the chain      *)
(* store tells them apart.                                                 *)
(*                                                                         *)
(* A block hash commits to the parent hash (the RLP of a header holds it), *)
(* so a hash determines the whole path from genesis.  A block is therefore *)
(* written as that path: a sequence of labels, genesis being <<>>.  The    *)
(* parent of a block is its prefix, its height the length of the path, and *)
(* the walk `header = get_block_header_by_hash(header.parent_hash)' that   *)
(* the code repeats is Anc(b, k).  Block.height = parent.height + 1 is what *)
(* gen_block produces (Block::init(height + 1, ..)); the code does not     *)
(* check it on arrival, and it is assumed here of every block.             *)
(***************************************************************************)
EXTENDS Integers, Sequences, FiniteSets, FiniteSetsExt

CONSTANTS
    Label,      \* what tells the children of one block apart
    Block,      \* the blocks that may ever be produced
    Tx,         \* transaction hashes
    Ts,         \* Ts[b]: timestamp of block b, in slots
    Txs,        \* Txs[b]: the body of b, a sequence of transaction hashes
    TxTime      \* TxTime[t]: timestamp of a transaction, in milliseconds

Genesis == << >>

ASSUME BlockAssumption ==
    /\ Block \subseteq Seq(Label)
    /\ Genesis \in Block
    /\ \A b \in Block : \A k \in 0 .. Len(b) : SubSeq(b, 1, k) \in Block

ASSUME BodyAssumption ==
    /\ Ts \in [Block -> Nat]
    /\ Txs \in [Block -> Seq(Tx)]
    /\ Txs[Genesis] = << >>
    /\ TxTime \in [Tx -> Nat]

Height(b) == Len(b)

\* The ancestor of b at height k: k = Height(b) is b itself.
Anc(b, k) == SubSeq(b, 1, k)

Parent(b) == Anc(b, Height(b) - 1)

\* The transaction hashes in the body of b.
TxSet(b) == {Txs[b][i] : i \in DOMAIN Txs[b]}

\* sign takes the hash of a header before it has a block_signature, and a block
\* is known by that hash.  A header that is decoded from the database has the
\* hash of all of it: of no block, but for genesis, which nobody signs.
KeepsHash(b) == b = Genesis

\* The blocks on the path from genesis to b.
Path(b) == {Anc(b, k) : k \in 0 .. Height(b)}

=============================================================================
