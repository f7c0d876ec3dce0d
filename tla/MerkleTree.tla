----------------------------- MODULE MerkleTree ------------------------------
(***************************************************************************)
(* complete_merkle_root of util/src/merklehash.rs.  A hash is what was       *)
(* hashed: << leaf >>, or << left, right >> for the hash of two hashes; no    *)
(* leaves at all have the hash Null.  The root commits to the transactions   *)
(* of a block in their order.                                                *)
(***************************************************************************)
EXTENDS Integers, Sequences

CONSTANTS Item,      \* what the leaves are the hashes of
          MaxHeight   \* how deep a hash may lie that Leaves and Depths look into

Null == <<>>
LeafHash(x) == <<x>>

\* A faulty variant, for the mutants.
MergeSwapped(left, right) == <<right, left>>

Merge(left, right) == <<left, right>>

\* The leaves that are merged first, so that 2^k nodes are left.
LowestChildrenLen(amount) ==
  LET f[n \in 1 .. 2 * amount + 1] == IF n > amount THEN 0
                                      ELSE IF 2 * n > amount THEN amount - n ELSE f[2 * n]
  IN  2 * f[1]

\* The rounds of the loop on d: the pairs of the round are d places apart.
Reduced(nodes) ==
  LET n == Len(nodes)
      f[d \in 1 .. 2 * n] ==    \* the nodes when the round of d begins
        IF d = 1 THEN nodes
        ELSE [j \in DOMAIN nodes |->
                IF (j - 1) % d = 0 THEN Merge(f[d \div 2][j], f[d \div 2][j + d \div 2])
                ELSE f[d \div 2][j]]
  IN  f[n][1]

\* gen_merkle_root
Root(leaves) ==
  LET low == LowestChildrenLen(Len(leaves))
      nodes == [i \in 1 .. Len(leaves) - low \div 2 |->
                  IF i <= low \div 2 THEN Merge(leaves[2 * i - 1], leaves[2 * i])
                  ELSE leaves[i + low \div 2]]
  IN  IF leaves = <<>> THEN Null ELSE Reduced(nodes)

-----------------------------------------------------------------------------
(* What a hash commits to, in order, and the depths it lies in.              *)

DigestsOf[d \in Nat] ==
  IF d = 0 THEN {Null} \cup [1 .. 1 -> Item]
  ELSE DigestsOf[d - 1] \cup (DigestsOf[d - 1] \X DigestsOf[d - 1])
Digest == DigestsOf[MaxHeight]

Leaves[hash \in Digest] ==
  IF Len(hash) < 2 THEN hash ELSE Leaves[hash[1]] \o Leaves[hash[2]]
Depths[hash \in Digest] ==
  IF Len(hash) < 2 THEN {0} ELSE {1 + d : d \in Depths[hash[1]] \cup Depths[hash[2]]}

\* The root of items has each item once, in their order, and the depths of two
\* of them differ by at most one.
KeepsOrder(items) ==
  LET top == Root([k \in DOMAIN items |-> LeafHash(items[k])])
  IN  /\ Leaves[top] = items
      /\ \A d, e \in Depths[top] : d - e \in -1 .. 1

=============================================================================
