----------------------------- MODULE Data_proofs ------------------------------
(***************************************************************************)
(* What the data structures compute, for every size and every content: the *)
(* trie of util/src/avl, the Merkle root of util/src/merklehash.rs, and    *)
(* the fixed-size integers of util/bigint.                                 *)
(*                                                                         *)
(* The trie finds every key with its last value, however its nodes have    *)
(* been rotated, written, loaded and put on death row. A tree is known by  *)
(* what Keys, Find, Uses, Sound and Even say of it: its keys, what it maps *)
(* them to, the nodes it takes from the database, whether it is in order   *)
(* with every branch higher than its children, and whether it is an AVL    *)
(* tree. Each is the function, of all trees, that a recursive equation     *)
(* defines; Recursion proves that there is one, and Induction what such    *)
(* functions have in common. InsertCorrect and RemoveCorrect say what the  *)
(* two calls make of a tree in these terms, PackedSame and PackedUses what *)
(* commit does; LookUpFinds says that a tree whose nodes are stored is     *)
(* read as Find says. Removing relies on a tree being in order for more    *)
(* than its lookups: a node that is put on death row on one side of a      *)
(* branch can only be in use on the other if both sides had its keys       *)
(* (UsesApart).                                                            *)
(*                                                                         *)
(* The Merkle root has every leaf once and in order: before every round of *)
(* the loop, the places that are multiples of the distance hold full       *)
(* subtrees of the leaves between them (Covered), of which a power of two  *)
(* is left after the leaves that are merged first (Lowest).                *)
(*                                                                         *)
(* The integers are compared with the numbers they stand for. A loop over  *)
(* the words is followed round by round by Upto, what the words so far     *)
(* amount to: the words that are done, and the carry in the weight of the  *)
(* next, are always what the operands come to so far (Totals, RowCorrect). *)
(***************************************************************************)
EXTENDS Avl, MerkleTree, UintCore, FiniteSetTheorems, SequenceTheorems, WellFoundedInduction, TLAPS

\* What holds of zero and of every successor holds of every natural number.
LEMMA Counting ==
    ASSUME NEW S, 0 \in S, \A n \in Nat : n \in S => n + 1 \in S
    PROVE  Nat \subseteq S
<1> SUFFICES ASSUME NEW n \in Nat, n \notin S PROVE FALSE
  OBVIOUS
<1> DEFINE Before == {ss \in Nat \X Nat : ss[1] < ss[2]}
           T == Nat \ S
<1>1. IsWellFoundedOn(Before, Nat)
  BY NatLessThanWellFounded DEF OpToRel
<1>2. PICK m \in T : \A k \in T : <<k, m>> \notin Before
  BY <1>1, WFMin
<1>3. m \in Nat /\ m # 0 /\ m - 1 \in Nat
  BY <1>2
<1>4. <<m - 1, m>> \in Before
  BY <1>3
<1>5. m - 1 \in S
  BY <1>2, <1>3, <1>4
<1> QED BY <1>2, <1>3, <1>5

\* The nodes of depth zero, and those of the next depth.
Leafs == {Empty} \cup [t : {"leaf"}, k : Key, v : Value]
Grown(nodes) == nodes \cup [t : {"branch"}, h : Int, k : Key, c : [1 .. 2 -> Handles(nodes)]]

\* A recursive function of the natural numbers is what its equation says.
LEMMA NodesOfDef ==
    /\ NodesOf[0] = Leafs
    /\ \A d \in Nat : NodesOf[d + 1] = Grown(NodesOf[d])
<1> DEFINE Good(g, n) == g = [d \in 0 .. n |-> IF d = 0 THEN Leafs ELSE Grown(g[d - 1])]
           Has == {n \in Nat : \E g : Good(g, n)}
           f == [n \in Nat |-> (CHOOSE g : Good(g, n))[n]]
<1>1. 0 \in Has
  <2> DEFINE g0 == [d \in 0 .. 0 |-> Leafs]
  <2>1. Good(g0, 0)
    OBVIOUS
  <2> QED BY <2>1
<1>2. ASSUME NEW n \in Nat, n \in Has PROVE n + 1 \in Has
  <2>1. PICK g : Good(g, n)
    BY <1>2
  <2> DEFINE g1 == [d \in 0 .. n + 1 |-> IF d = n + 1 THEN Grown(g[n]) ELSE g[d]]
  <2>2. Good(g1, n + 1)
    BY <2>1
  <2> HIDE DEF g1
  <2> QED BY <2>2
<1> HIDE DEF Has
<1>3. Nat \subseteq Has
  BY <1>1, <1>2, Counting
<1>4. ASSUME NEW n \in Nat PROVE Good(CHOOSE g : Good(g, n), n)
  BY <1>3 DEF Has
<1>5. ASSUME NEW n \in Nat, NEW g, NEW g1, Good(g, n), Good(g1, n + 1) PROVE g1[n] = g[n]
  <2> DEFINE S == {d \in Nat : d <= n => g1[d] = g[d]}
  <2>1. 0 \in S
    BY <1>5
  <2>2. ASSUME NEW d \in Nat, d \in S PROVE d + 1 \in S
    BY <1>5, <2>2
  <2> HIDE DEF S
  <2>3. Nat \subseteq S
    BY <2>1, <2>2, Counting
  <2> QED BY <2>3 DEF S
<1>6. ASSUME NEW n \in Nat PROVE f[n] = IF n = 0 THEN Leafs ELSE Grown(f[n - 1])
  <2> DEFINE g == CHOOSE h : Good(h, n)
             g0 == CHOOSE h : Good(h, n - 1)
  <2>1. CASE n = 0
    <3>1. Good(g, n)
      BY <1>4
    <3> HIDE DEF g
    <3>2. g[0] = Leafs
      BY <2>1, <3>1
    <3> QED BY <2>1, <3>2 DEF g
  <2>2. CASE n # 0
    <3>1. n - 1 \in Nat /\ (n - 1) + 1 = n
      BY <2>2
    <3>2. Good(g, n) /\ Good(g0, n - 1)
      BY <1>4, <3>1
    <3> HIDE DEF g, g0
    <3>3. g[n - 1] = g0[n - 1]
      BY <1>5, <3>1, <3>2
    <3>4. g[n] = Grown(g[n - 1])
      BY <2>2, <3>2
    <3> QED BY <2>2, <3>1, <3>3, <3>4 DEF g, g0
  <2> QED BY <2>1, <2>2
<1> HIDE DEF Good
<1>7. f = [n \in Nat |-> IF n = 0 THEN Leafs ELSE Grown(f[n - 1])]
  <2>1. f = [n \in Nat |-> f[n]]
    OBVIOUS
  <2> HIDE DEF f
  <2> QED BY <1>6, <2>1
<1> HIDE DEF f
<1>8. NodesOf = [n \in Nat |-> IF n = 0 THEN Leafs ELSE Grown(NodesOf[n - 1])]
  BY <1>7 DEF NodesOf, Leafs, Grown
<1> QED BY <1>8

-----------------------------------------------------------------------------
(* Trees: the handles of any depth.                                          *)

Tree == UNION {Handles(NodesOf[d]) : d \in Nat}

\* A node of a lesser depth is one of a greater.
LEMMA Deeper ==
    ASSUME NEW d \in Nat, NEW e \in Nat, d <= e
    PROVE  /\ NodesOf[d] \subseteq NodesOf[e]
           /\ Handles(NodesOf[d]) \subseteq Handles(NodesOf[e])
<1> DEFINE S == {i \in Nat : NodesOf[d] \subseteq NodesOf[d + i]}
<1>1. 0 \in S
  OBVIOUS
<1>2. ASSUME NEW i \in Nat, i \in S PROVE i + 1 \in S
  <2>1. NodesOf[(d + i) + 1] = Grown(NodesOf[d + i])
    BY NodesOfDef
  <2>2. d + (i + 1) = (d + i) + 1
    OBVIOUS
  <2> QED BY <1>2, <2>1, <2>2 DEF Grown
<1> HIDE DEF S
<1>3. Nat \subseteq S
  BY <1>1, <1>2, Counting
<1>4. e - d \in S /\ d + (e - d) = e
  BY <1>3
<1>5. NodesOf[d] \subseteq NodesOf[e]
  BY <1>4 DEF S
<1> QED BY <1>5 DEF Handles

\* A node is empty, a leaf, or a branch of shallower handles.
LEMMA NodeKinds ==
    ASSUME NEW d \in Nat, NEW n \in NodesOf[d]
    PROVE  /\ n.t \in {"empty", "leaf", "branch"}
           /\ n.t = "empty" => n = Empty
           /\ n.t = "leaf" => n.k \in Key /\ n.v \in Value /\ n = Leaf(n.k, n.v)
           /\ n.t = "branch" => /\ d # 0 /\ n.h \in Int /\ n.k \in Key
                               /\ n.c \in [1 .. 2 -> Handles(NodesOf[d - 1])]
                               /\ n = [t |-> "branch", h |-> n.h, k |-> n.k, c |-> n.c]
<1> DEFINE S == {i \in Nat : \A m \in NodesOf[i] : m \in Leafs \/
                   (i # 0 /\ m \in [t : {"branch"}, h : Int, k : Key,
                                    c : [1 .. 2 -> Handles(NodesOf[i - 1])]])}
<1>1. 0 \in S
  BY NodesOfDef
<1>2. ASSUME NEW i \in Nat, i \in S PROVE i + 1 \in S
  <2>1. NodesOf[i + 1] = Grown(NodesOf[i])
    BY NodesOfDef
  <2>2. i # 0 => Handles(NodesOf[i - 1]) \subseteq Handles(NodesOf[i])
    BY Deeper, i # 0 => i - 1 \in Nat
  <2> SUFFICES ASSUME NEW m \in NodesOf[i + 1]
               PROVE  m \in Leafs \/ m \in [t : {"branch"}, h : Int, k : Key,
                                             c : [1 .. 2 -> Handles(NodesOf[i])]]
    OBVIOUS
  <2>3. CASE m \in NodesOf[i]
    BY <1>2, <2>2, <2>3
  <2>4. CASE m \notin NodesOf[i]
    BY <2>1, <2>4 DEF Grown
  <2> QED BY <2>3, <2>4
<1> HIDE DEF S
<1>3. d \in S
  BY <1>1, <1>2, Counting
<1>4. n \in Leafs \/ (d # 0 /\ n \in [t : {"branch"}, h : Int, k : Key,
                                      c : [1 .. 2 -> Handles(NodesOf[d - 1])]])
  BY <1>3 DEF S
<1>5. CASE n \in Leafs
  BY <1>5 DEF Leafs, Empty, Leaf
<1>6. CASE d # 0 /\ n \in [t : {"branch"}, h : Int, k : Key,
                            c : [1 .. 2 -> Handles(NodesOf[d - 1])]]
  BY <1>6
<1> QED BY <1>4, <1>5, <1>6

\* A handle of some depth is a node of that depth, or the hash of one.
LEMMA HandleKinds ==
    ASSUME NEW d \in Nat, NEW x \in Handles(NodesOf[d])
    PROVE  /\ Deref(x) \in NodesOf[d] /\ Deref(x).t # "hash"
           /\ x.t = "hash" => x = Hash(Deref(x))
           /\ x.t # "hash" => x = Deref(x)
<1>1. CASE x \in NodesOf[d]
  BY <1>1, NodeKinds DEF Deref
<1>2. CASE x \in [t : {"hash"}, of : NodesOf[d]]
  <2>1. x.of \in NodesOf[d] /\ x.t = "hash" /\ x = Hash(x.of)
    BY <1>2 DEF Hash
  <2> QED BY <2>1, NodeKinds DEF Deref
<1> QED BY <1>1, <1>2 DEF Handles

\* What a handle in a tree can be.
LEMMA TreeKinds ==
    ASSUME NEW x \in Tree
    PROVE  /\ Deref(x) \in Tree
           /\ Deref(x).t \in {"empty", "leaf", "branch"}
           /\ Deref(Deref(x)) = Deref(x)
           /\ x = Hash(Deref(x)) \/ x = Deref(x)
           /\ x.t = "hash" <=> x = Hash(Deref(x))
           /\ x.t # "hash" <=> x = Deref(x)
           /\ Deref(x).t = "empty" => Deref(x) = Empty
           /\ Deref(x).t = "leaf" => /\ Deref(x).k \in Key /\ Deref(x).v \in Value
                                    /\ Deref(x) = Leaf(Deref(x).k, Deref(x).v)
           /\ Deref(x).t = "branch" =>
                 /\ Deref(x).h \in Int /\ Deref(x).k \in Key /\ Deref(x).k \in Int
                 /\ Deref(x).c \in [1 .. 2 -> Tree]
                 /\ Deref(x) = [t |-> "branch", h |-> Deref(x).h, k |-> Deref(x).k,
                               c |-> Deref(x).c]
<1>1. PICK d \in Nat : x \in Handles(NodesOf[d])
  BY DEF Tree
<1> DEFINE n == Deref(x)
<1>2. /\ n \in NodesOf[d] /\ n.t # "hash" /\ n \in Handles(NodesOf[d])
      /\ x.t = "hash" => x = Hash(n)
      /\ x.t # "hash" => x = n
  BY <1>1, HandleKinds DEF Handles
<1>3. Hash(n).t = "hash"
  BY DEF Hash
<1>4. n \in Tree
  BY <1>2 DEF Tree
<1>5. Deref(n) = n
  BY <1>2 DEF Deref
<1>6. n.t = "branch" => n.c \in [1 .. 2 -> Tree]
  <2> SUFFICES ASSUME n.t = "branch" PROVE n.c \in [1 .. 2 -> Tree]
    OBVIOUS
  <2>1. d - 1 \in Nat /\ n.c \in [1 .. 2 -> Handles(NodesOf[d - 1])]
    BY <1>2, NodeKinds
  <2>2. Handles(NodesOf[d - 1]) \subseteq Tree
    BY <2>1 DEF Tree
  <2> QED BY <2>1, <2>2
<1> HIDE DEF n
<1>7. /\ n.t \in {"empty", "leaf", "branch"}
      /\ n.t = "empty" => n = Empty
      /\ n.t = "leaf" => n.k \in Key /\ n.v \in Value /\ n = Leaf(n.k, n.v)
      /\ n.t = "branch" => /\ n.h \in Int /\ n.k \in Key
                          /\ n = [t |-> "branch", h |-> n.h, k |-> n.k, c |-> n.c]
  BY <1>2, NodeKinds
<1> QED BY <1>2, <1>3, <1>4, <1>5, <1>6, <1>7, AvlAssumption DEF n

\* What is built of parts of trees is a tree.
LEMMA Planted ==
    /\ Empty \in Tree
    /\ \A k \in Key, v \in Value : Leaf(k, v) \in Tree
    /\ \A h \in Int, k \in Key, c \in [1 .. 2 -> Tree] :
          [t |-> "branch", h |-> h, k |-> k, c |-> c] \in Tree
    /\ \A x \in Tree : Hash(Deref(x)) \in Tree
<1>1. Empty \in Tree /\ \A k \in Key, v \in Value : Leaf(k, v) \in Tree
  <2>1. Leafs \subseteq Handles(NodesOf[0])
    BY NodesOfDef DEF Handles
  <2> QED BY <2>1 DEF Tree, Leafs, Leaf
<1>2. ASSUME NEW h \in Int, NEW k \in Key, NEW c \in [1 .. 2 -> Tree]
      PROVE  [t |-> "branch", h |-> h, k |-> k, c |-> c] \in Tree
  <2>1. PICK d1 \in Nat : c[1] \in Handles(NodesOf[d1])
    BY DEF Tree
  <2>2. PICK d2 \in Nat : c[2] \in Handles(NodesOf[d2])
    BY DEF Tree
  <2>3. PICK d \in Nat : d1 <= d /\ d2 <= d
    OBVIOUS
  <2>4. c[1] \in Handles(NodesOf[d]) /\ c[2] \in Handles(NodesOf[d])
    BY <2>1, <2>2, <2>3, Deeper
  <2>5. c \in [1 .. 2 -> Handles(NodesOf[d])]
    BY <2>4
  <2>6. [t |-> "branch", h |-> h, k |-> k, c |-> c] \in Grown(NodesOf[d])
    BY <2>5 DEF Grown
  <2>7. [t |-> "branch", h |-> h, k |-> k, c |-> c] \in Handles(NodesOf[d + 1])
    BY <2>6, NodesOfDef DEF Handles
  <2> QED BY <2>7 DEF Tree
<1>3. ASSUME NEW x \in Tree PROVE Hash(Deref(x)) \in Tree
  <2>1. PICK d \in Nat : x \in Handles(NodesOf[d])
    BY DEF Tree
  <2>2. Hash(Deref(x)) \in Handles(NodesOf[d])
    BY <2>1, HandleKinds DEF Handles, Hash
  <2> QED BY <2>2 DEF Tree
<1> QED BY <1>1, <1>2, <1>3

\* What holds of every handle whose node is no branch, and of those of a branch
\* where it holds of the branch's children, holds of every handle.
LEMMA Induction ==
    ASSUME NEW S,
           \A x \in Tree : (Deref(x).t = "branch" => Deref(x).c[1] \in S /\ Deref(x).c[2] \in S)
                           => x \in S
    PROVE  Tree \subseteq S
<1> DEFINE D == {d \in Nat : Handles(NodesOf[d]) \subseteq S}
<1>1. 0 \in D
  <2> SUFFICES ASSUME NEW x \in Handles(NodesOf[0]) PROVE x \in S
    OBVIOUS
  <2>1. Deref(x) \in NodesOf[0] /\ x \in Tree
    BY HandleKinds DEF Tree
  <2>2. Deref(x).t # "branch"
    BY <2>1, NodeKinds
  <2> QED BY <2>1, <2>2
<1>2. ASSUME NEW d \in Nat, d \in D PROVE d + 1 \in D
  <2> SUFFICES ASSUME NEW x \in Handles(NodesOf[d + 1]) PROVE x \in S
    OBVIOUS
  <2>1. Deref(x) \in NodesOf[d + 1] /\ x \in Tree
    BY HandleKinds DEF Tree
  <2>2. Deref(x).t = "branch" => Deref(x).c \in [1 .. 2 -> Handles(NodesOf[(d + 1) - 1])]
    BY <2>1, NodeKinds
  <2>3. (d + 1) - 1 = d
    OBVIOUS
  <2> QED BY <1>2, <2>1, <2>2, <2>3
<1> HIDE DEF D
<1>3. Nat \subseteq D
  BY <1>1, <1>2, Counting
<1> QED BY <1>3 DEF D, Tree

\* The children of a handle a run may come to are such handles.
LEMMA HandleFacts ==
    /\ Handle \subseteq Tree
    /\ \A x \in Handle : Deref(x).t = "branch" => Deref(x).c \in [1 .. 2 -> Handle]
<1>1. MaxDepth \in Nat
  BY AvlAssumption
<1>2. Handle \subseteq Tree
  BY <1>1 DEF Handle, Tree
<1>3. ASSUME NEW x \in Handle, Deref(x).t = "branch" PROVE Deref(x).c \in [1 .. 2 -> Handle]
  <2>1. Deref(x) \in NodesOf[MaxDepth]
    BY <1>1, HandleKinds DEF Handle
  <2>2. MaxDepth - 1 \in Nat /\ Deref(x).c \in [1 .. 2 -> Handles(NodesOf[MaxDepth - 1])]
    BY <1>1, <1>3, <2>1, NodeKinds
  <2>3. Handles(NodesOf[MaxDepth - 1]) \subseteq Handle
    BY <1>1, <2>2, Deeper DEF Handle
  <2> QED BY <2>2, <2>3
<1> QED BY <1>2, <1>3

\* f is T of a branch and of what f is of its children, and B of any other handle.
Follows(f, B, T) ==
  \A x \in Tree : f[x] = IF Deref(x).t = "branch"
                        THEN T[<<x, f[Deref(x).c[1]], f[Deref(x).c[2]]>>] ELSE B[x]

\* A function of a tree may be defined by what it is of a branch, when it is known
\* of the branch's children.
LEMMA Recursion ==
    ASSUME NEW U, NEW B \in [Tree -> U], NEW T \in [Tree \X U \X U -> U]
    PROVE  \E f \in [Tree -> U] : Follows(f, B, T)
<1> DEFINE Body(g, x) == IF Deref(x).t = "branch"
                         THEN T[<<x, g[Deref(x).c[1]], g[Deref(x).c[2]]>>] ELSE B[x]
           H(d) == Handles(NodesOf[d])
           Good(g, d) == g \in [H(d) -> U] /\ \A x \in H(d) : g[x] = Body(g, x)
           Has == {d \in Nat : \E g : Good(g, d)}
           f == [x \in Tree |-> (CHOOSE g : \E d \in Nat : Good(g, d) /\ x \in H(d))[x]]
<1>1. ASSUME NEW d \in Nat, NEW x \in H(d)
      PROVE  /\ x \in Tree
             /\ Deref(x).t = "branch" => /\ d - 1 \in Nat
                                         /\ Deref(x).c[1] \in H(d - 1) /\ Deref(x).c[2] \in H(d - 1)
                                         /\ Deref(x).c[1] \in H(d) /\ Deref(x).c[2] \in H(d)
  <2>1. x \in Tree
    BY DEF Tree
  <2> SUFFICES ASSUME Deref(x).t = "branch"
               PROVE  /\ d - 1 \in Nat
                      /\ Deref(x).c[1] \in H(d - 1) /\ Deref(x).c[2] \in H(d - 1)
                      /\ Deref(x).c[1] \in H(d) /\ Deref(x).c[2] \in H(d)
    BY <2>1
  <2>2. Deref(x) \in NodesOf[d]
    BY HandleKinds
  <2>3. d - 1 \in Nat /\ Deref(x).c \in [1 .. 2 -> H(d - 1)]
    BY <2>2, NodeKinds
  <2>4. H(d - 1) \subseteq H(d)
    BY <2>3, Deeper
  <2> QED BY <2>3, <2>4
<1>2. \A d \in Nat : H(d) \subseteq Tree
  BY DEF Tree
<1> HIDE DEF H
<1>3. 0 \in Has
  <2> DEFINE g == [x \in H(0) |-> B[x]]
  <2>1. \A x \in H(0) : x \in Tree /\ Deref(x).t # "branch"
    BY <1>1
  <2>2. Good(g, 0)
    BY <2>1
  <2> QED BY <2>2
<1>4. ASSUME NEW d \in Nat, d \in Has PROVE d + 1 \in Has
  <2>1. PICK g : Good(g, d)
    BY <1>4
  <2> DEFINE g1 == [x \in H(d + 1) |-> Body(g, x)]
  <2>2. (d + 1) - 1 = d /\ d + 1 \in Nat
    OBVIOUS
  <2>3. ASSUME NEW x \in H(d + 1), Deref(x).t = "branch", NEW i \in 1 .. 2
        PROVE  Deref(x).c[i] \in H(d) /\ Deref(x).c[i] \in H(d + 1)
    <3>1. i = 1 \/ i = 2
      OBVIOUS
    <3> QED BY <1>1, <2>2, <2>3, <3>1
  <2>4. \A x \in H(d + 1) : Body(g, x) \in U
    <3> SUFFICES ASSUME NEW x \in H(d + 1) PROVE Body(g, x) \in U
      OBVIOUS
    <3>1. x \in Tree
      BY <1>1, <2>2
    <3>2. CASE Deref(x).t = "branch"
      <4>1. g[Deref(x).c[1]] \in U /\ g[Deref(x).c[2]] \in U
        BY <2>1, <2>3, <3>2
      <4> QED BY <3>1, <3>2, <4>1
    <3> QED BY <3>1, <3>2
  <2>5. \A x \in H(d) : g[x] = Body(g, x)
    BY <2>1
  <2> HIDE DEF Body
  <2>6. ASSUME NEW x \in H(d + 1), Deref(x).t = "branch", NEW i \in 1 .. 2
        PROVE  g1[Deref(x).c[i]] = g[Deref(x).c[i]]
    <3> DEFINE c == Deref(x).c[i]
    <3>1. c \in H(d) /\ c \in H(d + 1)
      BY <2>3, <2>6
    <3> HIDE DEF c
    <3>2. g1[c] = Body(g, c)
      BY <3>1
    <3>3. g[c] = Body(g, c)
      BY <2>5, <3>1
    <3> QED BY <3>2, <3>3 DEF c
  <2>7. ASSUME NEW x \in H(d + 1) PROVE Body(g1, x) = Body(g, x)
    <3>1. Deref(x).t = "branch" => /\ g1[Deref(x).c[1]] = g[Deref(x).c[1]]
                                   /\ g1[Deref(x).c[2]] = g[Deref(x).c[2]]
      <4> HIDE DEF g1
      <4> QED BY <2>6, 1 \in 1 .. 2, 2 \in 1 .. 2
    <3> HIDE DEF g1
    <3> QED BY <3>1 DEF Body
  <2>8. g1 \in [H(d + 1) -> U] /\ \A x \in H(d + 1) : g1[x] = Body(g1, x)
    BY <2>4, <2>7
  <2> HIDE DEF g1
  <2> QED BY <2>2, <2>8 DEF Has
<1> HIDE DEF Has
<1>5. Nat \subseteq Has
  BY <1>3, <1>4, Counting
<1>6. ASSUME NEW x \in Tree, NEW d \in Nat, NEW e \in Nat, NEW g, NEW h,
             Good(g, d), Good(h, e), x \in H(d), x \in H(e)
      PROVE  g[x] = h[x]
  <2> DEFINE S == {y \in Tree : y \in H(d) /\ y \in H(e) => g[y] = h[y]}
  <2>1. ASSUME NEW y \in Tree,
               Deref(y).t = "branch" => Deref(y).c[1] \in S /\ Deref(y).c[2] \in S
        PROVE  y \in S
    <3> SUFFICES ASSUME y \in H(d), y \in H(e) PROVE g[y] = h[y]
      OBVIOUS
    <3>1. g[y] = Body(g, y) /\ h[y] = Body(h, y)
      BY <1>6
    <3>2. CASE Deref(y).t = "branch"
      <4>1. /\ g[Deref(y).c[1]] = h[Deref(y).c[1]]
            /\ g[Deref(y).c[2]] = h[Deref(y).c[2]]
        BY <1>1, <2>1, <3>2
      <4> QED BY <3>1, <4>1
    <3> QED BY <3>1, <3>2
  <2> HIDE DEF S, Good
  <2>2. Tree \subseteq S
    BY <2>1, Induction
  <2> QED BY <1>6, <2>2 DEF S
<1>7. ASSUME NEW x \in Tree, NEW d \in Nat, NEW g, Good(g, d), x \in H(d) PROVE f[x] = g[x]
  <2> DEFINE P(h) == \E e \in Nat : Good(h, e) /\ x \in H(e)
             h0 == CHOOSE h : P(h)
  <2> HIDE DEF Good
  <2>1. P(g)
    BY <1>7
  <2>2. P(h0)
    BY <2>1
  <2> HIDE DEF h0
  <2>3. h0[x] = g[x]
    BY <1>6, <1>7, <2>2
  <2> QED BY <2>3 DEF h0
<1>8. ASSUME NEW x \in Tree PROVE f[x] \in U /\ f[x] = Body(f, x)
  <2>1. PICK d \in Nat : x \in H(d)
    BY DEF Tree, H
  <2>2. PICK g : Good(g, d)
    BY <1>5 DEF Has
  <2> HIDE DEF f
  <2>3. f[x] = g[x]
    BY <1>7, <2>1, <2>2
  <2>4. Deref(x).t = "branch" =>
           f[Deref(x).c[1]] = g[Deref(x).c[1]] /\ f[Deref(x).c[2]] = g[Deref(x).c[2]]
    BY <1>1, <1>2, <1>7, <2>1, <2>2
  <2> QED BY <2>1, <2>2, <2>3, <2>4
<1>9. f \in [Tree -> U]
  BY <1>8
<1> HIDE DEF f
<1>10. Follows(f, B, T)
  BY <1>8 DEF Follows
<1> QED BY <1>9, <1>10

-----------------------------------------------------------------------------
(* What a tree holds, and what makes it a good one.                          *)

Branches(x) == Deref(x).t = "branch"
Child(x, i) == Deref(x).c[i]

\* The keys of its leaves.
Keys == CHOOSE f : f \in [Tree -> SUBSET Key] /\ \A x \in Tree :
  f[x] = IF Branches(x) THEN f[Child(x, 1)] \cup f[Child(x, 2)]
         ELSE IF Deref(x).t = "leaf" THEN {Deref(x).k} ELSE {}

\* What it maps every key to.
Mapping == [Key -> Value \cup {Nothing}]
Find == CHOOSE f : f \in [Tree -> Mapping] /\ \A x \in Tree :
  f[x] = IF Branches(x)
         THEN [k \in Key |-> IF k < Deref(x).k THEN f[Child(x, 1)][k] ELSE f[Child(x, 2)][k]]
         ELSE [k \in Key |-> IF Deref(x).t = "leaf" /\ Deref(x).k = k THEN Deref(x).v ELSE Nothing]

\* The nodes it takes from the database.
Own(x) == IF x.t = "hash" THEN {x.of} ELSE {}
Uses == CHOOSE f : f \in [Tree -> SUBSET Tree] /\ \A x \in Tree :
  f[x] = Own(x) \cup (IF Branches(x) THEN f[Child(x, 1)] \cup f[Child(x, 2)] ELSE {})

\* Of a branch: its height is more than its children's, which have keys, those
\* of the first below its own, and those of the second not.
Parted(n) ==
  /\ Height(n.c[1]) \in 1 .. n.h - 1 /\ Height(n.c[2]) \in 1 .. n.h - 1
  /\ Keys[n.c[1]] # {} /\ \A k \in Keys[n.c[1]] : k < n.k
  /\ Keys[n.c[2]] # {} /\ \A k \in Keys[n.c[2]] : n.k <= k
Sound == CHOOSE f : f \in [Tree -> BOOLEAN] /\ \A x \in Tree :
  f[x] <=> (Branches(x) => Parted(Deref(x)) /\ f[Child(x, 1)] /\ f[Child(x, 2)])

\* Of a branch: its height is right, and its children's differ by one at most.
Level(n) ==
  /\ n.h = MaxOf(Height(n.c[1]), Height(n.c[2])) + 1
  /\ Height(n.c[1]) - Height(n.c[2]) \in -1 .. 1
Even == CHOOSE f : f \in [Tree -> BOOLEAN] /\ \A x \in Tree :
  f[x] <=> (Branches(x) => Level(Deref(x)) /\ f[Child(x, 1)] /\ f[Child(x, 2)])

\* The keys of a tree.
LEMMA KeysDef ==
    /\ Keys \in [Tree -> SUBSET Key]
    /\ \A x \in Tree :
         Keys[x] = IF Branches(x) THEN Keys[Child(x, 1)] \cup Keys[Child(x, 2)]
                   ELSE IF Deref(x).t = "leaf" THEN {Deref(x).k} ELSE {}
<1> DEFINE U == SUBSET Key
           B == [x \in Tree |-> IF Deref(x).t = "leaf" THEN {Deref(x).k} ELSE {}]
           T == [y \in Tree \X U \X U |-> y[2] \cup y[3]]
           P(f) == \A x \in Tree :
                     f[x] = IF Branches(x) THEN f[Child(x, 1)] \cup f[Child(x, 2)]
                            ELSE IF Deref(x).t = "leaf" THEN {Deref(x).k} ELSE {}
<1>1. B \in [Tree -> U]
  BY TreeKinds
<1>2. T \in [Tree \X U \X U -> U]
  OBVIOUS
<1>3. PICK f \in [Tree -> U] : Follows(f, B, T)
  <2> HIDE DEF B, T, U
  <2> QED BY <1>1, <1>2, Recursion
<1>4. P(f)
  <2> SUFFICES ASSUME NEW x \in Tree
               PROVE  f[x] = IF Branches(x) THEN f[Child(x, 1)] \cup f[Child(x, 2)]
                             ELSE IF Deref(x).t = "leaf" THEN {Deref(x).k} ELSE {}
    OBVIOUS
  <2>1. Branches(x) => f[Child(x, 1)] \in U /\ f[Child(x, 2)] \in U
    BY TreeKinds DEF Branches, Child
  <2> QED BY <1>3, <2>1 DEF Branches, Child, Follows
<1>5. Keys = CHOOSE g : g \in [Tree -> U] /\ P(g)
  BY DEF Keys
<1> HIDE DEF P
<1>6. Keys \in [Tree -> U] /\ P(Keys)
  BY <1>3, <1>4, <1>5
<1> QED BY <1>6 DEF P

\* What a tree maps a key to.
LEMMA FindDef ==
    /\ Find \in [Tree -> Mapping]
    /\ \A x \in Tree :
         Find[x] = IF Branches(x)
                   THEN [k \in Key |-> IF k < Deref(x).k THEN Find[Child(x, 1)][k]
                                       ELSE Find[Child(x, 2)][k]]
                   ELSE [k \in Key |-> IF Deref(x).t = "leaf" /\ Deref(x).k = k THEN Deref(x).v
                                       ELSE Nothing]
<1> DEFINE U == Mapping
           B == [x \in Tree |-> [k \in Key |-> IF Deref(x).t = "leaf" /\ Deref(x).k = k
                                               THEN Deref(x).v ELSE Nothing]]
           T == [y \in Tree \X U \X U |->
                   [k \in Key |-> IF k < Deref(y[1]).k THEN y[2][k] ELSE y[3][k]]]
           P(f) == \A x \in Tree :
                     f[x] = IF Branches(x)
                            THEN [k \in Key |-> IF k < Deref(x).k THEN f[Child(x, 1)][k]
                                                ELSE f[Child(x, 2)][k]]
                            ELSE [k \in Key |-> IF Deref(x).t = "leaf" /\ Deref(x).k = k
                                                THEN Deref(x).v ELSE Nothing]
<1>1. B \in [Tree -> U]
  BY TreeKinds DEF Mapping
<1>2. T \in [Tree \X U \X U -> U]
  BY DEF Mapping
<1>3. PICK f \in [Tree -> U] : Follows(f, B, T)
  <2> HIDE DEF B, T, U
  <2> QED BY <1>1, <1>2, Recursion
<1>4. ASSUME NEW x \in Tree
      PROVE  f[x] = IF Branches(x)
                    THEN [k \in Key |-> IF k < Deref(x).k THEN f[Child(x, 1)][k]
                                        ELSE f[Child(x, 2)][k]]
                    ELSE [k \in Key |-> IF Deref(x).t = "leaf" /\ Deref(x).k = k
                                        THEN Deref(x).v ELSE Nothing]
  <2>1. Branches(x) => f[Child(x, 1)] \in U /\ f[Child(x, 2)] \in U
    BY TreeKinds DEF Branches, Child
  <2>2. CASE Branches(x)
    <3> DEFINE a == f[Child(x, 1)]
               b == f[Child(x, 2)]
    <3>1. f[x] = T[<<x, a, b>>]
      BY <1>3, <2>2 DEF Branches, Child, Follows
    <3>2. a \in U /\ b \in U
      BY <2>1, <2>2
    <3> HIDE DEF a, b
    <3>3. T[<<x, a, b>>] = [k \in Key |-> IF k < Deref(x).k THEN a[k] ELSE b[k]]
      BY <3>2
    <3> QED BY <2>2, <3>1, <3>3 DEF a, b
  <2>3. CASE ~Branches(x)
    BY <1>3, <2>3 DEF Branches, Follows
  <2> QED BY <2>2, <2>3
<1>5. Find = CHOOSE g : g \in [Tree -> U] /\ P(g)
  BY DEF Find
<1>6. P(f)
  BY <1>4
<1> HIDE DEF P
<1>7. Find \in [Tree -> U] /\ P(Find)
  BY <1>3, <1>6, <1>5
<1> QED BY <1>7 DEF P

\* The nodes a tree takes from the database.
LEMMA UsesDef ==
    /\ Uses \in [Tree -> SUBSET Tree]
    /\ \A x \in Tree :
         Uses[x] = Own(x) \cup (IF Branches(x) THEN Uses[Child(x, 1)] \cup Uses[Child(x, 2)] ELSE {})
<1> DEFINE U == SUBSET Tree
           B == [x \in Tree |-> Own(x)]
           T == [y \in Tree \X U \X U |-> Own(y[1]) \cup y[2] \cup y[3]]
           P(f) == \A x \in Tree :
                     f[x] = Own(x) \cup (IF Branches(x) THEN f[Child(x, 1)] \cup f[Child(x, 2)]
                                         ELSE {})
<1>0. ASSUME NEW x \in Tree PROVE Own(x) \in U
  BY TreeKinds DEF Own, Deref
<1> HIDE DEF U
<1>1. B \in [Tree -> U]
  BY <1>0
<1>2. T \in [Tree \X U \X U -> U]
  <2>1. \A y \in Tree \X U \X U : y[1] \in Tree /\ y[2] \in U /\ y[3] \in U
    OBVIOUS
  <2>2. \A y \in Tree \X U \X U : Own(y[1]) \cup y[2] \cup y[3] \in U
    BY <1>0, <2>1 DEF U
  <2> QED BY <2>2
<1>3. PICK f \in [Tree -> U] : Follows(f, B, T)
  <2> HIDE DEF B, T
  <2> QED BY <1>1, <1>2, Recursion
<1>4. ASSUME NEW x \in Tree
      PROVE  f[x] = Own(x) \cup (IF Branches(x) THEN f[Child(x, 1)] \cup f[Child(x, 2)] ELSE {})
  <2>1. CASE Branches(x)
    <3> DEFINE a == f[Child(x, 1)]
               b == f[Child(x, 2)]
    <3>1. f[x] = T[<<x, a, b>>]
      BY <1>3, <2>1 DEF Branches, Child, Follows
    <3>2. a \in U /\ b \in U
      BY <2>1, TreeKinds DEF Branches, Child
    <3> HIDE DEF a, b
    <3>3. T[<<x, a, b>>] = Own(x) \cup a \cup b
      BY <3>2
    <3> HIDE DEF T
    <3> QED BY <2>1, <3>1, <3>3 DEF a, b
  <2>2. CASE ~Branches(x)
    BY <1>3, <2>2 DEF Branches, Follows
  <2> QED BY <2>1, <2>2
<1>5. Uses = CHOOSE g : g \in [Tree -> U] /\ P(g)
  BY DEF Uses, U
<1>6. P(f)
  BY <1>4
<1> HIDE DEF P
<1>7. Uses \in [Tree -> U] /\ P(Uses)
  BY <1>3, <1>5, <1>6
<1> QED BY <1>7 DEF P, U

\* A tree in order, every branch of it higher than its children.
LEMMA SoundDef ==
    /\ Sound \in [Tree -> BOOLEAN]
    /\ \A x \in Tree :
         Sound[x] <=> (Branches(x) => Parted(Deref(x)) /\ Sound[Child(x, 1)] /\ Sound[Child(x, 2)])
<1> DEFINE U == BOOLEAN
           B == [x \in Tree |-> TRUE]
           T == [y \in Tree \X U \X U |-> Parted(Deref(y[1])) /\ y[2] /\ y[3]]
           P(f) == \A x \in Tree :
                     f[x] <=> (Branches(x) => Parted(Deref(x)) /\ f[Child(x, 1)] /\ f[Child(x, 2)])
<1>1. B \in [Tree -> U]
  OBVIOUS
<1>2. T \in [Tree \X U \X U -> U]
  OBVIOUS
<1>3. PICK f \in [Tree -> U] : Follows(f, B, T)
  <2> HIDE DEF B, T, U
  <2> QED BY <1>1, <1>2, Recursion
<1>4. ASSUME NEW x \in Tree
      PROVE  f[x] <=> (Branches(x) => Parted(Deref(x)) /\ f[Child(x, 1)] /\ f[Child(x, 2)])
  <2>1. CASE Branches(x)
    <3> DEFINE a == f[Child(x, 1)]
               b == f[Child(x, 2)]
    <3>1. f[x] = T[<<x, a, b>>]
      BY <1>3, <2>1 DEF Branches, Child, Follows
    <3>2. a \in U /\ b \in U
      BY <2>1, TreeKinds DEF Branches, Child
    <3> HIDE DEF a, b
    <3>3. T[<<x, a, b>>] = (Parted(Deref(x)) /\ a /\ b)
      BY <3>2
    <3> HIDE DEF T
    <3> QED BY <2>1, <3>1, <3>3 DEF a, b
  <2>2. CASE ~Branches(x)
    BY <1>3, <2>2 DEF Branches, Follows
  <2> QED BY <2>1, <2>2
<1>5. Sound = CHOOSE g : g \in [Tree -> U] /\ P(g)
  BY DEF Sound
<1>6. P(f)
  BY <1>4
<1> HIDE DEF P
<1>7. Sound \in [Tree -> U] /\ P(Sound)
  BY <1>3, <1>5, <1>6
<1> QED BY <1>7 DEF P

\* A tree with the right heights, none of its branches lopsided.
LEMMA EvenDef ==
    /\ Even \in [Tree -> BOOLEAN]
    /\ \A x \in Tree :
         Even[x] <=> (Branches(x) => Level(Deref(x)) /\ Even[Child(x, 1)] /\ Even[Child(x, 2)])
<1> DEFINE U == BOOLEAN
           B == [x \in Tree |-> TRUE]
           T == [y \in Tree \X U \X U |-> Level(Deref(y[1])) /\ y[2] /\ y[3]]
           P(f) == \A x \in Tree :
                     f[x] <=> (Branches(x) => Level(Deref(x)) /\ f[Child(x, 1)] /\ f[Child(x, 2)])
<1>1. B \in [Tree -> U]
  OBVIOUS
<1>2. T \in [Tree \X U \X U -> U]
  OBVIOUS
<1>3. PICK f \in [Tree -> U] : Follows(f, B, T)
  <2> HIDE DEF B, T, U
  <2> QED BY <1>1, <1>2, Recursion
<1>4. ASSUME NEW x \in Tree
      PROVE  f[x] <=> (Branches(x) => Level(Deref(x)) /\ f[Child(x, 1)] /\ f[Child(x, 2)])
  <2>1. CASE Branches(x)
    <3> DEFINE a == f[Child(x, 1)]
               b == f[Child(x, 2)]
    <3>1. f[x] = T[<<x, a, b>>]
      BY <1>3, <2>1 DEF Branches, Child, Follows
    <3>2. a \in U /\ b \in U
      BY <2>1, TreeKinds DEF Branches, Child
    <3> HIDE DEF a, b
    <3>3. T[<<x, a, b>>] = (Level(Deref(x)) /\ a /\ b)
      BY <3>2
    <3> HIDE DEF T
    <3> QED BY <2>1, <3>1, <3>3 DEF a, b
  <2>2. CASE ~Branches(x)
    BY <1>3, <2>2 DEF Branches, Follows
  <2> QED BY <2>1, <2>2
<1>5. Even = CHOOSE g : g \in [Tree -> U] /\ P(g)
  BY DEF Even
<1>6. P(f)
  BY <1>4
<1> HIDE DEF P
<1>7. Even \in [Tree -> U] /\ P(Even)
  BY <1>3, <1>5, <1>6
<1> QED BY <1>7 DEF P

\* A handle is seen through: it is as its node is, but for the node itself.
LEMMA SeenThrough ==
    ASSUME NEW x \in Tree
    PROVE  /\ Keys[x] = Keys[Deref(x)] /\ Find[x] = Find[Deref(x)]
           /\ Sound[x] <=> Sound[Deref(x)]
           /\ Even[x] <=> Even[Deref(x)]
           /\ Height(x) = Height(Deref(x))
           /\ Uses[x] = Own(x) \cup Uses[Deref(x)]
<1> DEFINE n == Deref(x)
<1>1. n \in Tree /\ Deref(n) = n /\ n.t # "hash"
  BY TreeKinds
<1>2. Branches(n) <=> Branches(x)
  BY <1>1 DEF Branches
<1>3. Child(n, 1) = Child(x, 1) /\ Child(n, 2) = Child(x, 2)
  BY <1>1 DEF Child
<1>4. Own(n) = {}
  BY <1>1 DEF Own
<1> HIDE DEF n
<1>5. Deref(x) = n /\ Deref(n) = n
  BY <1>1 DEF n
<1>6. Keys[x] = Keys[n]
  BY <1>1, <1>2, <1>3, <1>5, KeysDef
<1>7. Find[x] = Find[n]
  BY <1>1, <1>2, <1>3, <1>5, FindDef
<1>8. Sound[x] <=> Sound[n]
  BY <1>1, <1>2, <1>3, <1>5, SoundDef
<1>9. Even[x] <=> Even[n]
  BY <1>1, <1>2, <1>3, <1>5, EvenDef
<1>10. Height(x) = Height(n)
  BY <1>5 DEF Height
<1>11. Uses[x] = Own(x) \cup Uses[n]
  BY <1>1, <1>2, <1>3, <1>4, <1>5, UsesDef
<1> QED BY <1>5, <1>6, <1>7, <1>8, <1>9, <1>10, <1>11

\* The empty node, and a leaf.
LEMMA Ends ==
    /\ Keys[Empty] = {} /\ Uses[Empty] = {} /\ Height(Empty) = 0
    /\ Sound[Empty] /\ Even[Empty]
    /\ Find[Empty] = [k \in Key |-> Nothing]
    /\ \A k \in Key, v \in Value :
         LET n == Leaf(k, v) IN
         /\ Keys[n] = {k} /\ Uses[n] = {} /\ Height(n) = 1
         /\ Sound[n] /\ Even[n]
         /\ Find[n] = [j \in Key |-> IF j = k THEN v ELSE Nothing]
<1>1. Empty \in Tree /\ Deref(Empty) = Empty /\ Empty.t = "empty" /\ ~Branches(Empty) /\ Own(Empty) = {}
  BY Planted DEF Deref, Empty, Branches, Own
<1>2. /\ Keys[Empty] = {} /\ Uses[Empty] = {} /\ Height(Empty) = 0
      /\ Sound[Empty] /\ Even[Empty]
  BY <1>1, KeysDef, UsesDef, SoundDef, EvenDef DEF Height
<1>3. Find[Empty] = [k \in Key |-> Nothing]
  BY <1>1, FindDef
<1>4. ASSUME NEW k \in Key, NEW v \in Value
      PROVE  LET n == Leaf(k, v) IN
             /\ Keys[n] = {k} /\ Uses[n] = {} /\ Height(n) = 1
             /\ Sound[n] /\ Even[n]
             /\ Find[n] = [j \in Key |-> IF j = k THEN v ELSE Nothing]
  <2> DEFINE n == Leaf(k, v)
  <2>1. /\ n \in Tree /\ Deref(n) = n /\ n.t = "leaf" /\ n.k = k /\ n.v = v
        /\ ~Branches(n) /\ Own(n) = {}
    BY Planted DEF Deref, Leaf, Branches, Own
  <2> HIDE DEF n
  <2>2. /\ Keys[n] = {k} /\ Uses[n] = {} /\ Height(n) = 1
        /\ Sound[n] /\ Even[n]
    BY <2>1, KeysDef, UsesDef, SoundDef, EvenDef DEF Height
  <2>3. Find[n] = [j \in Key |-> IF j = k THEN v ELSE Nothing]
    BY <2>1, FindDef
  <2> QED BY <2>2, <2>3 DEF n
<1> QED BY <1>2, <1>3, <1>4

\* A branch that holds a tree on either side.
Knot(n, h, k, l, r) ==
  /\ n \in Tree /\ Deref(n) = n /\ n.t = "branch" /\ n.h = h /\ n.k = k
  /\ h \in Int /\ k \in Key /\ k \in Int
  /\ n.c[1] = l /\ n.c[2] = r /\ l \in Tree /\ r \in Tree

\* The keys of l are below k, and those of r are not.
Apart(l, k, r) ==
  /\ Keys[l] # {} /\ \A j \in Keys[l] : j < k
  /\ Keys[r] # {} /\ \A j \in Keys[r] : k <= j

\* What a branch is, whose children are l and r.
LEMMA KnotParts ==
    ASSUME NEW n, NEW h, NEW k, NEW l, NEW r, Knot(n, h, k, l, r)
    PROVE  /\ Branches(n) /\ n \in Tree /\ Deref(n) = n /\ Child(n, 1) = l /\ Child(n, 2) = r
           /\ n.h = h /\ n.k = k /\ n.c[1] = l /\ n.c[2] = r /\ Own(n) = {} /\ n.t = "branch"
           /\ h \in Int /\ k \in Key /\ k \in Int /\ l \in Tree /\ r \in Tree
BY DEF Knot, Branches, Child, Own

\* Its keys, its nodes and its height.
LEMMA KnotKeys ==
    ASSUME NEW n, NEW h, NEW k, NEW l, NEW r, Knot(n, h, k, l, r)
    PROVE  /\ Keys[n] = Keys[l] \cup Keys[r]
           /\ Uses[n] = Uses[l] \cup Uses[r]
           /\ Height(n) = h
<1>1. Keys[n] = Keys[l] \cup Keys[r]
  BY KnotParts, KeysDef
<1>2. Uses[n] = Uses[l] \cup Uses[r]
  BY KnotParts, UsesDef
<1>3. Height(n) = h
  BY KnotParts DEF Height
<1> QED BY <1>1, <1>2, <1>3

\* What it finds.
LEMMA KnotFind ==
    ASSUME NEW n, NEW h, NEW k, NEW l, NEW r, Knot(n, h, k, l, r), NEW j \in Key
    PROVE  Find[n][j] = IF j < k THEN Find[l][j] ELSE Find[r][j]
<1>1. Find[n] = [i \in Key |-> IF i < k THEN Find[l][i] ELSE Find[r][i]]
  BY KnotParts, FindDef
<1> QED BY <1>1

\* When it is sound.
LEMMA KnotSound ==
    ASSUME NEW n, NEW h, NEW k, NEW l, NEW r, Knot(n, h, k, l, r)
    PROVE  Sound[n] <=> /\ Height(l) \in 1 .. h - 1 /\ Height(r) \in 1 .. h - 1
                        /\ Apart(l, k, r) /\ Sound[l] /\ Sound[r]
<1>1. Sound[n] <=> Parted(n) /\ Sound[l] /\ Sound[r]
  BY KnotParts, SoundDef
<1>2. Parted(n) <=> /\ Height(l) \in 1 .. h - 1 /\ Height(r) \in 1 .. h - 1
                    /\ Apart(l, k, r)
  BY KnotParts DEF Parted, Apart
<1> QED BY <1>1, <1>2

\* A height that is right for children of the heights hl and hr, which are close.
Levelled(h, hl, hr) ==
  /\ h = hl + 1 \/ h = hr + 1
  /\ h > hl /\ h > hr /\ hl - hr \in -1 .. 1

\* When it is even, by the heights of its children.
LEMMA KnotEven ==
    ASSUME NEW n, NEW h, NEW k, NEW l, NEW r, Knot(n, h, k, l, r),
           Height(l) \in Int, Height(r) \in Int
    PROVE  Even[n] <=> Levelled(h, Height(l), Height(r)) /\ Even[l] /\ Even[r]
<1>1. Even[n] <=> Level(n) /\ Even[l] /\ Even[r]
  BY KnotParts, EvenDef
<1>2. Level(n) <=> Levelled(h, Height(l), Height(r))
  <2>1. n.h = h /\ n.c[1] = l /\ n.c[2] = r /\ h \in Int
    BY KnotParts
  <2> DEFINE hl == Height(l)
             hr == Height(r)
  <2>2. Level(n) <=> h = MaxOf(hl, hr) + 1 /\ hl - hr \in -1 .. 1
    BY <2>1 DEF Level
  <2>3. hl \in Int /\ hr \in Int
    OBVIOUS
  <2> HIDE DEF hl, hr
  <2>4. (h = MaxOf(hl, hr) + 1 /\ hl - hr \in -1 .. 1) <=> Levelled(h, hl, hr)
    BY <2>1, <2>3 DEF MaxOf, Levelled
  <2> QED BY <2>2, <2>4 DEF hl, hr
<1> QED BY <1>1, <1>2

\* A branch is the record of its parts.
LEMMA KnotRecord ==
    ASSUME NEW n, NEW h, NEW k, NEW l, NEW r, Knot(n, h, k, l, r)
    PROVE  /\ n = [t |-> "branch", h |-> h, k |-> k, c |-> n.c]
           /\ h \in Int /\ k \in Key /\ n.c \in [1 .. 2 -> Tree] /\ n.c[1] = l /\ n.c[2] = r
<1>1. n \in Tree /\ Deref(n) = n /\ n.t = "branch" /\ n.h = h /\ n.k = k
  BY DEF Knot
<1>2. /\ n = [t |-> "branch", h |-> n.h, k |-> n.k, c |-> n.c]
      /\ n.c \in [1 .. 2 -> Tree]
  BY <1>1, TreeKinds
<1> QED BY <1>1, <1>2 DEF Knot

\* A branch of another height, and one whose child i is another.
Higher(n, h) == [n EXCEPT !.h = h]
Grafted(n, i, z) == [n EXCEPT !.c[i] = z]

\* Branches, new ones and changed ones.
LEMMA Knots ==
    /\ \A n \in Tree : n.t = "branch" => Knot(n, n.h, n.k, n.c[1], n.c[2])
    /\ \A h \in Int, k \in Key, l \in Tree, r \in Tree : Knot(Branch(h, k, l, r), h, k, l, r)
    /\ \A n, h, k, l, r : \A g \in Int : Knot(n, h, k, l, r) => Knot(Higher(n, g), g, k, l, r)
    /\ \A n, h, k, l, r : \A z \in Tree :
          Knot(n, h, k, l, r) => /\ Knot(Grafted(n, 1, z), h, k, z, r)
                                 /\ Knot(Grafted(n, 2, z), h, k, l, z)
<1>1. ASSUME NEW n \in Tree, n.t = "branch" PROVE Knot(n, n.h, n.k, n.c[1], n.c[2])
  <2>1. Deref(n) = n
    BY <1>1 DEF Deref
  <2> QED BY <1>1, <2>1, TreeKinds DEF Knot
<1>2. ASSUME NEW h \in Int, NEW k \in Key, NEW c \in [1 .. 2 -> Tree]
      PROVE  Knot([t |-> "branch", h |-> h, k |-> k, c |-> c], h, k, c[1], c[2])
  <2> DEFINE n == [t |-> "branch", h |-> h, k |-> k, c |-> c]
  <2>1. n \in Tree
    BY Planted
  <2>2. n.t = "branch" /\ n.h = h /\ n.k = k /\ n.c = c
    OBVIOUS
  <2> HIDE DEF n
  <2>3. Knot(n, n.h, n.k, n.c[1], n.c[2])
    BY <1>1, <2>1, <2>2
  <2> QED BY <2>2, <2>3 DEF n
<1>3. ASSUME NEW h \in Int, NEW k \in Key, NEW l \in Tree, NEW r \in Tree
      PROVE  Knot(Branch(h, k, l, r), h, k, l, r)
  <2> DEFINE c == <<l, r>>
  <2>1. c \in [1 .. 2 -> Tree] /\ c[1] = l /\ c[2] = r
    OBVIOUS
  <2>2. Branch(h, k, l, r) = [t |-> "branch", h |-> h, k |-> k, c |-> c]
    BY DEF Branch
  <2> HIDE DEF c
  <2>3. Knot(Branch(h, k, l, r), h, k, c[1], c[2])
    BY <1>2, <2>1, <2>2
  <2> QED BY <2>1, <2>3
<1>4. ASSUME NEW n, NEW h, NEW k, NEW l, NEW r, Knot(n, h, k, l, r)
      PROVE  /\ n = [t |-> "branch", h |-> h, k |-> k, c |-> n.c]
             /\ h \in Int /\ k \in Key /\ n.c \in [1 .. 2 -> Tree] /\ n.c[1] = l /\ n.c[2] = r
  BY <1>4, KnotRecord
<1>5. ASSUME NEW n, NEW h, NEW k, NEW l, NEW r, NEW g \in Int, Knot(n, h, k, l, r)
      PROVE  Knot(Higher(n, g), g, k, l, r)
  <2>1. Higher(n, g) = [t |-> "branch", h |-> g, k |-> k, c |-> n.c]
    BY <1>4, <1>5 DEF Higher
  <2>2. Knot([t |-> "branch", h |-> g, k |-> k, c |-> n.c], g, k, n.c[1], n.c[2])
    BY <1>2, <1>4, <1>5
  <2> QED BY <1>4, <1>5, <2>1, <2>2
<1>6. ASSUME NEW n, NEW h, NEW k, NEW l, NEW r, NEW z \in Tree, Knot(n, h, k, l, r),
             NEW i \in 1 .. 2
      PROVE  Knot(Grafted(n, i, z), h, k, IF i = 1 THEN z ELSE l, IF i = 2 THEN z ELSE r)
  <2> DEFINE c == [n.c EXCEPT ![i] = z]
  <2>1. Grafted(n, i, z) = [t |-> "branch", h |-> h, k |-> k, c |-> c]
    BY <1>4, <1>6 DEF Grafted
  <2>2. /\ c \in [1 .. 2 -> Tree]
        /\ c[1] = (IF i = 1 THEN z ELSE l) /\ c[2] = (IF i = 2 THEN z ELSE r)
    BY <1>4, <1>6
  <2> HIDE DEF c
  <2>3. Knot([t |-> "branch", h |-> h, k |-> k, c |-> c], h, k, c[1], c[2])
    BY <1>2, <1>4, <1>6, <2>2
  <2> QED BY <2>1, <2>2, <2>3
<1>7. ASSUME NEW n, NEW h, NEW k, NEW l, NEW r, NEW z \in Tree, Knot(n, h, k, l, r)
      PROVE  /\ Knot(Grafted(n, 1, z), h, k, z, r)
             /\ Knot(Grafted(n, 2, z), h, k, l, z)
  <2>1. /\ 1 \in 1 .. 2 /\ 2 \in 1 .. 2
        /\ (IF 1 = 1 THEN z ELSE l) = z /\ (IF 1 = 2 THEN z ELSE r) = r
        /\ (IF 2 = 1 THEN z ELSE l) = l /\ (IF 2 = 2 THEN z ELSE r) = z
    OBVIOUS
  <2>2. Knot(Grafted(n, 1, z), h, k, IF 1 = 1 THEN z ELSE l, IF 1 = 2 THEN z ELSE r)
    BY <1>6, <1>7, <2>1
  <2>3. Knot(Grafted(n, 2, z), h, k, IF 2 = 1 THEN z ELSE l, IF 2 = 2 THEN z ELSE r)
    BY <1>6, <1>7, <2>1
  <2> QED BY <2>1, <2>2, <2>3
<1> QED BY <1>1, <1>3, <1>5, <1>7

\* A rotation of n and its child, of which m is the node: the result holds m's
\* outer child, and below it n holds m's inner child and n's other child.
LEMMA RotateShape ==
    ASSUME NEW n, NEW h, NEW k, NEW l, NEW r, Knot(n, h, k, l, r),
           NEW m, NEW hm, NEW km, NEW lm, NEW rm, Knot(m, hm, km, lm, rm)
    PROVE  /\ \E d : Knot(d, h - 1, k, rm, r) /\ Knot(Rotate(n, m, 1), h, km, lm, d)
           /\ \E d : Knot(d, h - 1, k, l, lm) /\ Knot(Rotate(n, m, 2), h, km, d, rm)
<1>1. /\ Rotate(n, m, 1) = Grafted(Higher(m, h), 2, Grafted(Higher(n, h - 1), 1, rm))
      /\ Rotate(n, m, 2) = Grafted(Higher(m, h), 1, Grafted(Higher(n, h - 1), 2, lm))
  <2>1. /\ Rotate(n, m, 1) = Grafted(Higher(m, n.h), 2, Grafted(Higher(n, n.h - 1), 1, m.c[2]))
        /\ Rotate(n, m, 2) = Grafted(Higher(m, n.h), 1, Grafted(Higher(n, n.h - 1), 2, m.c[1]))
    <3>1. Other(1) = 2 /\ Other(2) = 1
      BY DEF Other
    <3> QED BY <3>1 DEF Rotate, Grafted, Higher
  <2> QED BY <2>1 DEF Knot
<1>2. lm \in Tree /\ rm \in Tree /\ h \in Int /\ h - 1 \in Int
  BY DEF Knot
<1>3. Knot(Higher(n, h - 1), h - 1, k, l, r) /\ Knot(Higher(m, h), h, km, lm, rm)
  BY <1>2, Knots
<1>4. \E d : Knot(d, h - 1, k, rm, r) /\ Knot(Rotate(n, m, 1), h, km, lm, d)
  <2> DEFINE d == Grafted(Higher(n, h - 1), 1, rm)
  <2>1. Knot(d, h - 1, k, rm, r)
    BY <1>2, <1>3, Knots
  <2>2. d \in Tree
    BY <2>1 DEF Knot
  <2> HIDE DEF d
  <2>3. Knot(Grafted(Higher(m, h), 2, d), h, km, lm, d)
    BY <1>3, <2>2, Knots
  <2> QED BY <1>1, <2>1, <2>3 DEF d
<1>5. \E d : Knot(d, h - 1, k, l, lm) /\ Knot(Rotate(n, m, 2), h, km, d, rm)
  <2> DEFINE d == Grafted(Higher(n, h - 1), 2, lm)
  <2>1. Knot(d, h - 1, k, l, lm)
    BY <1>2, <1>3, Knots
  <2>2. d \in Tree
    BY <2>1 DEF Knot
  <2> HIDE DEF d
  <2>3. Knot(Grafted(Higher(m, h), 1, d), h, km, d, rm)
    BY <1>3, <2>2, Knots
  <2> QED BY <1>1, <2>1, <2>3 DEF d
<1> QED BY <1>4, <1>5

\* n has the keys of l and of r, maps a key as k says, and takes no other nodes.
Joins(n, l, k, r) ==
  /\ Keys[n] = Keys[l] \cup Keys[r]
  /\ \A j \in Key : Find[n][j] = IF j < k THEN Find[l][j] ELSE Find[r][j]
  /\ Uses[n] \subseteq Uses[l] \cup Uses[r]

\* A rotation to the left leaves keys, values and order as they are.
LEMMA RotateLeft ==
    ASSUME NEW n, NEW h, NEW k, NEW l, NEW r, Knot(n, h, k, l, r),
           NEW m, NEW hm, NEW km, NEW lm, NEW rm, Knot(m, hm, km, lm, rm),
           Apart(lm, km, rm), Apart(m, k, r)
    PROVE  \E d : /\ Knot(d, h - 1, k, rm, r) /\ Knot(Rotate(n, m, 1), h, km, lm, d)
                  /\ Apart(rm, k, r) /\ Apart(lm, km, d)
                  /\ Joins(Rotate(n, m, 1), m, k, r)
<1>1. PICK d : Knot(d, h - 1, k, rm, r) /\ Knot(Rotate(n, m, 1), h, km, lm, d)
  BY RotateShape
<1> DEFINE p == Rotate(n, m, 1)
<1> HIDE DEF p
<1>2. /\ Keys[m] = Keys[lm] \cup Keys[rm]
      /\ \A j \in Key : Find[m][j] = IF j < km THEN Find[lm][j] ELSE Find[rm][j]
      /\ Uses[m] = Uses[lm] \cup Uses[rm]
  BY KnotKeys, KnotFind
<1>3. /\ Keys[d] = Keys[rm] \cup Keys[r]
      /\ \A j \in Key : Find[d][j] = IF j < k THEN Find[rm][j] ELSE Find[r][j]
      /\ Uses[d] = Uses[rm] \cup Uses[r]
  BY <1>1, KnotKeys, KnotFind
<1>4. /\ Keys[p] = Keys[lm] \cup Keys[d]
      /\ \A j \in Key : Find[p][j] = IF j < km THEN Find[lm][j] ELSE Find[d][j]
      /\ Uses[p] = Uses[lm] \cup Uses[d]
  BY <1>1, KnotKeys, KnotFind DEF p
<1>5. /\ k \in Int /\ km \in Int /\ Key \subseteq Int
      /\ Keys[lm] \subseteq Int /\ Keys[rm] \subseteq Int /\ Keys[r] \subseteq Int
  BY AvlAssumption, KeysDef DEF Knot
<1>6. km < k
  BY <1>2, <1>5 DEF Apart
<1>7. Apart(rm, k, r)
  BY <1>2 DEF Apart
<1>8. Apart(lm, km, d)
  BY <1>3, <1>5, <1>6 DEF Apart
<1>9. \A j \in Key : Find[p][j] = IF j < k THEN Find[m][j] ELSE Find[r][j]
  <2>1. ASSUME NEW j \in Key
        PROVE  (IF j < km THEN Find[lm][j] ELSE Find[d][j])
                = (IF j < k THEN Find[m][j] ELSE Find[r][j])
    BY <1>2, <1>3, <1>5, <1>6
  <2> QED BY <1>4, <2>1
<1>10. Joins(p, m, k, r)
  BY <1>2, <1>3, <1>4, <1>9 DEF Joins
<1> QED BY <1>1, <1>7, <1>8, <1>10 DEF p

\* And so does a rotation to the right.
LEMMA RotateRight ==
    ASSUME NEW n, NEW h, NEW k, NEW l, NEW r, Knot(n, h, k, l, r),
           NEW m, NEW hm, NEW km, NEW lm, NEW rm, Knot(m, hm, km, lm, rm),
           Apart(lm, km, rm), Apart(l, k, m)
    PROVE  \E d : /\ Knot(d, h - 1, k, l, lm) /\ Knot(Rotate(n, m, 2), h, km, d, rm)
                  /\ Apart(l, k, lm) /\ Apart(d, km, rm)
                  /\ Joins(Rotate(n, m, 2), l, k, m)
<1>1. PICK d : Knot(d, h - 1, k, l, lm) /\ Knot(Rotate(n, m, 2), h, km, d, rm)
  BY RotateShape
<1> DEFINE p == Rotate(n, m, 2)
<1> HIDE DEF p
<1>2. /\ Keys[m] = Keys[lm] \cup Keys[rm]
      /\ \A j \in Key : Find[m][j] = IF j < km THEN Find[lm][j] ELSE Find[rm][j]
      /\ Uses[m] = Uses[lm] \cup Uses[rm]
  BY KnotKeys, KnotFind
<1>3. /\ Keys[d] = Keys[l] \cup Keys[lm]
      /\ \A j \in Key : Find[d][j] = IF j < k THEN Find[l][j] ELSE Find[lm][j]
      /\ Uses[d] = Uses[l] \cup Uses[lm]
  BY <1>1, KnotKeys, KnotFind
<1>4. /\ Keys[p] = Keys[d] \cup Keys[rm]
      /\ \A j \in Key : Find[p][j] = IF j < km THEN Find[d][j] ELSE Find[rm][j]
      /\ Uses[p] = Uses[d] \cup Uses[rm]
  BY <1>1, KnotKeys, KnotFind DEF p
<1>5. /\ k \in Int /\ km \in Int /\ Key \subseteq Int
      /\ Keys[lm] \subseteq Int /\ Keys[rm] \subseteq Int /\ Keys[l] \subseteq Int
  BY AvlAssumption, KeysDef DEF Knot
<1>6. k < km
  BY <1>2, <1>5 DEF Apart
<1>7. Apart(l, k, lm)
  BY <1>2 DEF Apart
<1>8. Apart(d, km, rm)
  BY <1>3, <1>5, <1>6 DEF Apart
<1>9. \A j \in Key : Find[p][j] = IF j < k THEN Find[l][j] ELSE Find[m][j]
  <2>1. ASSUME NEW j \in Key
        PROVE  (IF j < km THEN Find[d][j] ELSE Find[rm][j])
                = (IF j < k THEN Find[l][j] ELSE Find[m][j])
    BY <1>2, <1>3, <1>5, <1>6
  <2> QED BY <1>4, <2>1
<1>10. Joins(p, l, k, m)
  BY <1>2, <1>3, <1>4, <1>9 DEF Joins
<1> QED BY <1>1, <1>7, <1>8, <1>10 DEF p

\* The node of a sound branch, and its children.
LEMMA SoundBranch ==
    ASSUME NEW x \in Tree, Sound[x], Deref(x).t = "branch"
    PROVE  LET n == Deref(x) IN
           /\ Knot(n, n.h, n.k, n.c[1], n.c[2]) /\ Height(x) = n.h
           /\ Apart(n.c[1], n.k, n.c[2]) /\ Sound[n.c[1]] /\ Sound[n.c[2]]
           /\ Height(n.c[1]) \in 1 .. n.h - 1 /\ Height(n.c[2]) \in 1 .. n.h - 1
<1> DEFINE n == Deref(x)
<1>1. n \in Tree /\ n.t = "branch" /\ Sound[n] /\ Height(x) = Height(n)
  BY TreeKinds, SeenThrough
<1> HIDE DEF n
<1>2. Knot(n, n.h, n.k, n.c[1], n.c[2])
  BY <1>1, Knots
<1>3. n.h \in Int /\ Height(n) = n.h
  BY <1>2, KnotParts, KnotKeys
<1>4. /\ Apart(n.c[1], n.k, n.c[2]) /\ Sound[n.c[1]] /\ Sound[n.c[2]]
      /\ Height(n.c[1]) \in 1 .. n.h - 1 /\ Height(n.c[2]) \in 1 .. n.h - 1
  BY <1>1, <1>2, KnotSound
<1> QED BY <1>1, <1>2, <1>3, <1>4 DEF n

\* A sound tree's height tells what its node is, and only the empty one has no keys.
LEMMA Heights ==
    ASSUME NEW x \in Tree, Sound[x]
    PROVE  /\ Height(x) \in Nat
           /\ Height(x) = 0 <=> Deref(x) = Empty
           /\ Height(x) >= 2 <=> Branches(x)
           /\ Keys[x] = {} <=> Deref(x) = Empty
<1>1. CASE Deref(x).t = "branch"
  <2> DEFINE n == Deref(x)
  <2>1. /\ Knot(n, n.h, n.k, n.c[1], n.c[2]) /\ Height(x) = n.h
        /\ Apart(n.c[1], n.k, n.c[2]) /\ Height(n.c[1]) \in 1 .. n.h - 1
    BY <1>1, SoundBranch
  <2>2. Keys[x] = Keys[n]
    BY SeenThrough
  <2>3. n # Empty /\ Branches(x)
    BY <1>1 DEF Empty, Branches
  <2> HIDE DEF n
  <2>4. Keys[n] # {} /\ n.h \in Int
    <3>1. Keys[n.c[1]] # {}
      BY <2>1 DEF Apart
    <3> QED BY <2>1, <3>1, KnotKeys, KnotParts
  <2> QED BY <2>1, <2>2, <2>3, <2>4 DEF n
<1>2. CASE Deref(x).t = "leaf"
  <2>1. Height(x) = 1 /\ Keys[x] # {} /\ ~Branches(x) /\ Deref(x) # Empty
    BY <1>2, KeysDef DEF Height, Branches, Empty
  <2> QED BY <2>1
<1>3. CASE Deref(x).t = "empty"
  <2>1. Height(x) = 0 /\ Keys[x] = {} /\ ~Branches(x) /\ Deref(x) = Empty
    BY <1>3, KeysDef, TreeKinds DEF Height, Branches
  <2> QED BY <2>1
<1> QED BY <1>1, <1>2, <1>3, TreeKinds

\* When the first child is two higher than the other: the branches that the
\* rotations take apart are there, the result is sound and no higher than n was,
\* and it is even if the children were.
LEMMA SuccessorLeft ==
    ASSUME NEW n, NEW h, NEW k, NEW l, NEW r, Knot(n, h, k, l, r),
           Apart(l, k, r), Sound[l], Sound[r],
           Height(l) = Height(r) + 2, Height(r) >= 1, Height(l) <= h,
           Height(l) = h => Height(Child(l, 1)) # Height(Child(l, 2))
    PROVE  LET p == RotateSuccessor(n, 1) IN
           /\ p \in Tree /\ p.t = "branch" /\ Sound[p] /\ Height(p) = h
           /\ Joins(p, l, k, r)
           /\ Even[l] /\ Even[r] /\ Height(l) = h => Even[p]
<1> DEFINE m == Deref(l)
           hm == m.h
           km == m.k
           lm == m.c[1]
           rm == m.c[2]
           p == RotateSuccessor(n, 1)
<1>1. n.c[1] = l /\ n.c[2] = r /\ l \in Tree /\ r \in Tree /\ h \in Int
  BY KnotParts
<1>2. m \in Tree /\ m.t = "branch" /\ Height(r) \in Nat
  BY <1>1, Heights, TreeKinds DEF Branches
<1>3. Knot(m, hm, km, lm, rm)
  BY <1>2, Knots
<1>4. /\ Keys[l] = Keys[m] /\ Find[l] = Find[m] /\ Sound[m] /\ Height(l) = Height(m)
      /\ Uses[m] \subseteq Uses[l] /\ (Even[l] => Even[m])
  BY <1>1, SeenThrough
<1>5. Child(l, 1) = lm /\ Child(l, 2) = rm
  BY DEF Child
<1>6. p = IF Height(lm) < Height(rm) THEN Rotate(n, Rotate(m, Deref(rm), 2), 1)
          ELSE Rotate(n, m, 1)
  <2>1. Other(1) = 2
    BY DEF Other
  <2> QED BY <1>1, <2>1 DEF RotateSuccessor
<1> HIDE DEF m, hm, km, lm, rm, p
<1>7. /\ Height(m) = hm /\ hm \in Int /\ Sound[lm] /\ Sound[rm] /\ Apart(lm, km, rm)
      /\ Height(lm) \in 1 .. hm - 1 /\ Height(rm) \in 1 .. hm - 1
  BY <1>3, <1>4, KnotParts, KnotKeys, KnotSound
<1>8. Even[m] => Levelled(hm, Height(lm), Height(rm)) /\ Even[lm] /\ Even[rm]
  BY <1>3, <1>7, KnotEven
<1>9. Apart(m, k, r)
  BY <1>4 DEF Apart
<1>10. CASE ~(Height(lm) < Height(rm))
  <2>1. p = Rotate(n, m, 1)
    BY <1>6, <1>10
  <2>2. PICK d : /\ Knot(d, h - 1, k, rm, r) /\ Knot(p, h, km, lm, d)
                 /\ Apart(rm, k, r) /\ Apart(lm, km, d)
                 /\ Joins(p, m, k, r)
    BY <1>3, <1>7, <1>9, <2>1, RotateLeft
  <2>3. /\ Height(rm) \in 1 .. (h - 1) - 1 /\ Height(r) \in 1 .. (h - 1) - 1
        /\ Height(lm) \in 1 .. h - 1 /\ h - 1 \in 1 .. h - 1
    BY <1>1, <1>2, <1>4, <1>5, <1>7, <1>10
  <2>4. Sound[d] /\ Height(d) = h - 1
    BY <1>7, <2>2, <2>3, KnotSound, KnotKeys
  <2>5. Sound[p] /\ Height(p) = h
    BY <1>7, <2>2, <2>3, <2>4, KnotSound, KnotKeys
  <2>6. p \in Tree /\ p.t = "branch"
    BY <2>2, KnotParts
  <2>7. ASSUME Even[l], Even[r], Height(l) = h PROVE Even[p]
    <3>1. /\ Height(lm) = h - 1 /\ Height(rm) = h - 2 /\ Height(r) = h - 2
          /\ Even[lm] /\ Even[rm]
      BY <1>1, <1>2, <1>4, <1>5, <1>7, <1>8, <1>10, <2>7 DEF Levelled
    <3>2. Levelled(h - 1, Height(rm), Height(r)) /\ Levelled(h - 1, Height(r), Height(rm))
      BY <1>1, <3>1 DEF Levelled
    <3>3. Levelled(h, Height(lm), Height(d)) /\ Levelled(h, Height(d), Height(lm))
      BY <1>1, <2>4, <3>1 DEF Levelled
    <3>4. Height(l) \in Int /\ Height(r) \in Int /\ Height(lm) \in Int /\ Height(rm) \in Int /\ Height(d) \in Int
      BY <1>1, <2>4, <3>1, <2>7
    <3>5. Even[d]
      BY <2>2, <2>7, <3>1, <3>2, <3>4, KnotEven
    <3> QED BY <2>2, <3>1, <3>3, <3>4, <3>5, KnotEven
  <2>8. Joins(p, l, k, r)
    BY <1>4, <2>2 DEF Joins
  <2> QED BY <2>5, <2>6, <2>7, <2>8 DEF p
<1>11. CASE Height(lm) < Height(rm)
  <2> DEFINE q == Deref(rm)
             hq == q.h
             kq == q.k
             lq == q.c[1]
             rq == q.c[2]
             m1 == Rotate(m, q, 2)
  <2>1. p = Rotate(n, m1, 1)
    BY <1>6, <1>11
  <2>2. lm \in Tree /\ rm \in Tree /\ Height(rm) >= 2
    BY <1>3, <1>7, <1>11, KnotParts
  <2>3. q \in Tree /\ q.t = "branch"
    BY <1>7, <2>2, Heights, TreeKinds DEF Branches
  <2>4. Knot(q, hq, kq, lq, rq)
    BY <2>3, Knots
  <2>5. /\ Keys[rm] = Keys[q] /\ Find[rm] = Find[q] /\ Sound[q] /\ Height(rm) = Height(q)
        /\ Uses[q] \subseteq Uses[rm] /\ (Even[rm] => Even[q])
    BY <1>7, <2>2, SeenThrough
  <2> HIDE DEF q, hq, kq, lq, rq, m1
  <2>6. /\ Height(q) = hq /\ hq \in Int /\ Sound[lq] /\ Sound[rq] /\ Apart(lq, kq, rq)
        /\ Height(lq) \in 1 .. hq - 1 /\ Height(rq) \in 1 .. hq - 1
    BY <2>4, <2>5, KnotParts, KnotKeys, KnotSound
  <2>7. Even[q] => Levelled(hq, Height(lq), Height(rq)) /\ Even[lq] /\ Even[rq]
    BY <2>4, <2>6, KnotEven
  <2>8. Apart(lm, km, q)
    BY <1>7, <2>5 DEF Apart
  <2>9. PICK d1 : /\ Knot(d1, hm - 1, km, lm, lq) /\ Knot(m1, hm, kq, d1, rq)
                  /\ Apart(lm, km, lq) /\ Apart(d1, kq, rq)
                  /\ Joins(m1, lm, km, q)
    BY <1>3, <2>4, <2>6, <2>8, RotateRight DEF m1
  <2>10. Keys[m1] = Keys[m] /\ Uses[m1] \subseteq Uses[m] /\ \A x \in Key : Find[m1][x] = Find[m][x]
    <3>1. Keys[m] = Keys[lm] \cup Keys[rm] /\ Uses[m] = Uses[lm] \cup Uses[rm]
      BY <1>3, KnotKeys
    <3>2. \A x \in Key : Find[m][x] = IF x < km THEN Find[lm][x] ELSE Find[rm][x]
      BY <1>3, KnotFind
    <3> QED BY <2>5, <2>9, <3>1, <3>2 DEF Joins
  <2>11. Apart(m1, k, r)
    BY <1>9, <2>10 DEF Apart
  <2>12. PICK d : /\ Knot(d, h - 1, k, rq, r) /\ Knot(p, h, kq, d1, d)
                  /\ Apart(rq, k, r) /\ Apart(d1, kq, d)
                  /\ Joins(p, m1, k, r)
    BY <2>1, <2>9, <2>11, RotateLeft
  <2>13. /\ Height(lm) \in 1 .. (hm - 1) - 1 /\ Height(lq) \in 1 .. (hm - 1) - 1
         /\ Height(rq) \in 1 .. (h - 1) - 1 /\ Height(r) \in 1 .. (h - 1) - 1
         /\ hm - 1 \in 1 .. h - 1 /\ h - 1 \in 1 .. h - 1
    BY <1>1, <1>2, <1>4, <1>7, <1>11, <2>5, <2>6
  <2>14. Sound[d1] /\ Height(d1) = hm - 1
    BY <1>7, <2>6, <2>9, <2>13, KnotSound, KnotKeys
  <2>15. Sound[d] /\ Height(d) = h - 1
    BY <2>6, <2>12, <2>13, KnotSound, KnotKeys
  <2>16. Sound[p] /\ Height(p) = h
    BY <2>12, <2>13, <2>14, <2>15, KnotSound, KnotKeys
  <2>17. p \in Tree /\ p.t = "branch"
    BY <2>12, KnotParts
  <2>18. ASSUME Even[l], Even[r], Height(l) = h PROVE Even[p]
    <3>1. /\ Height(lm) = h - 2 /\ Height(r) = h - 2 /\ hq = h - 1 /\ hm = h
          /\ Even[lm] /\ Even[rm] /\ Even[lq] /\ Even[rq]
          /\ Height(lq) \in h - 3 .. h - 2 /\ Height(rq) \in h - 3 .. h - 2
      <4>1. hm = h /\ Height(r) = h - 2
        BY <1>1, <1>2, <1>4, <1>7, <2>18
      <4>2. /\ Height(lm) = h - 2 /\ Height(rm) = h - 1 /\ Even[lm] /\ Even[rm]
        BY <1>1, <1>4, <1>7, <1>8, <1>11, <2>18, <4>1 DEF Levelled
      <4>3. hq = h - 1 /\ Even[q]
        BY <2>5, <2>6, <4>2
      <4>4. Levelled(hq, Height(lq), Height(rq)) /\ Even[lq] /\ Even[rq]
        BY <2>7, <4>3
      <4>5. Height(lq) \in h - 3 .. h - 2 /\ Height(rq) \in h - 3 .. h - 2
        BY <1>1, <2>6, <4>3, <4>4 DEF Levelled
      <4> QED BY <4>1, <4>2, <4>3, <4>4, <4>5
    <3>2. /\ Levelled(hm - 1, Height(lm), Height(lq)) /\ Levelled(hm - 1, Height(lq), Height(lm))
          /\ Levelled(h - 1, Height(rq), Height(r)) /\ Levelled(h - 1, Height(r), Height(rq))
      BY <1>1, <3>1 DEF Levelled
    <3>3. Levelled(h, Height(d1), Height(d)) /\ Levelled(h, Height(d), Height(d1))
      BY <1>1, <2>14, <2>15, <3>1 DEF Levelled
    <3>4. /\ Height(l) \in Int /\ Height(r) \in Int /\ Height(lm) \in Int /\ Height(rm) \in Int
          /\ Height(lq) \in Int /\ Height(rq) \in Int /\ Height(d) \in Int /\ Height(d1) \in Int
      BY <1>1, <1>7, <2>6, <2>14, <2>15, <2>18, <3>1
    <3>5. Even[d1]
      BY <2>9, <3>1, <3>2, <3>4, KnotEven
    <3>6. Even[d]
      BY <2>12, <2>18, <3>1, <3>2, <3>4, KnotEven
    <3> QED BY <2>12, <3>3, <3>4, <3>5, <3>6, KnotEven
  <2>19. Joins(p, l, k, r)
    BY <1>4, <2>10, <2>12 DEF Joins
  <2> QED BY <2>16, <2>17, <2>18, <2>19 DEF p
<1> QED BY <1>10, <1>11

\* When the second child is two higher than the other: the branches that the
\* rotations take apart are there, the result is sound and no higher than n was,
\* and it is even if the children were.
LEMMA SuccessorRight ==
    ASSUME NEW n, NEW h, NEW k, NEW l, NEW r, Knot(n, h, k, l, r),
           Apart(l, k, r), Sound[l], Sound[r],
           Height(r) = Height(l) + 2, Height(l) >= 1, Height(r) <= h,
           Height(r) = h => Height(Child(r, 1)) # Height(Child(r, 2))
    PROVE  LET p == RotateSuccessor(n, 2) IN
           /\ p \in Tree /\ p.t = "branch" /\ Sound[p] /\ Height(p) = h
           /\ Joins(p, l, k, r)
           /\ Even[l] /\ Even[r] /\ Height(r) = h => Even[p]
<1> DEFINE m == Deref(r)
           hm == m.h
           km == m.k
           lm == m.c[1]
           rm == m.c[2]
           p == RotateSuccessor(n, 2)
<1>1. n.c[1] = l /\ n.c[2] = r /\ l \in Tree /\ r \in Tree /\ h \in Int
  BY KnotParts
<1>2. m \in Tree /\ m.t = "branch" /\ Height(l) \in Nat
  BY <1>1, Heights, TreeKinds DEF Branches
<1>3. Knot(m, hm, km, lm, rm)
  BY <1>2, Knots
<1>4. /\ Keys[r] = Keys[m] /\ Find[r] = Find[m] /\ Sound[m] /\ Height(r) = Height(m)
      /\ Uses[m] \subseteq Uses[r] /\ (Even[r] => Even[m])
  BY <1>1, SeenThrough
<1>5. Child(r, 1) = lm /\ Child(r, 2) = rm
  BY DEF Child
<1>6. p = IF Height(rm) < Height(lm) THEN Rotate(n, Rotate(m, Deref(lm), 1), 2)
          ELSE Rotate(n, m, 2)
  <2>1. Other(2) = 1
    BY DEF Other
  <2> QED BY <1>1, <2>1 DEF RotateSuccessor
<1> HIDE DEF m, hm, km, lm, rm, p
<1>7. /\ Height(m) = hm /\ hm \in Int /\ Sound[lm] /\ Sound[rm] /\ Apart(lm, km, rm)
      /\ Height(lm) \in 1 .. hm - 1 /\ Height(rm) \in 1 .. hm - 1
  BY <1>3, <1>4, KnotParts, KnotKeys, KnotSound
<1>8. Even[m] => Levelled(hm, Height(lm), Height(rm)) /\ Even[lm] /\ Even[rm]
  BY <1>3, <1>7, KnotEven
<1>9. Apart(l, k, m)
  BY <1>4 DEF Apart
<1>10. CASE ~(Height(rm) < Height(lm))
  <2>1. p = Rotate(n, m, 2)
    BY <1>6, <1>10
  <2>2. PICK d : /\ Knot(d, h - 1, k, l, lm) /\ Knot(p, h, km, d, rm)
                 /\ Apart(l, k, lm) /\ Apart(d, km, rm)
                 /\ Joins(p, l, k, m)
    BY <1>3, <1>7, <1>9, <2>1, RotateRight
  <2>3. /\ Height(lm) \in 1 .. (h - 1) - 1 /\ Height(l) \in 1 .. (h - 1) - 1
        /\ Height(rm) \in 1 .. h - 1 /\ h - 1 \in 1 .. h - 1
    BY <1>1, <1>2, <1>4, <1>5, <1>7, <1>10
  <2>4. Sound[d] /\ Height(d) = h - 1
    BY <1>7, <2>2, <2>3, KnotSound, KnotKeys
  <2>5. Sound[p] /\ Height(p) = h
    BY <1>7, <2>2, <2>3, <2>4, KnotSound, KnotKeys
  <2>6. p \in Tree /\ p.t = "branch"
    BY <2>2, KnotParts
  <2>7. ASSUME Even[l], Even[r], Height(r) = h PROVE Even[p]
    <3>1. /\ Height(rm) = h - 1 /\ Height(lm) = h - 2 /\ Height(l) = h - 2
          /\ Even[lm] /\ Even[rm]
      BY <1>1, <1>2, <1>4, <1>5, <1>7, <1>8, <1>10, <2>7 DEF Levelled
    <3>2. Levelled(h - 1, Height(lm), Height(l)) /\ Levelled(h - 1, Height(l), Height(lm))
      BY <1>1, <3>1 DEF Levelled
    <3>3. Levelled(h, Height(rm), Height(d)) /\ Levelled(h, Height(d), Height(rm))
      BY <1>1, <2>4, <3>1 DEF Levelled
    <3>4. Height(l) \in Int /\ Height(r) \in Int /\ Height(lm) \in Int /\ Height(rm) \in Int /\ Height(d) \in Int
      BY <1>1, <2>4, <3>1, <2>7
    <3>5. Even[d]
      BY <2>2, <2>7, <3>1, <3>2, <3>4, KnotEven
    <3> QED BY <2>2, <3>1, <3>3, <3>4, <3>5, KnotEven
  <2>8. Joins(p, l, k, r)
    BY <1>4, <2>2 DEF Joins
  <2> QED BY <2>5, <2>6, <2>7, <2>8 DEF p
<1>11. CASE Height(rm) < Height(lm)
  <2> DEFINE q == Deref(lm)
             hq == q.h
             kq == q.k
             lq == q.c[1]
             rq == q.c[2]
             m1 == Rotate(m, q, 1)
  <2>1. p = Rotate(n, m1, 2)
    BY <1>6, <1>11
  <2>2. lm \in Tree /\ rm \in Tree /\ Height(lm) >= 2
    BY <1>3, <1>7, <1>11, KnotParts
  <2>3. q \in Tree /\ q.t = "branch"
    BY <1>7, <2>2, Heights, TreeKinds DEF Branches
  <2>4. Knot(q, hq, kq, lq, rq)
    BY <2>3, Knots
  <2>5. /\ Keys[lm] = Keys[q] /\ Find[lm] = Find[q] /\ Sound[q] /\ Height(lm) = Height(q)
        /\ Uses[q] \subseteq Uses[lm] /\ (Even[lm] => Even[q])
    BY <1>7, <2>2, SeenThrough
  <2> HIDE DEF q, hq, kq, lq, rq, m1
  <2>6. /\ Height(q) = hq /\ hq \in Int /\ Sound[lq] /\ Sound[rq] /\ Apart(lq, kq, rq)
        /\ Height(lq) \in 1 .. hq - 1 /\ Height(rq) \in 1 .. hq - 1
    BY <2>4, <2>5, KnotParts, KnotKeys, KnotSound
  <2>7. Even[q] => Levelled(hq, Height(lq), Height(rq)) /\ Even[lq] /\ Even[rq]
    BY <2>4, <2>6, KnotEven
  <2>8. Apart(q, km, rm)
    BY <1>7, <2>5 DEF Apart
  <2>9. PICK d1 : /\ Knot(d1, hm - 1, km, rq, rm) /\ Knot(m1, hm, kq, lq, d1)
                  /\ Apart(rq, km, rm) /\ Apart(lq, kq, d1)
                  /\ Joins(m1, q, km, rm)
    BY <1>3, <2>4, <2>6, <2>8, RotateLeft DEF m1
  <2>10. Keys[m1] = Keys[m] /\ Uses[m1] \subseteq Uses[m] /\ \A x \in Key : Find[m1][x] = Find[m][x]
    <3>1. Keys[m] = Keys[lm] \cup Keys[rm] /\ Uses[m] = Uses[lm] \cup Uses[rm]
      BY <1>3, KnotKeys
    <3>2. \A x \in Key : Find[m][x] = IF x < km THEN Find[lm][x] ELSE Find[rm][x]
      BY <1>3, KnotFind
    <3> QED BY <2>5, <2>9, <3>1, <3>2 DEF Joins
  <2>11. Apart(l, k, m1)
    BY <1>9, <2>10 DEF Apart
  <2>12. PICK d : /\ Knot(d, h - 1, k, l, lq) /\ Knot(p, h, kq, d, d1)
                  /\ Apart(l, k, lq) /\ Apart(d, kq, d1)
                  /\ Joins(p, l, k, m1)
    BY <2>1, <2>9, <2>11, RotateRight
  <2>13. /\ Height(rm) \in 1 .. (hm - 1) - 1 /\ Height(rq) \in 1 .. (hm - 1) - 1
         /\ Height(lq) \in 1 .. (h - 1) - 1 /\ Height(l) \in 1 .. (h - 1) - 1
         /\ hm - 1 \in 1 .. h - 1 /\ h - 1 \in 1 .. h - 1
    BY <1>1, <1>2, <1>4, <1>7, <1>11, <2>5, <2>6
  <2>14. Sound[d1] /\ Height(d1) = hm - 1
    BY <1>7, <2>6, <2>9, <2>13, KnotSound, KnotKeys
  <2>15. Sound[d] /\ Height(d) = h - 1
    BY <2>6, <2>12, <2>13, KnotSound, KnotKeys
  <2>16. Sound[p] /\ Height(p) = h
    BY <2>12, <2>13, <2>14, <2>15, KnotSound, KnotKeys
  <2>17. p \in Tree /\ p.t = "branch"
    BY <2>12, KnotParts
  <2>18. ASSUME Even[l], Even[r], Height(r) = h PROVE Even[p]
    <3>1. /\ Height(rm) = h - 2 /\ Height(l) = h - 2 /\ hq = h - 1 /\ hm = h
          /\ Even[lm] /\ Even[rm] /\ Even[lq] /\ Even[rq]
          /\ Height(lq) \in h - 3 .. h - 2 /\ Height(rq) \in h - 3 .. h - 2
      <4>1. hm = h /\ Height(l) = h - 2
        BY <1>1, <1>2, <1>4, <1>7, <2>18
      <4>2. /\ Height(rm) = h - 2 /\ Height(lm) = h - 1 /\ Even[lm] /\ Even[rm]
        BY <1>1, <1>4, <1>7, <1>8, <1>11, <2>18, <4>1 DEF Levelled
      <4>3. hq = h - 1 /\ Even[q]
        BY <2>5, <2>6, <4>2
      <4>4. Levelled(hq, Height(lq), Height(rq)) /\ Even[lq] /\ Even[rq]
        BY <2>7, <4>3
      <4>5. Height(lq) \in h - 3 .. h - 2 /\ Height(rq) \in h - 3 .. h - 2
        BY <1>1, <2>6, <4>3, <4>4 DEF Levelled
      <4> QED BY <4>1, <4>2, <4>3, <4>4, <4>5
    <3>2. /\ Levelled(hm - 1, Height(rm), Height(rq)) /\ Levelled(hm - 1, Height(rq), Height(rm))
          /\ Levelled(h - 1, Height(lq), Height(l)) /\ Levelled(h - 1, Height(l), Height(lq))
      BY <1>1, <3>1 DEF Levelled
    <3>3. Levelled(h, Height(d1), Height(d)) /\ Levelled(h, Height(d), Height(d1))
      BY <1>1, <2>14, <2>15, <3>1 DEF Levelled
    <3>4. /\ Height(l) \in Int /\ Height(r) \in Int /\ Height(lm) \in Int /\ Height(rm) \in Int
          /\ Height(lq) \in Int /\ Height(rq) \in Int /\ Height(d) \in Int /\ Height(d1) \in Int
      BY <1>1, <1>7, <2>6, <2>14, <2>15, <2>18, <3>1
    <3>5. Even[d1]
      BY <2>9, <3>1, <3>2, <3>4, KnotEven
    <3>6. Even[d]
      BY <2>12, <2>18, <3>1, <3>2, <3>4, KnotEven
    <3> QED BY <2>12, <3>3, <3>4, <3>5, <3>6, KnotEven
  <2>19. Joins(p, l, k, r)
    BY <1>4, <2>10, <2>12 DEF Joins
  <2> QED BY <2>16, <2>17, <2>18, <2>19 DEF p
<1> QED BY <1>10, <1>11

\* A child that is as high as its parent has one child higher than the other, unless
\* it is too low for that to matter.
Fits(c, h) == Height(c) = h /\ h >= 3 => Height(Child(c, 1)) # Height(Child(c, 2))

\* Balancing a branch that has changed makes it sound; it is one higher than it was
\* only if a child is now as high as it was, and it is even if its children are and
\* the rotation was due to a child that has grown.
LEMMA RebalancedBranch ==
    ASSUME NEW n, NEW h, NEW k, NEW l, NEW r, Knot(n, h, k, l, r),
           Apart(l, k, r), Sound[l], Sound[r],
           Height(l) \in 1 .. h, Height(r) \in 1 .. h, Fits(l, h), Fits(r, h)
    PROVE  LET p == Rebalanced(n)
               d == Height(l) - Height(r)
           IN
           /\ p \in Tree /\ p.t = "branch" /\ Sound[p] /\ Joins(p, l, k, r)
           /\ Height(p) \in Nat
           /\ \/ d \in {-2, 2} /\ Height(p) = h
              \/ /\ Child(p, 1) = l /\ Child(p, 2) = r
                 /\ Height(p) = Height(l) + 1 \/ Height(p) = Height(r) + 1
                 /\ Height(p) > Height(l) /\ Height(p) > Height(r)
                 /\ d \notin {-2, 2}
           /\ /\ Even[l] /\ Even[r] /\ d \in -2 .. 2
              /\ d = 2 => Height(l) = h
              /\ d = -2 => Height(r) = h
              => Even[p]
<1> DEFINE p == Rebalanced(n)
           lh == Height(l)
           rh == Height(r)
           g == (IF lh > rh THEN lh ELSE rh) + 1
<1>1. lh \in Int /\ rh \in Int /\ h \in Int /\ lh >= 1 /\ rh >= 1 /\ lh <= h /\ rh <= h
  BY KnotParts
<1>2. p = CASE lh = 2 + rh -> RotateSuccessor(n, 1)
            [] rh = 2 + lh -> RotateSuccessor(n, 2)
            [] OTHER -> Higher(n, g)
  <2>1. n.t = "branch" /\ n.c[1] = l /\ n.c[2] = r
    BY KnotParts
  <2> QED BY <2>1 DEF Rebalanced, Higher
<1>3. g \in Int /\ (g = lh + 1 \/ g = rh + 1) /\ g > lh /\ g > rh
  BY <1>1
<1> HIDE DEF p, g
<1>4. CASE lh = 2 + rh
  <2>1. p = RotateSuccessor(n, 1)
    BY <1>1, <1>2, <1>4
  <2>2. Height(l) = Height(r) + 2 /\ Height(r) >= 1 /\ Height(l) <= h
    BY <1>1, <1>4
  <2>3. Height(l) = h => Height(Child(l, 1)) # Height(Child(l, 2))
    BY <1>1, <1>4 DEF Fits
  <2>4. /\ p \in Tree /\ p.t = "branch" /\ Sound[p] /\ Height(p) = h
        /\ Joins(p, l, k, r)
        /\ Even[l] /\ Even[r] /\ Height(l) = h => Even[p]
    BY <2>1, <2>2, <2>3, SuccessorLeft
  <2>5. lh - rh = 2
    BY <1>1, <1>4
  <2> QED BY <1>1, <2>4, <2>5 DEF p
<1>5. CASE rh = 2 + lh
  <2>1. p = RotateSuccessor(n, 2)
    BY <1>1, <1>2, <1>5
  <2>2. Height(r) = Height(l) + 2 /\ Height(l) >= 1 /\ Height(r) <= h
    BY <1>1, <1>5
  <2>3. Height(r) = h => Height(Child(r, 1)) # Height(Child(r, 2))
    BY <1>1, <1>5 DEF Fits
  <2>4. /\ p \in Tree /\ p.t = "branch" /\ Sound[p] /\ Height(p) = h
        /\ Joins(p, l, k, r)
        /\ Even[l] /\ Even[r] /\ Height(r) = h => Even[p]
    BY <2>1, <2>2, <2>3, SuccessorRight
  <2>5. lh - rh = -2
    BY <1>1, <1>5
  <2> QED BY <1>1, <2>4, <2>5 DEF p
<1>6. CASE lh # 2 + rh /\ rh # 2 + lh
  <2>1. p = Higher(n, g)
    BY <1>2, <1>6
  <2>2. Knot(p, g, k, l, r)
    BY <1>3, <2>1, Knots
  <2>3. p \in Tree /\ p.t = "branch" /\ Child(p, 1) = l /\ Child(p, 2) = r
    BY <2>2, KnotParts
  <2>4. Height(p) = g /\ Keys[p] = Keys[l] \cup Keys[r] /\ Uses[p] = Uses[l] \cup Uses[r]
    BY <2>2, KnotKeys
  <2>5. \A j \in Key : Find[p][j] = IF j < k THEN Find[l][j] ELSE Find[r][j]
    BY <2>2, KnotFind
  <2>6. Joins(p, l, k, r)
    BY <2>4, <2>5 DEF Joins
  <2>7. Height(l) \in 1 .. g - 1 /\ Height(r) \in 1 .. g - 1
    BY <1>1, <1>3
  <2>8. Sound[p]
    BY <2>2, <2>7, KnotSound
  <2>9. lh - rh \notin {-2, 2}
    BY <1>1, <1>6
  <2>10. ASSUME Even[l], Even[r], lh - rh \in -2 .. 2 PROVE Even[p]
    <3>1. Levelled(g, Height(l), Height(r))
      BY <1>1, <1>3, <1>6, <2>10 DEF Levelled
    <3>2. Height(l) \in Int /\ Height(r) \in Int
      BY <1>1
    <3> QED BY <2>2, <2>10, <3>1, <3>2, KnotEven
  <2> QED BY <1>1, <1>3, <2>3, <2>4, <2>6, <2>8, <2>9, <2>10 DEF p
<1> QED BY <1>4, <1>5, <1>6

-----------------------------------------------------------------------------
(* Inserting and removing.                                                    *)

\* What either call makes of a handle, when at tells what it makes of the children.
Inspected(op, at, x, key, value) ==
  IF op = "insert" THEN InsertInspected(at, x, key, value) ELSE RemoveInspected(at, x, key)

\* It depends on the children only.
LEMMA InspectsChildren ==
    ASSUME NEW op, NEW at, NEW at1, NEW x \in Tree, NEW key, NEW value,
           Deref(x).t = "branch" => /\ at[Deref(x).c[1]] = at1[Deref(x).c[1]]
                                    /\ at[Deref(x).c[2]] = at1[Deref(x).c[2]]
    PROVE  Inspected(op, at, x, key, value) = Inspected(op, at1, x, key, value)
<1> DEFINE n == Deref(x)
<1>1. n.t \in {"empty", "leaf", "branch"}
  BY TreeKinds
<1>2. Side(key, n) \in {1, 2}
  BY DEF Side
<1>3. n.t = "branch" => at[n.c[Side(key, n)]] = at1[n.c[Side(key, n)]]
  BY <1>2
<1>4. InsertInspected(at, x, key, value) = InsertInspected(at1, x, key, value)
  <2>1. CASE n.t = "branch"
    <3>1. n.t # "empty" /\ n.t # "leaf"
      BY <2>1
    <3> HIDE DEF n
    <3> QED BY <1>3, <2>1, <3>1 DEF InsertInspected, n
  <2>2. CASE n.t # "branch"
    <3> QED BY <1>1, <2>2 DEF InsertInspected
  <2> QED BY <2>1, <2>2
<1>5. RemoveInspected(at, x, key) = RemoveInspected(at1, x, key)
  <2>1. CASE n.t = "branch"
    BY <1>3, <2>1 DEF RemoveInspected
  <2>2. CASE n.t # "branch"
    BY <1>1, <2>2 DEF RemoveInspected
  <2> QED BY <2>1, <2>2
<1> QED BY <1>4, <1>5 DEF Inspected

Inspects(at, op, key, value) == at = [x \in Handle |-> Inspected(op, at, x, key, value)]

\* There is a function that tells what a call makes of every handle.
LEMMA Inspection ==
    ASSUME NEW op, NEW key, NEW value
    PROVE  \E at : Inspects(at, op, key, value)
<1> DEFINE H(d) == Handles(NodesOf[d])
           B(g, x) == Inspected(op, g, x, key, value)
           Good(g, d) == g = [x \in H(d) |-> B(g, x)]
           Has == {d \in Nat : \E g : Good(g, d)}
<1>1. ASSUME NEW d \in Nat, NEW x \in H(d)
      PROVE  /\ x \in Tree
             /\ Deref(x).t = "branch" => d - 1 \in Nat /\ Deref(x).c \in [1 .. 2 -> H(d - 1)]
  BY <1>1, HandleKinds, NodeKinds DEF Tree
<1>2. ASSUME NEW d \in Nat, NEW x \in H(d), NEW g, NEW g1,
             \A c : d - 1 \in Nat /\ c \in H(d - 1) => g[c] = g1[c]
      PROVE  B(g, x) = B(g1, x)
  <2>1. x \in Tree
    BY <1>1
  <2>2. Deref(x).t = "branch" => /\ g[Deref(x).c[1]] = g1[Deref(x).c[1]]
                                /\ g[Deref(x).c[2]] = g1[Deref(x).c[2]]
    <3> SUFFICES ASSUME Deref(x).t = "branch"
                 PROVE  /\ g[Deref(x).c[1]] = g1[Deref(x).c[1]]
                        /\ g[Deref(x).c[2]] = g1[Deref(x).c[2]]
      OBVIOUS
    <3>1. d - 1 \in Nat /\ Deref(x).c[1] \in H(d - 1) /\ Deref(x).c[2] \in H(d - 1)
      BY <1>1
    <3> QED BY <1>2, <3>1
  <2> QED BY <2>1, <2>2, InspectsChildren
<1> HIDE DEF H, B
<1>3. 0 \in Has
  <2> DEFINE g0 == [x \in H(0) |-> B({}, x)]
  <2>1. \A x \in H(0) : B({}, x) = B(g0, x)
    BY <1>2
  <2>2. g0 = [x \in H(0) |-> B(g0, x)]
    BY <2>1
  <2> HIDE DEF g0
  <2> QED BY <2>2
<1>4. ASSUME NEW d \in Nat, d \in Has PROVE d + 1 \in Has
  <2>1. PICK g : Good(g, d)
    BY <1>4
  <2> DEFINE g1 == [x \in H(d + 1) |-> B(g, x)]
  <2>2. ASSUME NEW c \in H(d) PROVE g[c] = g1[c]
    <3>1. c \in H(d + 1)
      BY Deeper DEF H
    <3>2. g1[c] = B(g, c)
      BY <3>1
    <3>3. g[c] = B(g, c)
      BY <2>1
    <3> QED BY <3>2, <3>3
  <2>3. (d + 1) - 1 = d /\ d + 1 \in Nat
    OBVIOUS
  <2> HIDE DEF Good
  <2>4. \A x \in H(d + 1) : B(g, x) = B(g1, x)
    <3> HIDE DEF g1
    <3> QED BY <1>2, <2>2, <2>3
  <2>5. g1 = [x \in H(d + 1) |-> B(g1, x)]
    BY <2>4
  <2> HIDE DEF g1
  <2>6. Good(g1, d + 1)
    BY <2>5 DEF Good
  <2> QED BY <2>3, <2>6
<1> HIDE DEF Has
<1>5. MaxDepth \in Has
  BY <1>3, <1>4, Counting, AvlAssumption
<1> QED BY <1>5 DEF Has, H, B, Handle, Inspects

\* insert_at is what its inspector makes of a handle and of insert_at's children.
LEMMA InsertedAtDef ==
    ASSUME NEW key, NEW value, NEW x \in Handle
    PROVE  InsertedAt(key, value)[x] = InsertInspected(InsertedAt(key, value), x, key, value)
<1>1. PICK at : Inspects(at, "insert", key, value)
  BY Inspection
<1>2. at = [y \in Handle |-> InsertInspected(at, y, key, value)]
  BY <1>1 DEF Inspects, Inspected
<1>3. InsertedAt(key, value)
       = [y \in Handle |-> InsertInspected(InsertedAt(key, value), y, key, value)]
  BY <1>2 DEF InsertedAt
<1> HIDE DEF InsertedAt
<1> QED BY <1>3

\* And so is remove_at.
LEMMA RemovedAtDef ==
    ASSUME NEW key, NEW x \in Handle
    PROVE  RemovedAt(key)[x] = RemoveInspected(RemovedAt(key), x, key)
<1>1. PICK at : Inspects(at, "remove", key, 0)
  BY Inspection
<1>2. at = [y \in Handle |-> RemoveInspected(at, y, key)]
  BY <1>1 DEF Inspects, Inspected
<1>3. RemovedAt(key) = [y \in Handle |-> RemoveInspected(RemovedAt(key), y, key)]
  BY <1>2 DEF RemovedAt
<1> QED BY <1>3

\* The nodes a sound tree takes from the database have keys of its own, unless they
\* are empty.
LEMMA UsesKeys ==
    ASSUME NEW x \in Tree, Sound[x], NEW m \in Uses[x]
    PROVE  /\ m \in Tree /\ Keys[m] \subseteq Keys[x]
           /\ Keys[m] = {} => m = Empty
<1> DEFINE Fine(u, y) == u \in Tree /\ Keys[u] \subseteq Keys[y] /\ (Keys[u] = {} => u = Empty)
           Right(y) == Sound[y] => \A u \in Uses[y] : Fine(u, y)
           S == {y \in Tree : Right(y)}
<1>1. ASSUME NEW y \in Tree,
             Deref(y).t = "branch" => Deref(y).c[1] \in S /\ Deref(y).c[2] \in S
      PROVE  y \in S
  <2> SUFFICES ASSUME Sound[y], NEW u \in Uses[y]
               PROVE  Fine(u, y)
    OBVIOUS
  <2>1. CASE u \in Own(y)
    <3>1. u = Deref(y)
      BY <2>1 DEF Own, Deref
    <3>2. Deref(u) = u /\ u \in Tree /\ Keys[u] = Keys[y] /\ Sound[u]
      BY <3>1, TreeKinds, SeenThrough
    <3> QED BY <3>2, Heights
  <2>2. CASE u \notin Own(y)
    <3>1. Branches(y) /\ (u \in Uses[Child(y, 1)] \/ u \in Uses[Child(y, 2)])
      BY <2>2, UsesDef
    <3>2. Sound[Child(y, 1)] /\ Sound[Child(y, 2)] /\ Child(y, 1) \in S /\ Child(y, 2) \in S
      BY <1>1, <3>1, SoundDef DEF Branches, Child
    <3>3. Keys[Child(y, 1)] \subseteq Keys[y] /\ Keys[Child(y, 2)] \subseteq Keys[y]
      BY <3>1, KeysDef
    <3>4. Right(Child(y, 1)) /\ Right(Child(y, 2))
      BY <3>2
    <3> HIDE DEF S
    <3> QED BY <3>1, <3>2, <3>3, <3>4
  <2> QED BY <2>1, <2>2
<1> HIDE DEF S
<1>2. Tree \subseteq S
  BY <1>1, Induction
<1>3. Right(x)
  BY <1>2 DEF S
<1> QED BY <1>3

\* Trees that share no key share no such node.
LEMMA UsesApart ==
    ASSUME NEW x \in Tree, NEW y \in Tree, Sound[x], Sound[y], Keys[x] \cap Keys[y] = {}
    PROVE  Uses[x] \cap Uses[y] \subseteq {Empty}
<1> SUFFICES ASSUME NEW m \in Uses[x], m \in Uses[y] PROVE m = Empty
  OBVIOUS
<1>1. Keys[m] \subseteq Keys[x] /\ Keys[m] \subseteq Keys[y] /\ (Keys[m] = {} => m = Empty)
  BY UsesKeys
<1> QED BY <1>1

\* A sound branch whose first child is replaced by z.
LEMMA RegraftedLeft ==
    ASSUME NEW n, NEW h, NEW k, NEW l, NEW r, Knot(n, h, k, l, r), Sound[n],
           NEW z \in Tree, Sound[z], Keys[z] # {}, \A j \in Keys[z] : j < k,
           Height(z) <= Height(l) + 1, Fits(z, Height(l) + 1)
    PROVE  LET p == Rebalanced(Grafted(n, 1, z)) IN
           /\ p \in Tree /\ p.t = "branch" /\ Sound[p] /\ Joins(p, z, k, r)
           /\ Height(p) \in Nat /\ Height(p) <= h + 1 /\ Fits(p, h + 1)
           /\ Height(z) <= Height(l) => Height(p) <= h
           /\ Even[n] /\ Even[z] /\ Height(z) >= Height(l) => Even[p] /\ Height(p) >= h
<1> DEFINE p == Rebalanced(Grafted(n, 1, z))
           d == Height(z) - Height(r)
<1>1. Knot(Grafted(n, 1, z), h, k, z, r)
  BY Knots
<1>2. /\ Height(l) \in 1 .. h - 1 /\ Height(r) \in 1 .. h - 1 /\ Apart(l, k, r)
      /\ Sound[l] /\ Sound[r]
  BY KnotSound
<1>3. Apart(z, k, r)
  BY <1>2 DEF Apart
<1>4. h \in Int /\ Height(z) \in 1 .. h
  <2>1. Height(z) \in Nat /\ Height(z) # 0 /\ h \in Int
    BY Heights, KeysDef, KnotParts, SeenThrough, Ends
  <2> QED BY <1>2, <2>1
<1>5. Fits(z, h)
  <2>1. Height(z) = h => Height(l) + 1 = h
    BY <1>2, <1>4
  <2> QED BY <2>1 DEF Fits
<1>6. Fits(r, h)
  <2>1. Height(r) # h
    BY <1>2, <1>4
  <2> QED BY <2>1 DEF Fits
<1>7. Height(l) \in 1 .. h /\ Height(r) \in 1 .. h
  BY <1>2, <1>4
<1> HIDE DEF p
<1>8. /\ p \in Tree /\ p.t = "branch" /\ Sound[p] /\ Joins(p, z, k, r)
      /\ Height(p) \in Nat
      /\ \/ d \in {-2, 2} /\ Height(p) = h
         \/ /\ Child(p, 1) = z /\ Child(p, 2) = r
            /\ Height(p) = Height(z) + 1 \/ Height(p) = Height(r) + 1
            /\ Height(p) > Height(z) /\ Height(p) > Height(r)
            /\ d \notin {-2, 2}
      /\ /\ Even[z] /\ Even[r] /\ d \in -2 .. 2
         /\ d = 2 => Height(z) = h
         /\ d = -2 => Height(r) = h
         => Even[p]
  BY <1>1, <1>2, <1>3, <1>4, <1>5, <1>6, <1>7, RebalancedBranch DEF p
<1>9. Height(p) <= h + 1 /\ (Height(z) <= Height(l) => Height(p) <= h)
  BY <1>2, <1>4, <1>8
<1>10. Fits(p, h + 1)
  <2>1. Height(p) = h + 1 => Child(p, 1) = z /\ Child(p, 2) = r /\ Height(z) = h
    BY <1>2, <1>4, <1>8
  <2>2. Height(r) # h
    BY <1>2, <1>4
  <2> QED BY <2>1, <2>2 DEF Fits
<1>11. ASSUME Even[n], Even[z], Height(z) >= Height(l)
       PROVE  Even[p] /\ Height(p) >= h
  <2>1. Height(l) \in Int /\ Height(r) \in Int
    BY <1>2
  <2>2. Levelled(h, Height(l), Height(r)) /\ Even[l] /\ Even[r]
    BY <1>11, <2>1, KnotEven
  <2>3. /\ d \in -2 .. 2
        /\ d = 2 => Height(z) = h
        /\ d = -2 => Height(r) = h
    BY <1>2, <1>4, <1>11, <2>2 DEF Levelled
  <2>4. Height(p) >= h
    BY <1>2, <1>4, <1>8, <1>11, <2>2 DEF Levelled
  <2> QED BY <1>8, <1>11, <2>2, <2>3, <2>4
<1> QED BY <1>8, <1>9, <1>10, <1>11 DEF p

\* A sound branch whose second child is replaced by z.
LEMMA RegraftedRight ==
    ASSUME NEW n, NEW h, NEW k, NEW l, NEW r, Knot(n, h, k, l, r), Sound[n],
           NEW z \in Tree, Sound[z], Keys[z] # {}, \A j \in Keys[z] : k <= j,
           Height(z) <= Height(r) + 1, Fits(z, Height(r) + 1)
    PROVE  LET p == Rebalanced(Grafted(n, 2, z)) IN
           /\ p \in Tree /\ p.t = "branch" /\ Sound[p] /\ Joins(p, l, k, z)
           /\ Height(p) \in Nat /\ Height(p) <= h + 1 /\ Fits(p, h + 1)
           /\ Height(z) <= Height(r) => Height(p) <= h
           /\ Even[n] /\ Even[z] /\ Height(z) >= Height(r) => Even[p] /\ Height(p) >= h
<1> DEFINE p == Rebalanced(Grafted(n, 2, z))
           d == Height(l) - Height(z)
<1>1. Knot(Grafted(n, 2, z), h, k, l, z)
  BY Knots
<1>2. /\ Height(l) \in 1 .. h - 1 /\ Height(r) \in 1 .. h - 1 /\ Apart(l, k, r)
      /\ Sound[l] /\ Sound[r]
  BY KnotSound
<1>3. Apart(l, k, z)
  BY <1>2 DEF Apart
<1>4. h \in Int /\ Height(z) \in 1 .. h
  <2>1. Height(z) \in Nat /\ Height(z) # 0 /\ h \in Int
    BY Heights, KeysDef, KnotParts, SeenThrough, Ends
  <2> QED BY <1>2, <2>1
<1>5. Fits(z, h)
  <2>1. Height(z) = h => Height(r) + 1 = h
    BY <1>2, <1>4
  <2> QED BY <2>1 DEF Fits
<1>6. Fits(l, h)
  <2>1. Height(l) # h
    BY <1>2, <1>4
  <2> QED BY <2>1 DEF Fits
<1>7. Height(l) \in 1 .. h /\ Height(r) \in 1 .. h
  BY <1>2, <1>4
<1> HIDE DEF p
<1>8. /\ p \in Tree /\ p.t = "branch" /\ Sound[p] /\ Joins(p, l, k, z)
      /\ Height(p) \in Nat
      /\ \/ d \in {-2, 2} /\ Height(p) = h
         \/ /\ Child(p, 1) = l /\ Child(p, 2) = z
            /\ Height(p) = Height(l) + 1 \/ Height(p) = Height(z) + 1
            /\ Height(p) > Height(l) /\ Height(p) > Height(z)
            /\ d \notin {-2, 2}
      /\ /\ Even[l] /\ Even[z] /\ d \in -2 .. 2
         /\ d = 2 => Height(l) = h
         /\ d = -2 => Height(z) = h
         => Even[p]
  BY <1>1, <1>2, <1>3, <1>4, <1>5, <1>6, <1>7, RebalancedBranch DEF p
<1>9. Height(p) <= h + 1 /\ (Height(z) <= Height(r) => Height(p) <= h)
  BY <1>2, <1>4, <1>8
<1>10. Fits(p, h + 1)
  <2>1. Height(p) = h + 1 => Child(p, 2) = z /\ Child(p, 1) = l /\ Height(z) = h
    BY <1>2, <1>4, <1>8
  <2>2. Height(l) # h
    BY <1>2, <1>4
  <2> QED BY <2>1, <2>2 DEF Fits
<1>11. ASSUME Even[n], Even[z], Height(z) >= Height(r)
       PROVE  Even[p] /\ Height(p) >= h
  <2>1. Height(l) \in Int /\ Height(r) \in Int
    BY <1>2
  <2>2. Levelled(h, Height(l), Height(r)) /\ Even[l] /\ Even[r]
    BY <1>11, <2>1, KnotEven
  <2>3. /\ d \in -2 .. 2
        /\ d = 2 => Height(l) = h
        /\ d = -2 => Height(z) = h
    BY <1>2, <1>4, <1>11, <2>2 DEF Levelled
  <2>4. Height(p) >= h
    BY <1>2, <1>4, <1>8, <1>11, <2>2 DEF Levelled
  <2> QED BY <1>8, <1>11, <2>2, <2>3, <2>4
<1> QED BY <1>8, <1>9, <1>10, <1>11 DEF p

\* Of the nodes x takes from the database, these are dead, and these are used.
Spares(x, dead, used) ==
  dead \subseteq Uses[x] /\ used \subseteq Uses[x] /\ dead \cap used \subseteq {Empty}

\* What is put on death row is no longer used: of a branch whose first child has
\* been replaced by a tree that takes the nodes used, and dead no longer.
LEMMA DeadApartLeft ==
    ASSUME NEW x \in Tree, Sound[x], NEW h, NEW k, NEW l, NEW r, Knot(Deref(x), h, k, l, r),
           NEW dead, NEW used, Spares(l, dead, used)
    PROVE  Spares(x, dead \cup Dead(x), used \cup Uses[r])
<1> DEFINE n == Deref(x)
<1>1. n \in Tree /\ Sound[n] /\ l \in Tree /\ r \in Tree
  BY TreeKinds, SeenThrough, KnotParts
<1>2. Sound[l] /\ Sound[r] /\ Apart(l, k, r)
  BY <1>1, KnotSound
<1>3. Keys[n] = Keys[l] \cup Keys[r] /\ Uses[n] = Uses[l] \cup Uses[r]
  BY KnotKeys
<1>4. Uses[x] = Dead(x) \cup Uses[l] \cup Uses[r]
  BY <1>3, SeenThrough DEF Own, Dead
<1>5. Keys[l] \cap Keys[r] = {} /\ Keys[l] # {} /\ Keys[r] # {}
  <2>1. k \in Int /\ Keys[l] \subseteq Int /\ Keys[r] \subseteq Int
    BY <1>1, KeysDef, KnotParts, AvlAssumption
  <2> QED BY <1>2, <2>1 DEF Apart
<1>6. Uses[l] \cap Uses[r] \subseteq {Empty}
  BY <1>1, <1>2, <1>5, UsesApart
<1>7. Dead(x) \subseteq {n}
  BY DEF Dead, Deref
<1> HIDE DEF n
<1>8. n \notin Uses[l]
  <2>1. n \in Uses[l] => Keys[n] \subseteq Keys[l]
    BY <1>1, <1>2, UsesKeys
  <2> QED BY <1>3, <1>5, <2>1
<1>9. n \notin Uses[r]
  <2>1. n \in Uses[r] => Keys[n] \subseteq Keys[r]
    BY <1>1, <1>2, UsesKeys
  <2> QED BY <1>3, <1>5, <2>1
<1> QED BY <1>4, <1>6, <1>7, <1>8, <1>9 DEF Spares

\* And of one whose second child has been replaced.
LEMMA DeadApartRight ==
    ASSUME NEW x \in Tree, Sound[x], NEW h, NEW k, NEW l, NEW r, Knot(Deref(x), h, k, l, r),
           NEW dead, NEW used, Spares(r, dead, used)
    PROVE  Spares(x, dead \cup Dead(x), used \cup Uses[l])
<1> DEFINE n == Deref(x)
<1>1. n \in Tree /\ Sound[n] /\ l \in Tree /\ r \in Tree
  BY TreeKinds, SeenThrough, KnotParts
<1>2. Sound[l] /\ Sound[r] /\ Apart(l, k, r)
  BY <1>1, KnotSound
<1>3. Keys[n] = Keys[l] \cup Keys[r] /\ Uses[n] = Uses[l] \cup Uses[r]
  BY KnotKeys
<1>4. Uses[x] = Dead(x) \cup Uses[l] \cup Uses[r]
  BY <1>3, SeenThrough DEF Own, Dead
<1>5. Keys[l] \cap Keys[r] = {} /\ Keys[l] # {} /\ Keys[r] # {}
  <2>1. k \in Int /\ Keys[l] \subseteq Int /\ Keys[r] \subseteq Int
    BY <1>1, KeysDef, KnotParts, AvlAssumption
  <2> QED BY <1>2, <2>1 DEF Apart
<1>6. Uses[l] \cap Uses[r] \subseteq {Empty}
  BY <1>1, <1>2, <1>5, UsesApart
<1>7. Dead(x) \subseteq {n}
  BY DEF Dead, Deref
<1> HIDE DEF n
<1>8. n \notin Uses[l]
  <2>1. n \in Uses[l] => Keys[n] \subseteq Keys[l]
    BY <1>1, <1>2, UsesKeys
  <2> QED BY <1>3, <1>5, <2>1
<1>9. n \notin Uses[r]
  <2>1. n \in Uses[r] => Keys[n] \subseteq Keys[r]
    BY <1>1, <1>2, UsesKeys
  <2> QED BY <1>3, <1>5, <2>1
<1> QED BY <1>4, <1>6, <1>7, <1>8, <1>9 DEF Spares

\* What insert_at is to make of a handle: r.
Inserts(x, r, key, value) ==
  /\ r.node \in Tree /\ Sound[r.node] /\ Keys[r.node] = Keys[x] \cup {key}
  /\ \A j \in Key : Find[r.node][j] = IF j = key THEN value ELSE Find[x][j]
  /\ r.old = Find[x][key]
  /\ Height(r.node) <= Height(x) + 1 /\ Fits(r.node, Height(x) + 1)
  /\ Spares(x, r.dead, Uses[r.node])
  /\ IF r.changed THEN r.node.t # "hash" ELSE r.node = x /\ r.dead = {}
  /\ Even[x] => Even[r.node] /\ Height(r.node) >= Height(x)

\* A branch, when the key belongs to the first child.
LEMMA InsertLeft ==
    ASSUME NEW at, NEW key \in Key, NEW value \in Value, NEW x \in Tree, Sound[x],
           NEW h, NEW k, NEW l, NEW r, Knot(Deref(x), h, k, l, r),
           key < k, Inserts(l, at[l], key, value)
    PROVE  Inserts(x, InsertInspected(at, x, key, value), key, value)
<1> DEFINE n == Deref(x)
           r1 == at[l]
           z == r1.node
           res == InsertInspected(at, x, key, value)
<1>1. /\ n \in Tree /\ Sound[n] /\ Keys[x] = Keys[n] /\ Find[x] = Find[n]
      /\ Height(x) = Height(n) /\ (Even[x] => Even[n])
  BY TreeKinds, SeenThrough
<1>2. /\ n.t = "branch" /\ n.k = k /\ n.c[1] = l /\ l \in Tree /\ r \in Tree
      /\ k \in Int /\ key \in Int /\ h \in Int
  BY KnotParts, AvlAssumption
<1>3. /\ Sound[l] /\ Sound[r] /\ Apart(l, k, r)
      /\ Height(l) \in 1 .. h - 1 /\ Height(r) \in 1 .. h - 1
  BY <1>1, KnotSound
<1>4. /\ Keys[n] = Keys[l] \cup Keys[r] /\ Uses[n] = Uses[l] \cup Uses[r] /\ Height(n) = h
      /\ \A j \in Key : Find[n][j] = IF j < k THEN Find[l][j] ELSE Find[r][j]
  BY KnotKeys, KnotFind
<1>5. res = IF r1.changed THEN Replaced(x, Grafted(n, 1, z), r1.old, r1.dead)
            ELSE Restored(x, r1.old)
  <2>1. Side(key, n) = 1
    BY <1>2 DEF Side
  <2>2. n.t # "empty" /\ n.t # "leaf"
    BY <1>2
  <2> HIDE DEF n
  <2> QED BY <1>2, <2>1, <2>2 DEF InsertInspected, Grafted, n
<1>6. r1.old = Find[x][key]
  BY <1>1, <1>2, <1>4 DEF Inserts
<1>7. ASSUME ~r1.changed PROVE Inserts(x, res, key, value)
  <2>1. /\ res.node = x /\ res.changed = FALSE /\ res.old = r1.old /\ res.dead = {}
    BY <1>5, <1>7 DEF Restored
  <2>2. r1.node = l
    BY <1>7 DEF Inserts
  <2>3. Keys[x] = Keys[x] \cup {key}
    BY <1>1, <1>4, <2>2 DEF Inserts
  <2>4. \A j \in Key : Find[x][j] = IF j = key THEN value ELSE Find[x][j]
    BY <1>1, <1>2, <1>4, <2>2 DEF Inserts
  <2>5. Height(x) <= Height(x) + 1 /\ Fits(x, Height(x) + 1) /\ Height(x) >= Height(x)
    BY <1>1, <1>2, <1>4 DEF Fits
  <2>6. Spares(x, {}, Uses[x])
    BY DEF Spares
  <2> HIDE DEF res, r1
  <2> QED BY <1>6, <2>1, <2>3, <2>4, <2>5, <2>6 DEF Inserts
<1>8. ASSUME r1.changed PROVE Inserts(x, res, key, value)
  <2> DEFINE p == Rebalanced(Grafted(n, 1, z))
  <2>1. /\ res.node = p /\ res.changed = TRUE /\ res.old = r1.old /\ res.dead = r1.dead \cup Dead(x)
    BY <1>5, <1>8 DEF Replaced
  <2>2. /\ z \in Tree /\ Sound[z] /\ Keys[z] = Keys[l] \cup {key}
        /\ \A j \in Key : Find[z][j] = IF j = key THEN value ELSE Find[l][j]
        /\ Height(z) <= Height(l) + 1 /\ Fits(z, Height(l) + 1)
        /\ Spares(l, r1.dead, Uses[z])
        /\ Even[l] => Even[z] /\ Height(z) >= Height(l)
    BY DEF Inserts
  <2>3. Keys[z] # {} /\ \A j \in Keys[z] : j < k
    BY <1>2, <1>3, <2>2 DEF Apart
  <2> HIDE DEF n, res, r1, z, p
  <2>4. /\ p \in Tree /\ p.t = "branch" /\ Sound[p] /\ Joins(p, z, k, r)
        /\ Height(p) \in Nat /\ Height(p) <= h + 1 /\ Fits(p, h + 1)
        /\ Even[n] /\ Even[z] /\ Height(z) >= Height(l) => Even[p] /\ Height(p) >= h
    BY <1>1, <2>2, <2>3, RegraftedLeft DEF n, p
  <2>5. Keys[p] = Keys[x] \cup {key}
    BY <1>1, <1>4, <2>2, <2>4 DEF Joins
  <2>6. \A j \in Key : Find[p][j] = IF j = key THEN value ELSE Find[x][j]
    BY <1>1, <1>2, <1>4, <2>2, <2>4 DEF Joins
  <2>7. Spares(x, r1.dead \cup Dead(x), Uses[z] \cup Uses[r])
    BY <2>2, DeadApartLeft DEF n
  <2>8. Spares(x, r1.dead \cup Dead(x), Uses[p])
    BY <2>4, <2>7 DEF Joins, Spares
  <2>9. ASSUME Even[x] PROVE Even[p] /\ Height(p) >= Height(x)
    <3>1. Even[l]
      <4>1. Height(l) \in Int /\ Height(r) \in Int
        BY <1>3
      <4> QED BY <1>1, <2>9, <4>1, KnotEven DEF n
    <3> QED BY <1>1, <1>4, <2>2, <2>4, <2>9, <3>1
  <2>10. Height(p) <= Height(x) + 1 /\ Fits(p, Height(x) + 1)
    BY <1>1, <1>4, <2>4
  <2>11. p.t # "hash"
    BY <2>4
  <2> QED BY <1>6, <2>1, <2>4, <2>5, <2>6, <2>8, <2>9, <2>10, <2>11 DEF Inserts
<1> QED BY <1>7, <1>8

\* A branch, when the key belongs to the second child.
LEMMA InsertRight ==
    ASSUME NEW at, NEW key \in Key, NEW value \in Value, NEW x \in Tree, Sound[x],
           NEW h, NEW k, NEW l, NEW r, Knot(Deref(x), h, k, l, r),
           ~(key < k), Inserts(r, at[r], key, value)
    PROVE  Inserts(x, InsertInspected(at, x, key, value), key, value)
<1> DEFINE n == Deref(x)
           r1 == at[r]
           z == r1.node
           res == InsertInspected(at, x, key, value)
<1>1. /\ n \in Tree /\ Sound[n] /\ Keys[x] = Keys[n] /\ Find[x] = Find[n]
      /\ Height(x) = Height(n) /\ (Even[x] => Even[n])
  BY TreeKinds, SeenThrough
<1>2. /\ n.t = "branch" /\ n.k = k /\ n.c[2] = r /\ l \in Tree /\ r \in Tree
      /\ k \in Int /\ key \in Int /\ h \in Int
  BY KnotParts, AvlAssumption
<1>3. /\ Sound[l] /\ Sound[r] /\ Apart(l, k, r)
      /\ Height(l) \in 1 .. h - 1 /\ Height(r) \in 1 .. h - 1
  BY <1>1, KnotSound
<1>4. /\ Keys[n] = Keys[l] \cup Keys[r] /\ Uses[n] = Uses[l] \cup Uses[r] /\ Height(n) = h
      /\ \A j \in Key : Find[n][j] = IF j < k THEN Find[l][j] ELSE Find[r][j]
  BY KnotKeys, KnotFind
<1>5. res = IF r1.changed THEN Replaced(x, Grafted(n, 2, z), r1.old, r1.dead)
            ELSE Restored(x, r1.old)
  <2>1. Side(key, n) = 2
    BY <1>2 DEF Side
  <2>2. n.t # "empty" /\ n.t # "leaf"
    BY <1>2
  <2> HIDE DEF n
  <2> QED BY <1>2, <2>1, <2>2 DEF InsertInspected, Grafted, n
<1>6. r1.old = Find[x][key]
  BY <1>1, <1>2, <1>4 DEF Inserts
<1>7. ASSUME ~r1.changed PROVE Inserts(x, res, key, value)
  <2>1. /\ res.node = x /\ res.changed = FALSE /\ res.old = r1.old /\ res.dead = {}
    BY <1>5, <1>7 DEF Restored
  <2>2. r1.node = r
    BY <1>7 DEF Inserts
  <2>3. Keys[x] = Keys[x] \cup {key}
    BY <1>1, <1>4, <2>2 DEF Inserts
  <2>4. \A j \in Key : Find[x][j] = IF j = key THEN value ELSE Find[x][j]
    BY <1>1, <1>2, <1>4, <2>2 DEF Inserts
  <2>5. Height(x) <= Height(x) + 1 /\ Fits(x, Height(x) + 1) /\ Height(x) >= Height(x)
    BY <1>1, <1>2, <1>4 DEF Fits
  <2>6. Spares(x, {}, Uses[x])
    BY DEF Spares
  <2> HIDE DEF res, r1
  <2> QED BY <1>6, <2>1, <2>3, <2>4, <2>5, <2>6 DEF Inserts
<1>8. ASSUME r1.changed PROVE Inserts(x, res, key, value)
  <2> DEFINE p == Rebalanced(Grafted(n, 2, z))
  <2>1. /\ res.node = p /\ res.changed = TRUE /\ res.old = r1.old /\ res.dead = r1.dead \cup Dead(x)
    BY <1>5, <1>8 DEF Replaced
  <2>2. /\ z \in Tree /\ Sound[z] /\ Keys[z] = Keys[r] \cup {key}
        /\ \A j \in Key : Find[z][j] = IF j = key THEN value ELSE Find[r][j]
        /\ Height(z) <= Height(r) + 1 /\ Fits(z, Height(r) + 1)
        /\ Spares(r, r1.dead, Uses[z])
        /\ Even[r] => Even[z] /\ Height(z) >= Height(r)
    BY DEF Inserts
  <2>3. Keys[z] # {} /\ \A j \in Keys[z] : k <= j
    BY <1>2, <1>3, <2>2 DEF Apart
  <2> HIDE DEF n, res, r1, z, p
  <2>4. /\ p \in Tree /\ p.t = "branch" /\ Sound[p] /\ Joins(p, l, k, z)
        /\ Height(p) \in Nat /\ Height(p) <= h + 1 /\ Fits(p, h + 1)
        /\ Even[n] /\ Even[z] /\ Height(z) >= Height(r) => Even[p] /\ Height(p) >= h
    BY <1>1, <2>2, <2>3, RegraftedRight DEF n, p
  <2>5. Keys[p] = Keys[x] \cup {key}
    BY <1>1, <1>4, <2>2, <2>4 DEF Joins
  <2>6. \A j \in Key : Find[p][j] = IF j = key THEN value ELSE Find[x][j]
    BY <1>1, <1>2, <1>4, <2>2, <2>4 DEF Joins
  <2>7. Spares(x, r1.dead \cup Dead(x), Uses[z] \cup Uses[l])
    BY <2>2, DeadApartRight DEF n
  <2>8. Spares(x, r1.dead \cup Dead(x), Uses[p])
    BY <2>4, <2>7 DEF Joins, Spares
  <2>9. ASSUME Even[x] PROVE Even[p] /\ Height(p) >= Height(x)
    <3>1. Even[r]
      <4>1. Height(l) \in Int /\ Height(r) \in Int
        BY <1>3
      <4> QED BY <1>1, <2>9, <4>1, KnotEven DEF n
    <3> QED BY <1>1, <1>4, <2>2, <2>4, <2>9, <3>1
  <2>10. Height(p) <= Height(x) + 1 /\ Fits(p, Height(x) + 1)
    BY <1>1, <1>4, <2>4
  <2>11. p.t # "hash"
    BY <2>4
  <2> QED BY <1>6, <2>1, <2>4, <2>5, <2>6, <2>8, <2>9, <2>10, <2>11 DEF Inserts
<1> QED BY <1>7, <1>8

\* The empty node, with what is found key by key.
LEMMA EmptyParts ==
    /\ Empty \in Tree /\ Keys[Empty] = {} /\ Uses[Empty] = {} /\ Height(Empty) = 0
    /\ Sound[Empty] /\ Even[Empty]
    /\ \A j \in Key : Find[Empty][j] = Nothing
<1>1. Find[Empty] = [k \in Key |-> Nothing]
  BY Ends
<1>2. \A j \in Key : Find[Empty][j] = Nothing
  BY <1>1
<1> QED BY <1>2, Ends, Planted

\* A leaf, the same way.
LEMMA LeafParts ==
    ASSUME NEW k \in Key, NEW v \in Value, NEW n, n = Leaf(k, v)
    PROVE  /\ n \in Tree /\ n.t = "leaf" /\ n.k = k /\ n.v = v
           /\ Sound[n] /\ Even[n] /\ Keys[n] = {k} /\ Uses[n] = {} /\ Height(n) = 1
           /\ \A j \in Key : Find[n][j] = IF j = k THEN v ELSE Nothing
<1>1. /\ Sound[n] /\ Even[n] /\ Keys[n] = {k} /\ Uses[n] = {} /\ Height(n) = 1
      /\ Find[n] = [j \in Key |-> IF j = k THEN v ELSE Nothing]
  BY Ends, Zenon
<1>2. \A j \in Key : Find[n][j] = IF j = k THEN v ELSE Nothing
  BY <1>1
<1>3. n \in Tree
  BY Planted
<1>4. n.t = "leaf" /\ n.k = k /\ n.v = v
  BY DEF Leaf
<1> QED BY <1>1, <1>2, <1>3, <1>4

\* A leaf.
LEMMA InsertLeaf ==
    ASSUME NEW at, NEW key \in Key, NEW value \in Value, NEW x \in Tree,
           Deref(x).t = "leaf"
    PROVE  Inserts(x, InsertInspected(at, x, key, value), key, value)
<1> DEFINE n == Deref(x)
           w == Leaf(key, value)
           res == InsertInspected(at, x, key, value)
<1>1. n.t = "leaf" /\ n.t # "empty" /\ n.t # "branch" /\ n.k \in Key /\ n.v \in Value
  BY TreeKinds
<1>2. /\ n \in Tree
      /\ Sound[n] /\ Even[n] /\ Keys[n] = {n.k} /\ Uses[n] = {} /\ Height(n) = 1
      /\ \A j \in Key : Find[n][j] = IF j = n.k THEN n.v ELSE Nothing
  <2> DEFINE nk == n.k
             nv == n.v
  <2>1. nk \in Key /\ nv \in Value /\ n = Leaf(nk, nv)
    BY TreeKinds
  <2> HIDE DEF nk, nv, n
  <2>2. /\ n \in Tree
        /\ Sound[n] /\ Even[n] /\ Keys[n] = {nk} /\ Uses[n] = {} /\ Height(n) = 1
        /\ \A j \in Key : Find[n][j] = IF j = nk THEN nv ELSE Nothing
    BY <2>1, LeafParts
  <2> QED BY <2>1, <2>2 DEF nk, nv
<1>3. /\ Keys[x] = Keys[n] /\ Find[x] = Find[n] /\ Height(x) = Height(n)
      /\ (Sound[x] <=> Sound[n]) /\ (Even[x] <=> Even[n]) /\ Uses[x] = Dead(x) \cup Uses[n]
  BY SeenThrough DEF Own, Dead
<1>6. /\ w \in Tree /\ w.t = "leaf" /\ Sound[w] /\ Even[w] /\ Keys[w] = {key} /\ Uses[w] = {} /\ Height(w) = 1
      /\ \A j \in Key : Find[w][j] = IF j = key THEN value ELSE Nothing
  BY LeafParts
<1>7. Rebalanced(w) = w
  BY <1>6 DEF Rebalanced
<1>8. n.k \in Int /\ key \in Int
  BY <1>1, AvlAssumption
<1>11. res = IF n.k = key THEN IF n.v = value THEN Restored(x, n.v)
                               ELSE Replaced(x, w, n.v, {})
             ELSE IF n.k < key THEN Replaced(x, Branch(1, key, n, w), Nothing, {})
             ELSE Replaced(x, Branch(1, n.k, w, n), Nothing, {})
  <2> DEFINE nk == n.k
             nv == n.v
  <2>1. n.t = "leaf" /\ nk \in Int /\ key \in Int /\ n.k = nk /\ n.v = nv
    BY <1>1, <1>8
  <2>2. nk < key \/ nk = key \/ nk > key
    BY <2>1
  <2> HIDE DEF nk, nv
  <2> QED BY <2>1, <2>2 DEF InsertInspected
<1>12. /\ Sound[x] /\ Even[x] /\ Uses[x] = Dead(x) /\ Keys[x] = {n.k} /\ Height(x) = 1
       /\ \A j \in Key : Find[x][j] = IF j = n.k THEN n.v ELSE Nothing
  BY <1>2, <1>3
<1>9. CASE n.k = key /\ n.v = value
  <2>1. /\ res.node = x /\ res.changed = FALSE /\ res.old = n.v /\ res.dead = {}
    BY <1>9, <1>11 DEF Restored
  <2>2. /\ Height(x) <= Height(x) + 1 /\ Fits(x, Height(x) + 1) /\ Height(x) >= Height(x)
    BY <1>12 DEF Fits
  <2>3. Spares(x, res.dead, Uses[x])
    BY <2>1 DEF Spares
  <2>4. Keys[x] = Keys[x] \cup {key} /\ Find[x][key] = n.v
    BY <1>1, <1>9, <1>12
  <2>5. \A j \in Key : Find[x][j] = IF j = key THEN value ELSE Find[x][j]
    BY <1>1, <1>9, <1>12
  <2> HIDE DEF res, n
  <2> QED BY <1>12, <2>1, <2>2, <2>3, <2>4, <2>5 DEF Inserts, res
<1>10. CASE n.k = key /\ n.v # value
  <2>1. /\ res.node = w /\ res.changed = TRUE /\ res.old = n.v /\ res.dead = {} \cup Dead(x)
    BY <1>7, <1>10, <1>11 DEF Replaced
  <2>2. /\ Height(w) <= Height(x) + 1 /\ Fits(w, Height(x) + 1) /\ Height(w) >= Height(x)
    BY <1>6, <1>12 DEF Fits
  <2>3. Spares(x, res.dead, Uses[w])
    BY <1>6, <1>12, <2>1 DEF Spares
  <2>4. Keys[w] = Keys[x] \cup {key} /\ Find[x][key] = n.v /\ w.t # "hash"
    BY <1>1, <1>6, <1>10, <1>12
  <2>5. \A j \in Key : Find[w][j] = IF j = key THEN value ELSE Find[x][j]
    BY <1>1, <1>6, <1>10, <1>12
  <2> HIDE DEF res, n, w
  <2> QED BY <1>6, <1>12, <2>1, <2>2, <2>3, <2>4, <2>5 DEF Inserts, res
<1>4. CASE n.k < key
  <2> DEFINE b == Branch(1, key, n, w)
             p == Rebalanced(b)
  <2>1. /\ res.node = p /\ res.changed = TRUE /\ res.old = Nothing /\ res.dead = {} \cup Dead(x)
    BY <1>8, <1>4, <1>11 DEF Replaced
  <2>2. Knot(b, 1, key, n, w)
    BY <1>1, <1>2, <1>6, Knots
  <2>3. Apart(n, key, w)
    BY <1>2, <1>4, <1>6, <1>8 DEF Apart
  <2>4. Height(n) \in 1 .. 1 /\ Height(w) \in 1 .. 1 /\ Fits(n, 1) /\ Fits(w, 1)
    BY <1>2, <1>6 DEF Fits
  <2>5. Height(n) = 1 /\ Height(w) = 1 /\ Height(n) - Height(w) = 0
    BY <1>2, <1>6
  <2> HIDE DEF p, b, w, n
  <2>6. /\ p \in Tree /\ p.t = "branch" /\ Sound[p] /\ Joins(p, n, key, w)
        /\ Height(p) = 2 /\ Even[p]
    BY <1>2, <1>6, <2>2, <2>3, <2>4, <2>5, RebalancedBranch DEF p
  <2>7. Keys[p] = Keys[x] \cup {key} /\ Uses[p] = {}
    BY <1>2, <1>6, <1>12, <2>6 DEF Joins
  <2>8. ASSUME NEW j \in Key PROVE Find[p][j] = IF j = key THEN value ELSE Find[x][j]
    <3>1. Find[p][j] = IF j < key THEN Find[n][j] ELSE Find[w][j]
      BY <2>6 DEF Joins
    <3>2. /\ Find[n][j] = IF j = n.k THEN n.v ELSE Nothing
          /\ Find[w][j] = IF j = key THEN value ELSE Nothing
      BY <1>2, <1>6
    <3>3. j \in Int /\ key \in Int /\ n.k \in Int
      BY <1>8, AvlAssumption
    <3> QED BY <1>12, <1>4, <3>1, <3>2, <3>3
  <2>9. Spares(x, res.dead, Uses[p])
    BY <1>12, <2>1, <2>7 DEF Spares
  <2>10. /\ Height(p) <= Height(x) + 1 /\ Fits(p, Height(x) + 1) /\ Height(p) >= Height(x)
    BY <1>12, <2>6 DEF Fits
  <2>11. Find[x][key] = Nothing
    BY <1>8, <1>12, <1>4
  <2> HIDE DEF res
  <2> QED BY <2>1, <2>6, <2>7, <2>8, <2>9, <2>10, <2>11 DEF Inserts, res
<1>5. CASE n.k > key
  <2> DEFINE b == Branch(1, n.k, w, n)
             p == Rebalanced(b)
  <2>1. /\ res.node = p /\ res.changed = TRUE /\ res.old = Nothing /\ res.dead = {} \cup Dead(x)
    BY <1>8, <1>5, <1>11 DEF Replaced
  <2>2. Knot(b, 1, n.k, w, n)
    BY <1>1, <1>2, <1>6, Knots
  <2>3. Apart(w, n.k, n)
    BY <1>2, <1>5, <1>6, <1>8 DEF Apart
  <2>4. Height(w) \in 1 .. 1 /\ Height(n) \in 1 .. 1 /\ Fits(w, 1) /\ Fits(n, 1)
    BY <1>2, <1>6 DEF Fits
  <2>5. Height(w) = 1 /\ Height(n) = 1 /\ Height(w) - Height(n) = 0
    BY <1>2, <1>6
  <2> HIDE DEF p, b, w, n
  <2>6. /\ p \in Tree /\ p.t = "branch" /\ Sound[p] /\ Joins(p, w, n.k, n)
        /\ Height(p) = 2 /\ Even[p]
    BY <1>2, <1>6, <2>2, <2>3, <2>4, <2>5, RebalancedBranch DEF p
  <2>7. Keys[p] = Keys[x] \cup {key} /\ Uses[p] = {}
    BY <1>2, <1>6, <1>12, <2>6 DEF Joins
  <2>8. ASSUME NEW j \in Key PROVE Find[p][j] = IF j = key THEN value ELSE Find[x][j]
    <3>1. Find[p][j] = IF j < n.k THEN Find[w][j] ELSE Find[n][j]
      BY <2>6 DEF Joins
    <3>2. /\ Find[n][j] = IF j = n.k THEN n.v ELSE Nothing
          /\ Find[w][j] = IF j = key THEN value ELSE Nothing
      BY <1>2, <1>6
    <3>3. j \in Int /\ key \in Int /\ n.k \in Int
      BY <1>8, AvlAssumption
    <3> QED BY <1>12, <1>5, <3>1, <3>2, <3>3
  <2>9. Spares(x, res.dead, Uses[p])
    BY <1>12, <2>1, <2>7 DEF Spares
  <2>10. /\ Height(p) <= Height(x) + 1 /\ Fits(p, Height(x) + 1) /\ Height(p) >= Height(x)
    BY <1>12, <2>6 DEF Fits
  <2>11. Find[x][key] = Nothing
    BY <1>8, <1>12, <1>5
  <2> HIDE DEF res
  <2> QED BY <2>1, <2>6, <2>7, <2>8, <2>9, <2>10, <2>11 DEF Inserts, res
<1> QED BY <1>4, <1>5, <1>8, <1>9, <1>10

\* No branch: a leaf comes in the place of the empty node, or of one with the key,
\* or beside another.
LEMMA InsertEnds ==
    ASSUME NEW at, NEW key \in Key, NEW value \in Value, NEW x \in Tree,
           Deref(x).t # "branch"
    PROVE  Inserts(x, InsertInspected(at, x, key, value), key, value)
<1> DEFINE n == Deref(x)
           w == Leaf(key, value)
           res == InsertInspected(at, x, key, value)
<1>0. /\ n \in Tree /\ Keys[x] = Keys[n] /\ Find[x] = Find[n] /\ Height(x) = Height(n)
      /\ (Sound[x] <=> Sound[n]) /\ (Even[x] <=> Even[n]) /\ Uses[x] = Dead(x) \cup Uses[n]
  BY TreeKinds, SeenThrough DEF Own, Dead
<1>6. /\ w \in Tree /\ w.t = "leaf" /\ Sound[w] /\ Even[w] /\ Keys[w] = {key} /\ Uses[w] = {} /\ Height(w) = 1
      /\ \A j \in Key : Find[w][j] = IF j = key THEN value ELSE Nothing
  BY LeafParts
<1>7. Rebalanced(w) = w
  BY <1>6 DEF Rebalanced
<1>8. CASE n.t = "empty"
  <2>1. /\ res.node = w /\ res.changed = TRUE /\ res.old = Nothing /\ res.dead = {} \cup Dead(x)
    BY <1>7, <1>8 DEF InsertInspected, Replaced
  <2>2. /\ n = Empty /\ Keys[x] = {} /\ Uses[x] = Dead(x) /\ Height(x) = 0
        /\ \A j \in Key : Find[x][j] = Nothing
    BY <1>0, <1>8, EmptyParts, TreeKinds
  <2>3. /\ Height(w) <= Height(x) + 1 /\ Fits(w, Height(x) + 1) /\ Height(w) >= Height(x)
    BY <1>6, <2>2 DEF Fits
  <2>4. Spares(x, res.dead, Uses[w])
    BY <1>6, <2>1, <2>2 DEF Spares
  <2>5. Keys[w] = Keys[x] \cup {key} /\ w.t # "hash"
    BY <1>6, <2>2
  <2>6. \A j \in Key : Find[w][j] = IF j = key THEN value ELSE Find[x][j]
    BY <1>6, <2>2
  <2> HIDE DEF res, w
  <2> QED BY <1>6, <2>1, <2>2, <2>3, <2>4, <2>5, <2>6 DEF Inserts, res
<1>9. CASE n.t = "leaf"
  BY <1>9, InsertLeaf
<1> QED BY <1>8, <1>9, TreeKinds

\* insert_at, of a tree in order of any shape: the result is in order and maps the key
\* to the value and every other as before; it reports the value replaced; it is one
\* higher at most; what goes to death row is taken from the tree and no longer used by
\* the result; and an AVL tree stays one.
THEOREM InsertCorrect ==
    ASSUME NEW key \in Key, NEW value \in Value, NEW x \in Handle, Sound[x]
    PROVE  Inserts(x, InsertedAt(key, value)[x], key, value)
<1> DEFINE at == InsertedAt(key, value)
           Right(y) == y \in Handle /\ Sound[y] => Inserts(y, at[y], key, value)
           S == {y \in Tree : Right(y)}
<1>1. ASSUME NEW y \in Tree,
             Deref(y).t = "branch" => Deref(y).c[1] \in S /\ Deref(y).c[2] \in S
      PROVE  y \in S
  <2> SUFFICES ASSUME y \in Handle, Sound[y] PROVE Inserts(y, at[y], key, value)
    OBVIOUS
  <2>1. at[y] = InsertInspected(at, y, key, value)
    BY InsertedAtDef
  <2>2. CASE Deref(y).t # "branch"
    BY <2>1, <2>2, InsertEnds
  <2>3. CASE Deref(y).t = "branch"
    <3> DEFINE n == Deref(y)
               h == n.h
               k == n.k
               l == n.c[1]
               r == n.c[2]
    <3>1. Knot(n, h, k, l, r) /\ Sound[l] /\ Sound[r]
      BY <2>3, SoundBranch
    <3>2. l \in Handle /\ r \in Handle
      BY <2>3, HandleFacts
    <3>3. Right(l) /\ Right(r)
      BY <1>1, <2>3
    <3> HIDE DEF at, h, k, l, r
    <3>4. Inserts(l, at[l], key, value) /\ Inserts(r, at[r], key, value)
      BY <3>1, <3>2, <3>3
    <3>5. CASE key < k
      BY <2>1, <3>1, <3>4, <3>5, InsertLeft
    <3>6. CASE ~(key < k)
      BY <2>1, <3>1, <3>4, <3>6, InsertRight
    <3> QED BY <3>5, <3>6
  <2> QED BY <2>2, <2>3
<1> HIDE DEF S
<1>2. Tree \subseteq S
  BY <1>1, Induction
<1>3. Right(x)
  BY <1>2, HandleFacts DEF S
<1> QED BY <1>3

\* No node is no tree.
LEMMA NoTree == Gone \notin Tree
<1>1. Deref(Gone) = Gone /\ Gone.t = "gone"
  BY DEF Gone, Deref
<1> QED BY <1>1, TreeKinds

\* A key that is not in the tree is not found.
LEMMA FindOutside ==
    ASSUME NEW x \in Tree, NEW j \in Key, j \notin Keys[x]
    PROVE  Find[x][j] = Nothing
<1> DEFINE S == {y \in Tree : j \notin Keys[y] => Find[y][j] = Nothing}
<1>1. ASSUME NEW y \in Tree,
             Deref(y).t = "branch" => Deref(y).c[1] \in S /\ Deref(y).c[2] \in S
      PROVE  y \in S
  <2> SUFFICES ASSUME j \notin Keys[y] PROVE Find[y][j] = Nothing
    OBVIOUS
  <2> DEFINE n == Deref(y)
  <2>1. n \in Tree /\ Keys[n] = Keys[y] /\ Find[n] = Find[y]
    BY TreeKinds, SeenThrough
  <2>2. CASE n.t = "branch"
    <3> DEFINE h == n.h
               k == n.k
               l == n.c[1]
               r == n.c[2]
    <3>1. Knot(n, h, k, l, r)
      BY <2>1, <2>2, Knots
    <3>2. l \in S /\ r \in S
      BY <1>1, <2>2
    <3> HIDE DEF n, h, k, l, r
    <3>3. j \notin Keys[l] /\ j \notin Keys[r]
      BY <2>1, <3>1, KnotKeys
    <3>4. Find[n][j] = IF j < k THEN Find[l][j] ELSE Find[r][j]
      BY <3>1, KnotFind
    <3> QED BY <2>1, <3>2, <3>3, <3>4
  <2>3. CASE n.t = "leaf"
    <3> DEFINE k == n.k
               v == n.v
    <3>1. k \in Key /\ v \in Value /\ n = Leaf(k, v)
      BY <2>3, TreeKinds
    <3> HIDE DEF n, k, v
    <3>2. /\ Keys[n] = {k}
          /\ \A i \in Key : Find[n][i] = IF i = k THEN v ELSE Nothing
      BY <3>1, LeafParts
    <3> QED BY <2>1, <3>2
  <2>4. CASE n.t = "empty"
    BY <2>1, <2>4, TreeKinds, EmptyParts
  <2> QED BY <2>2, <2>3, <2>4, TreeKinds
<1> HIDE DEF S
<1>2. Tree \subseteq S
  BY <1>1, Induction
<1> QED BY <1>2 DEF S

\* Balancing a node that has not changed leaves it sound and no higher.
LEMMA RebalancedNode ==
    ASSUME NEW m \in Tree, Deref(m) = m, Sound[m]
    PROVE  LET p == Rebalanced(m) IN
           /\ p \in Tree /\ p.t # "hash" /\ Sound[p] /\ Keys[p] = Keys[m] /\ Uses[p] \subseteq Uses[m]
           /\ Height(p) <= Height(m) /\ Height(p) \in Nat
           /\ \A j \in Key : Find[p][j] = Find[m][j]
<1> DEFINE p == Rebalanced(m)
<1>1. CASE m.t # "branch"
  <2>1. p = m
    BY <1>1 DEF Rebalanced
  <2>2. m.t # "hash" /\ Height(m) \in Nat
    BY TreeKinds, Heights
  <2> QED BY <2>1, <2>2
<1>2. CASE m.t = "branch"
  <2> DEFINE h == m.h
             k == m.k
             l == m.c[1]
             r == m.c[2]
  <2>1. /\ Knot(m, h, k, l, r) /\ Height(m) = h /\ Apart(l, k, r) /\ Sound[l] /\ Sound[r]
        /\ Height(l) \in 1 .. h - 1 /\ Height(r) \in 1 .. h - 1
    BY <1>2, SoundBranch
  <2> HIDE DEF h, k, l, r, p
  <2>2. h \in Int /\ Height(l) \in 1 .. h /\ Height(r) \in 1 .. h /\ Height(l) # h /\ Height(r) # h
    BY <2>1, KnotParts
  <2>3. Fits(l, h) /\ Fits(r, h)
    BY <2>2 DEF Fits
  <2>4. /\ p \in Tree /\ p.t = "branch" /\ Sound[p] /\ Joins(p, l, k, r)
        /\ Height(p) \in Nat
        /\ Height(p) = h \/ Height(p) = Height(l) + 1 \/ Height(p) = Height(r) + 1
    BY <2>1, <2>2, <2>3, RebalancedBranch DEF p
  <2>5. /\ Keys[m] = Keys[l] \cup Keys[r] /\ Uses[m] = Uses[l] \cup Uses[r]
        /\ \A j \in Key : Find[m][j] = IF j < k THEN Find[l][j] ELSE Find[r][j]
    BY <2>1, KnotKeys, KnotFind
  <2>6. Height(p) <= h
    BY <2>1, <2>2, <2>4
  <2>7. p.t # "hash" /\ Keys[p] = Keys[m] /\ Uses[p] \subseteq Uses[m]
    BY <2>4, <2>5 DEF Joins
  <2>8. \A j \in Key : Find[p][j] = Find[m][j]
    BY <2>4, <2>5 DEF Joins
  <2> QED BY <2>1, <2>4, <2>6, <2>7, <2>8 DEF p
<1> QED BY <1>1, <1>2

\* What remove_at is to make of a handle: r.
Removes(x, r, key) ==
  /\ r.old = Nothing
  /\ IF r.node = Gone
     THEN r.changed /\ Keys[x] \subseteq {key} /\ Spares(x, r.dead, {})
     ELSE /\ r.node \in Tree /\ Sound[r.node] /\ Keys[r.node] = Keys[x] \ {key}
          /\ ~(Keys[x] \subseteq {key})
          /\ \A j \in Key : Find[r.node][j] = IF j = key THEN Nothing ELSE Find[x][j]
          /\ Height(r.node) <= Height(x) /\ Spares(x, r.dead, Uses[r.node])
          /\ IF r.changed THEN r.node.t # "hash" ELSE r.node = x /\ r.dead = {}

\* A branch, when the key belongs to the first child.
LEMMA RemoveLeft ==
    ASSUME NEW at, NEW key \in Key, NEW x \in Tree, Sound[x],
           NEW h, NEW k, NEW l, NEW r, Knot(Deref(x), h, k, l, r),
           key < k, Removes(l, at[l], key)
    PROVE  Removes(x, RemoveInspected(at, x, key), key)
<1> DEFINE n == Deref(x)
           r1 == at[l]
           z == r1.node
           res == RemoveInspected(at, x, key)
<1>1. /\ n \in Tree /\ Sound[n] /\ Keys[x] = Keys[n] /\ Find[x] = Find[n]
      /\ Height(x) = Height(n)
  BY TreeKinds, SeenThrough
<1>2. /\ n.t = "branch" /\ n.k = k /\ n.c[1] = l /\ n.c[2] = r /\ l \in Tree /\ r \in Tree
      /\ k \in Int /\ key \in Int /\ h \in Int
  BY KnotParts, AvlAssumption
<1>3. /\ Sound[l] /\ Sound[r] /\ Apart(l, k, r)
      /\ Height(l) \in 1 .. h - 1 /\ Height(r) \in 1 .. h - 1
  BY <1>1, KnotSound
<1>4. /\ Keys[n] = Keys[l] \cup Keys[r] /\ Uses[n] = Uses[l] \cup Uses[r] /\ Height(n) = h
      /\ \A j \in Key : Find[n][j] = IF j < k THEN Find[l][j] ELSE Find[r][j]
  BY KnotKeys, KnotFind
<1>5. res = IF ~r1.changed THEN Restored(x, r1.old)
            ELSE Replaced(x, IF z = Gone THEN Deref(r) ELSE Grafted(n, 1, z), r1.old, r1.dead)
  <2>1. Side(key, n) = 1 /\ Other(1) = 2
    BY <1>2 DEF Side, Other
  <2>2. n.t # "empty" /\ n.t # "leaf"
    BY <1>2
  <2> HIDE DEF n
  <2> QED BY <1>2, <2>1, <2>2 DEF RemoveInspected, Grafted, n
<1>6. r1.old = Nothing /\ key \notin Keys[r]
  BY <1>2, <1>3 DEF Removes, Apart
<1>7. Keys[r] # {} /\ Keys[r] \subseteq Keys[x]
  BY <1>1, <1>3, <1>4 DEF Apart
<1>8. ASSUME ~r1.changed PROVE Removes(x, res, key)
  <2>1. /\ res.node = x /\ res.changed = FALSE /\ res.old = Nothing /\ res.dead = {}
    BY <1>5, <1>6, <1>8 DEF Restored
  <2>2. z = l /\ z # Gone
    BY <1>2, <1>8, NoTree DEF Removes
  <2>3. Keys[x] = Keys[x] \ {key}
    BY <1>1, <1>4, <1>6, <2>2 DEF Removes
  <2>4. \A j \in Key : Find[x][j] = IF j = key THEN Nothing ELSE Find[x][j]
    BY <1>1, <1>2, <1>4, <2>2 DEF Removes
  <2>5. Height(x) <= Height(x) /\ x # Gone
    BY <1>1, <1>2, <1>4, NoTree
  <2>6. Spares(x, {}, Uses[x])
    BY DEF Spares
  <2>7. ~(Keys[x] \subseteq {key})
    BY <1>6, <1>7
  <2> HIDE DEF res, r1, z
  <2> QED BY <2>1, <2>3, <2>4, <2>5, <2>6, <2>7 DEF Removes
<1>9. ASSUME r1.changed, z = Gone PROVE Removes(x, res, key)
  <2> DEFINE m == Deref(r)
             p == Rebalanced(m)
  <2>1. /\ res.node = p /\ res.changed = TRUE /\ res.old = Nothing /\ res.dead = r1.dead \cup Dead(x)
    BY <1>5, <1>6, <1>9 DEF Replaced
  <2>2. /\ m \in Tree /\ Deref(m) = m /\ Sound[m] /\ Keys[m] = Keys[r] /\ Find[m] = Find[r]
        /\ Height(m) = Height(r) /\ Uses[m] \subseteq Uses[r]
    BY <1>2, <1>3, TreeKinds, SeenThrough
  <2> HIDE DEF m, res, r1, z, n, p
  <2>3. /\ p \in Tree /\ p.t # "hash" /\ Sound[p] /\ Keys[p] = Keys[m] /\ Uses[p] \subseteq Uses[m]
        /\ Height(p) <= Height(m) /\ Height(p) \in Nat
        /\ \A j \in Key : Find[p][j] = Find[m][j]
    BY <2>2, RebalancedNode DEF p
  <2>4. Keys[l] \subseteq {key} /\ Spares(l, r1.dead, {})
    BY <1>9 DEF Removes, r1, z
  <2>5. Keys[p] = Keys[x] \ {key}
    BY <1>1, <1>4, <1>6, <2>2, <2>3, <2>4
  <2>6. \A j \in Key : Find[p][j] = IF j = key THEN Nothing ELSE Find[x][j]
    <3> SUFFICES ASSUME NEW j \in Key PROVE Find[p][j] = IF j = key THEN Nothing ELSE Find[x][j]
      OBVIOUS
    <3>1. Find[p][j] = Find[r][j] /\ Find[x][j] = IF j < k THEN Find[l][j] ELSE Find[r][j]
      BY <1>1, <1>4, <2>2, <2>3
    <3>2. j \notin Keys[l] => Find[l][j] = Nothing
      BY <1>2, FindOutside
    <3>3. j \notin Keys[r] => Find[r][j] = Nothing
      BY <1>2, FindOutside
    <3>4. (j \in Keys[l] => j < k) /\ (j \in Keys[r] => k <= j) /\ j \in Int
      BY <1>3, AvlAssumption DEF Apart
    <3> QED BY <1>2, <1>6, <2>4, <3>1, <3>2, <3>3, <3>4
  <2>7. Spares(x, r1.dead \cup Dead(x), {} \cup Uses[r])
    BY <2>4, DeadApartLeft
  <2>8. Spares(x, r1.dead \cup Dead(x), Uses[p])
    BY <2>2, <2>3, <2>7 DEF Spares
  <2>9. Height(p) <= Height(x) /\ p # Gone /\ ~(Keys[x] \subseteq {key})
    BY <1>1, <1>2, <1>3, <1>4, <1>6, <1>7, <2>2, <2>3, NoTree
  <2> QED BY <2>1, <2>3, <2>5, <2>6, <2>8, <2>9 DEF Removes
<1>10. ASSUME r1.changed, z # Gone PROVE Removes(x, res, key)
  <2> DEFINE p == Rebalanced(Grafted(n, 1, z))
  <2>1. /\ res.node = p /\ res.changed = TRUE /\ res.old = Nothing /\ res.dead = r1.dead \cup Dead(x)
    BY <1>5, <1>6, <1>10 DEF Replaced
  <2>2. /\ z \in Tree /\ Sound[z] /\ Keys[z] = Keys[l] \ {key} /\ Keys[z] # {}
        /\ \A j \in Key : Find[z][j] = IF j = key THEN Nothing ELSE Find[l][j]
        /\ Height(z) <= Height(l) /\ Spares(l, r1.dead, Uses[z])
    BY <1>10 DEF Removes
  <2>3. /\ \A j \in Keys[z] : j < k
        /\ Height(z) <= Height(l) + 1 /\ Fits(z, Height(l) + 1)
    <3>1. \A j \in Keys[z] : j < k
      BY <1>3, <2>2 DEF Apart
    <3>2. Height(z) \in Nat
      BY <2>2, Heights
    <3>3. Height(z) <= Height(l) + 1 /\ Height(z) # Height(l) + 1
      BY <1>3, <2>2, <3>2
    <3> QED BY <3>1, <3>3 DEF Fits
  <2> HIDE DEF n, res, r1, z, p
  <2>4. /\ p \in Tree /\ p.t = "branch" /\ Sound[p] /\ Joins(p, z, k, r)
        /\ Height(p) \in Nat
        /\ Height(z) <= Height(l) => Height(p) <= h
    BY <1>1, <2>2, <2>3, RegraftedLeft DEF n, p
  <2>5. Keys[p] = Keys[x] \ {key}
    BY <1>1, <1>4, <1>6, <2>2, <2>4 DEF Joins
  <2>6. \A j \in Key : Find[p][j] = IF j = key THEN Nothing ELSE Find[x][j]
    BY <1>1, <1>2, <1>4, <2>2, <2>4 DEF Joins
  <2>7. Spares(x, r1.dead \cup Dead(x), Uses[z] \cup Uses[r])
    BY <2>2, DeadApartLeft DEF n
  <2>8. Spares(x, r1.dead \cup Dead(x), Uses[p])
    BY <2>4, <2>7 DEF Joins, Spares
  <2>9. Height(p) <= Height(x) /\ p # Gone /\ ~(Keys[x] \subseteq {key}) /\ p.t # "hash"
    BY <1>1, <1>4, <1>6, <1>7, <2>2, <2>4, NoTree
  <2> QED BY <2>1, <2>4, <2>5, <2>6, <2>8, <2>9 DEF Removes
<1> QED BY <1>8, <1>9, <1>10

\* A branch, when the key belongs to the second child.
LEMMA RemoveRight ==
    ASSUME NEW at, NEW key \in Key, NEW x \in Tree, Sound[x],
           NEW h, NEW k, NEW l, NEW r, Knot(Deref(x), h, k, l, r),
           ~(key < k), Removes(r, at[r], key)
    PROVE  Removes(x, RemoveInspected(at, x, key), key)
<1> DEFINE n == Deref(x)
           r1 == at[r]
           z == r1.node
           res == RemoveInspected(at, x, key)
<1>1. /\ n \in Tree /\ Sound[n] /\ Keys[x] = Keys[n] /\ Find[x] = Find[n]
      /\ Height(x) = Height(n)
  BY TreeKinds, SeenThrough
<1>2. /\ n.t = "branch" /\ n.k = k /\ n.c[2] = r /\ n.c[1] = l /\ l \in Tree /\ r \in Tree
      /\ k \in Int /\ key \in Int /\ h \in Int
  BY KnotParts, AvlAssumption
<1>3. /\ Sound[l] /\ Sound[r] /\ Apart(l, k, r)
      /\ Height(l) \in 1 .. h - 1 /\ Height(r) \in 1 .. h - 1
  BY <1>1, KnotSound
<1>4. /\ Keys[n] = Keys[l] \cup Keys[r] /\ Uses[n] = Uses[l] \cup Uses[r] /\ Height(n) = h
      /\ \A j \in Key : Find[n][j] = IF j < k THEN Find[l][j] ELSE Find[r][j]
  BY KnotKeys, KnotFind
<1>5. res = IF ~r1.changed THEN Restored(x, r1.old)
            ELSE Replaced(x, IF z = Gone THEN Deref(l) ELSE Grafted(n, 2, z), r1.old, r1.dead)
  <2>1. Side(key, n) = 2 /\ Other(2) = 1
    BY <1>2 DEF Side, Other
  <2>2. n.t # "empty" /\ n.t # "leaf"
    BY <1>2
  <2> HIDE DEF n
  <2> QED BY <1>2, <2>1, <2>2 DEF RemoveInspected, Grafted, n
<1>6. r1.old = Nothing /\ key \notin Keys[l]
  BY <1>2, <1>3 DEF Removes, Apart
<1>7. Keys[l] # {} /\ Keys[l] \subseteq Keys[x]
  BY <1>1, <1>3, <1>4 DEF Apart
<1>8. ASSUME ~r1.changed PROVE Removes(x, res, key)
  <2>1. /\ res.node = x /\ res.changed = FALSE /\ res.old = Nothing /\ res.dead = {}
    BY <1>5, <1>6, <1>8 DEF Restored
  <2>2. z = r /\ z # Gone
    BY <1>2, <1>8, NoTree DEF Removes
  <2>3. Keys[x] = Keys[x] \ {key}
    BY <1>1, <1>4, <1>6, <2>2 DEF Removes
  <2>4. \A j \in Key : Find[x][j] = IF j = key THEN Nothing ELSE Find[x][j]
    BY <1>1, <1>2, <1>4, <2>2 DEF Removes
  <2>5. Height(x) <= Height(x) /\ x # Gone
    BY <1>1, <1>2, <1>4, NoTree
  <2>6. Spares(x, {}, Uses[x])
    BY DEF Spares
  <2>7. ~(Keys[x] \subseteq {key})
    BY <1>6, <1>7
  <2> HIDE DEF res, r1, z
  <2> QED BY <2>1, <2>3, <2>4, <2>5, <2>6, <2>7 DEF Removes
<1>9. ASSUME r1.changed, z = Gone PROVE Removes(x, res, key)
  <2> DEFINE m == Deref(l)
             p == Rebalanced(m)
  <2>1. /\ res.node = p /\ res.changed = TRUE /\ res.old = Nothing /\ res.dead = r1.dead \cup Dead(x)
    BY <1>5, <1>6, <1>9 DEF Replaced
  <2>2. /\ m \in Tree /\ Deref(m) = m /\ Sound[m] /\ Keys[m] = Keys[l] /\ Find[m] = Find[l]
        /\ Height(m) = Height(l) /\ Uses[m] \subseteq Uses[l]
    BY <1>2, <1>3, TreeKinds, SeenThrough
  <2> HIDE DEF m, res, r1, z, n, p
  <2>3. /\ p \in Tree /\ p.t # "hash" /\ Sound[p] /\ Keys[p] = Keys[m] /\ Uses[p] \subseteq Uses[m]
        /\ Height(p) <= Height(m) /\ Height(p) \in Nat
        /\ \A j \in Key : Find[p][j] = Find[m][j]
    BY <2>2, RebalancedNode DEF p
  <2>4. Keys[r] \subseteq {key} /\ Spares(r, r1.dead, {})
    BY <1>9 DEF Removes, r1, z
  <2>5. Keys[p] = Keys[x] \ {key}
    BY <1>1, <1>4, <1>6, <2>2, <2>3, <2>4
  <2>6. \A j \in Key : Find[p][j] = IF j = key THEN Nothing ELSE Find[x][j]
    <3> SUFFICES ASSUME NEW j \in Key PROVE Find[p][j] = IF j = key THEN Nothing ELSE Find[x][j]
      OBVIOUS
    <3>1. Find[p][j] = Find[l][j] /\ Find[x][j] = IF j < k THEN Find[l][j] ELSE Find[r][j]
      BY <1>1, <1>4, <2>2, <2>3
    <3>2. j \notin Keys[l] => Find[l][j] = Nothing
      BY <1>2, FindOutside
    <3>3. j \notin Keys[r] => Find[r][j] = Nothing
      BY <1>2, FindOutside
    <3>4. (j \in Keys[l] => j < k) /\ (j \in Keys[r] => k <= j) /\ j \in Int
      BY <1>3, AvlAssumption DEF Apart
    <3> QED BY <1>2, <1>6, <2>4, <3>1, <3>2, <3>3, <3>4
  <2>7. Spares(x, r1.dead \cup Dead(x), {} \cup Uses[l])
    BY <2>4, DeadApartRight
  <2>8. Spares(x, r1.dead \cup Dead(x), Uses[p])
    BY <2>2, <2>3, <2>7 DEF Spares
  <2>9. Height(p) <= Height(x) /\ p # Gone /\ ~(Keys[x] \subseteq {key})
    BY <1>1, <1>2, <1>3, <1>4, <1>6, <1>7, <2>2, <2>3, NoTree
  <2> QED BY <2>1, <2>3, <2>5, <2>6, <2>8, <2>9 DEF Removes
<1>10. ASSUME r1.changed, z # Gone PROVE Removes(x, res, key)
  <2> DEFINE p == Rebalanced(Grafted(n, 2, z))
  <2>1. /\ res.node = p /\ res.changed = TRUE /\ res.old = Nothing /\ res.dead = r1.dead \cup Dead(x)
    BY <1>5, <1>6, <1>10 DEF Replaced
  <2>2. /\ z \in Tree /\ Sound[z] /\ Keys[z] = Keys[r] \ {key} /\ Keys[z] # {}
        /\ \A j \in Key : Find[z][j] = IF j = key THEN Nothing ELSE Find[r][j]
        /\ Height(z) <= Height(r) /\ Spares(r, r1.dead, Uses[z])
    BY <1>10 DEF Removes
  <2>3. /\ \A j \in Keys[z] : k <= j
        /\ Height(z) <= Height(r) + 1 /\ Fits(z, Height(r) + 1)
    <3>1. \A j \in Keys[z] : k <= j
      BY <1>3, <2>2 DEF Apart
    <3>2. Height(z) \in Nat
      BY <2>2, Heights
    <3>3. Height(z) <= Height(r) + 1 /\ Height(z) # Height(r) + 1
      BY <1>3, <2>2, <3>2
    <3> QED BY <3>1, <3>3 DEF Fits
  <2> HIDE DEF n, res, r1, z, p
  <2>4. /\ p \in Tree /\ p.t = "branch" /\ Sound[p] /\ Joins(p, l, k, z)
        /\ Height(p) \in Nat
        /\ Height(z) <= Height(r) => Height(p) <= h
    BY <1>1, <2>2, <2>3, RegraftedRight DEF n, p
  <2>5. Keys[p] = Keys[x] \ {key}
    BY <1>1, <1>4, <1>6, <2>2, <2>4 DEF Joins
  <2>6. \A j \in Key : Find[p][j] = IF j = key THEN Nothing ELSE Find[x][j]
    BY <1>1, <1>2, <1>4, <2>2, <2>4 DEF Joins
  <2>7. Spares(x, r1.dead \cup Dead(x), Uses[z] \cup Uses[l])
    BY <2>2, DeadApartRight DEF n
  <2>8. Spares(x, r1.dead \cup Dead(x), Uses[p])
    BY <2>4, <2>7 DEF Joins, Spares
  <2>9. Height(p) <= Height(x) /\ p # Gone /\ ~(Keys[x] \subseteq {key}) /\ p.t # "hash"
    BY <1>1, <1>4, <1>6, <1>7, <2>2, <2>4, NoTree
  <2> QED BY <2>1, <2>4, <2>5, <2>6, <2>8, <2>9 DEF Removes
<1> QED BY <1>8, <1>9, <1>10

\* No branch: the empty node and a leaf of that key give way.
LEMMA RemoveEnds ==
    ASSUME NEW at, NEW key \in Key, NEW x \in Tree, Sound[x], Deref(x).t # "branch"
    PROVE  Removes(x, RemoveInspected(at, x, key), key)
<1> DEFINE n == Deref(x)
           res == RemoveInspected(at, x, key)
<1>1. /\ n \in Tree /\ Keys[x] = Keys[n] /\ Find[x] = Find[n] /\ Height(x) = Height(n)
      /\ Uses[x] = Dead(x) \cup Uses[n] /\ Height(x) \in Nat
  BY TreeKinds, SeenThrough, Heights DEF Own, Dead
<1>2. Rebalanced(Gone) = Gone
  BY DEF Rebalanced, Gone
<1>3. Spares(x, {} \cup Dead(x), {}) /\ Spares(x, {}, Uses[x])
  BY <1>1 DEF Spares
<1>4. CASE n.t = "empty"
  <2>1. /\ res.node = Gone /\ res.changed = TRUE /\ res.old = Nothing /\ res.dead = {} \cup Dead(x)
    BY <1>2, <1>4 DEF RemoveInspected, Replaced
  <2>2. Keys[x] \subseteq {key}
    BY <1>1, <1>4, TreeKinds, EmptyParts
  <2> HIDE DEF res
  <2> QED BY <1>3, <2>1, <2>2 DEF Removes, res
<1>5. CASE n.t = "leaf"
  <2> DEFINE k == n.k
             v == n.v
  <2>1. k \in Key /\ v \in Value /\ n = Leaf(k, v)
    BY <1>5, TreeKinds
  <2>2. res = IF k = key THEN Replaced(x, Gone, Nothing, {}) ELSE Restored(x, Nothing)
    BY <1>5 DEF RemoveInspected
  <2> HIDE DEF n, k, v, res
  <2>3. Keys[x] = {k} /\ \A i \in Key : Find[x][i] = IF i = k THEN v ELSE Nothing
    BY <1>1, <2>1, LeafParts
  <2>4. CASE k = key
    <3>1. /\ res.node = Gone /\ res.changed = TRUE /\ res.old = Nothing /\ res.dead = {} \cup Dead(x)
      BY <1>2, <2>2, <2>4 DEF Replaced
    <3> QED BY <1>3, <2>3, <2>4, <3>1 DEF Removes, res
  <2>5. CASE k # key
    <3>1. /\ res.node = x /\ res.changed = FALSE /\ res.old = Nothing /\ res.dead = {}
      BY <2>2, <2>5 DEF Restored
    <3>2. Keys[x] = Keys[x] \ {key} /\ ~(Keys[x] \subseteq {key}) /\ x # Gone
      BY <2>3, <2>5, NoTree
    <3>3. \A j \in Key : Find[x][j] = IF j = key THEN Nothing ELSE Find[x][j]
      BY <2>3, <2>5
    <3>4. Height(x) <= Height(x)
      BY <1>1
    <3> QED BY <1>3, <3>1, <3>2, <3>3, <3>4 DEF Removes, res
  <2> QED BY <2>4, <2>5
<1> QED BY <1>4, <1>5, TreeKinds

\* remove_at, of a tree in order of any shape: the result is in order without the key,
\* or is no node if there was no other; it is no higher; what goes to death row is taken
\* from the tree and no longer used by the result.  It never reports the value removed.
THEOREM RemoveCorrect ==
    ASSUME NEW key \in Key, NEW x \in Handle, Sound[x]
    PROVE  Removes(x, RemovedAt(key)[x], key)
<1> DEFINE at == RemovedAt(key)
           Right(y) == y \in Handle /\ Sound[y] => Removes(y, at[y], key)
           S == {y \in Tree : Right(y)}
<1>1. ASSUME NEW y \in Tree,
             Deref(y).t = "branch" => Deref(y).c[1] \in S /\ Deref(y).c[2] \in S
      PROVE  y \in S
  <2> SUFFICES ASSUME y \in Handle, Sound[y] PROVE Removes(y, at[y], key)
    OBVIOUS
  <2>1. at[y] = RemoveInspected(at, y, key)
    BY RemovedAtDef
  <2>2. CASE Deref(y).t # "branch"
    BY <2>1, <2>2, RemoveEnds
  <2>3. CASE Deref(y).t = "branch"
    <3> DEFINE n == Deref(y)
               h == n.h
               k == n.k
               l == n.c[1]
               r == n.c[2]
    <3>1. Knot(n, h, k, l, r) /\ Sound[l] /\ Sound[r]
      BY <2>3, SoundBranch
    <3>2. l \in Handle /\ r \in Handle
      BY <2>3, HandleFacts
    <3>3. Right(l) /\ Right(r)
      BY <1>1, <2>3
    <3> HIDE DEF at, h, k, l, r
    <3>4. Removes(l, at[l], key) /\ Removes(r, at[r], key)
      BY <3>1, <3>2, <3>3
    <3>5. CASE key < k
      BY <2>1, <3>1, <3>4, <3>5, RemoveLeft
    <3>6. CASE ~(key < k)
      BY <2>1, <3>1, <3>4, <3>6, RemoveRight
    <3> QED BY <3>5, <3>6
  <2> QED BY <2>2, <2>3
<1> HIDE DEF S
<1>2. Tree \subseteq S
  BY <1>1, Induction
<1>3. Right(x)
  BY <1>2, HandleFacts DEF S
<1> QED BY <1>3

-----------------------------------------------------------------------------
(* Committing.                                                                *)

\* Functions of the handles that a run may come to.
FollowsHere(f, B, T) ==
  \A x \in Handle : f[x] = IF Deref(x).t = "branch"
                          THEN T[<<x, f[Deref(x).c[1]], f[Deref(x).c[2]]>>] ELSE B[x]

\* They too may be defined by what they are of a branch's children.
LEMMA RecursionHere ==
    ASSUME NEW U, NEW B \in [Tree -> U], NEW T \in [Tree \X U \X U -> U]
    PROVE  \E f \in [Handle -> U] : FollowsHere(f, B, T)
<1>1. PICK g \in [Tree -> U] : Follows(g, B, T)
  BY Recursion
<1> DEFINE f == [x \in Handle |-> g[x]]
<1>2. f \in [Handle -> U] /\ \A x \in Handle : f[x] = g[x]
  BY HandleFacts
<1>3. ASSUME NEW x \in Handle
      PROVE  f[x] = IF Deref(x).t = "branch"
                    THEN T[<<x, f[Deref(x).c[1]], f[Deref(x).c[2]]>>] ELSE B[x]
  <2>1. x \in Tree
    BY HandleFacts
  <2>2. Deref(x).t = "branch" => Deref(x).c[1] \in Handle /\ Deref(x).c[2] \in Handle
    BY HandleFacts
  <2> HIDE DEF f
  <2> QED BY <1>1, <1>2, <2>1, <2>2 DEF Follows
<1> HIDE DEF f
<1> QED BY <1>2, <1>3 DEF FollowsHere

\* A branch with other children.
Recast(n, l, r) == [n EXCEPT !.c = [i \in 1 .. 2 |-> IF i = 1 THEN l ELSE r]]

\* It is the branch of these children, and the record of its parts.
LEMMA Recasting ==
    ASSUME NEW n, NEW h, NEW k, NEW l, NEW r, Knot(n, h, k, l, r), NEW p \in Tree, NEW q \in Tree
    PROVE  /\ Knot(Recast(n, p, q), h, k, p, q)
           /\ Recast(n, p, q)
               = [t |-> "branch", h |-> h, k |-> k, c |-> [i \in 1 .. 2 |-> IF i = 1 THEN p ELSE q]]
<1> DEFINE c == [i \in 1 .. 2 |-> IF i = 1 THEN p ELSE q]
           m == [t |-> "branch", h |-> h, k |-> k, c |-> c]
<1>1. c \in [1 .. 2 -> Tree] /\ c[1] = p /\ c[2] = q
  OBVIOUS
<1>2. n = [t |-> "branch", h |-> h, k |-> k, c |-> n.c] /\ h \in Int /\ k \in Key
  BY KnotRecord
<1>3. Recast(n, p, q) = [n EXCEPT !.c = c]
  BY DEF Recast
<1> HIDE DEF c
<1>4. Recast(n, p, q) = m
  BY <1>2, <1>3
<1>5. m \in Tree
  BY <1>1, <1>2, Planted
<1>6. m.t = "branch" /\ m.h = h /\ m.k = k /\ m.c = c
  OBVIOUS
<1> HIDE DEF m
<1>7. Knot(m, h, k, p, q)
  BY <1>1, <1>5, <1>6, Knots
<1> QED BY <1>4, <1>7 DEF m, c

\* A node is put in place of itself or of its hash.
LEMMA Shortening ==
    ASSUME NEW n \in Tree, Deref(n) = n
    PROVE  Shortened(n) \in Tree /\ Shortened(n) \in {n, Hash(n)} /\ Deref(Shortened(n)) = n
<1>1. Hash(n) \in Tree
  BY Planted
<1>2. Deref(Hash(n)) = n
  BY DEF Deref, Hash
<1>3. Shortened(n) \in {n, Hash(n)}
  BY DEF Shortened
<1> QED BY <1>1, <1>2, <1>3

\* What commit_node makes of a handle.
LEMMA PackedAt ==
    ASSUME NEW x \in Handle
    PROVE  /\ x.t = "hash" => Packed[x] = x
           /\ x.t = "branch" => Packed[x] = Shortened(Recast(x, Packed[x.c[1]], Packed[x.c[2]]))
           /\ x.t \notin {"hash", "branch"} => Packed[x] = Shortened(x)
<1> DEFINE U == Tree
           B == [y \in Tree |-> IF y.t = "hash" THEN y ELSE Shortened(y)]
           T == [y \in Tree \X U \X U |->
                   IF y[1].t = "hash" THEN y[1]
                   ELSE IF y[1].t = "branch" THEN Shortened(Recast(y[1], y[2], y[3])) ELSE y[1]]
           E(f, y) == CASE y.t = "hash" -> y
                        [] y.t = "branch" ->
                             Shortened([y EXCEPT !.c = [i \in 1 .. 2 |-> f[y.c[i]]]])
                        [] OTHER -> Shortened(y)
           P(f) == f = [y \in Handle |-> E(f, y)]
<1>1. B \in [Tree -> U]
  <2>1. \A y \in Tree : y.t # "hash" => Shortened(y) \in U
    BY TreeKinds, Shortening
  <2> QED BY <2>1
<1>2. T \in [Tree \X U \X U -> U]
  <2>1. ASSUME NEW y \in Tree, NEW p \in Tree, NEW q \in Tree, y.t = "branch"
        PROVE  Shortened(Recast(y, p, q)) \in Tree
    <3>1. Knot(y, y.h, y.k, y.c[1], y.c[2])
      BY <2>1, Knots
    <3>2. Knot(Recast(y, p, q), y.h, y.k, p, q)
      BY <3>1, Recasting
    <3>3. Recast(y, p, q) \in Tree /\ Deref(Recast(y, p, q)) = Recast(y, p, q)
      BY <3>2, KnotParts
    <3> QED BY <3>3, Shortening
  <2>2. \A y \in Tree \X U \X U : y[1] \in Tree /\ y[2] \in Tree /\ y[3] \in Tree
    OBVIOUS
  <2> QED BY <2>1, <2>2
<1>3. PICK f \in [Handle -> U] : FollowsHere(f, B, T)
  <2> HIDE DEF B, T, U
  <2> QED BY <1>1, <1>2, RecursionHere
<1>4. ASSUME NEW g, NEW y, y.t = "branch"
      PROVE  E(g, y) = Shortened(Recast(y, g[y.c[1]], g[y.c[2]]))
  <2>1. [i \in 1 .. 2 |-> g[y.c[i]]] = [i \in 1 .. 2 |-> IF i = 1 THEN g[y.c[1]] ELSE g[y.c[2]]]
    OBVIOUS
  <2>2. E(g, y) = Shortened([y EXCEPT !.c = [i \in 1 .. 2 |-> g[y.c[i]]]])
    BY <1>4
  <2> QED BY <2>1, <2>2 DEF Recast
<1>5. ASSUME NEW y \in Handle PROVE f[y] = E(f, y)
  <2>1. y \in Tree
    BY HandleFacts
  <2>2. CASE y.t = "hash"
    <3>1. E(f, y) = y
      BY <2>2
    <3>2. B[y] = y
      BY <2>1, <2>2
    <3>3. ASSUME NEW p \in Tree, NEW q \in Tree PROVE T[<<y, p, q>>] = y
      BY <2>1, <2>2
    <3>4. Deref(y).t = "branch" => f[Deref(y).c[1]] \in Tree /\ f[Deref(y).c[2]] \in Tree
      BY HandleFacts
    <3> HIDE DEF B, T, E
    <3> QED BY <1>3, <3>1, <3>2, <3>3, <3>4 DEF FollowsHere
  <2>3. CASE y.t = "branch"
    <3>1. Deref(y) = y
      BY <2>3 DEF Deref
    <3> DEFINE p == f[y.c[1]]
               q == f[y.c[2]]
    <3>2. p \in Tree /\ q \in Tree
      BY <2>3, <3>1, HandleFacts
    <3>3. f[y] = T[<<y, p, q>>]
      BY <1>3, <2>3, <3>1 DEF FollowsHere
    <3>4. E(f, y) = Shortened(Recast(y, p, q))
      BY <1>4, <2>3
    <3> HIDE DEF p, q, E
    <3>5. T[<<y, p, q>>] = Shortened(Recast(y, p, q))
      BY <2>1, <2>3, <3>2
    <3> QED BY <3>3, <3>4, <3>5
  <2>4. CASE y.t \notin {"hash", "branch"}
    <3>1. Deref(y) = y
      BY <2>4 DEF Deref
    <3>2. E(f, y) = Shortened(y)
      BY <2>4
    <3>3. f[y] = B[y]
      BY <1>3, <2>4, <3>1 DEF FollowsHere
    <3>4. B[y] = Shortened(y)
      BY <2>1, <2>4
    <3> QED BY <3>2, <3>3, <3>4
  <2> QED BY <2>2, <2>3, <2>4
<1>6. P(f)
  <2>1. f = [y \in Handle |-> f[y]]
    BY <1>3
  <2> HIDE DEF E
  <2> QED BY <1>5, <2>1
<1>7. P(Packed)
  BY <1>6 DEF Packed
<1>8. P(Packed)
  BY <1>7
<1> HIDE DEF E
<1>9. Packed[x] = E(Packed, x)
  BY <1>8 DEF P
<1> QED BY <1>4, <1>9 DEF E

\* y stands for x: it holds the same and is as high.
Same(x, y) ==
  /\ y \in Tree /\ Keys[y] = Keys[x] /\ Height(y) = Height(x)
  /\ \A j \in Key : Find[y][j] = Find[x][j]
  /\ Sound[x] => Sound[y]
  /\ Even[x] => Even[y]

\* Handles of one node stand for each other.
LEMMA SameNode ==
    ASSUME NEW x \in Tree, NEW y \in Tree, Deref(x) = Deref(y)
    PROVE  Same(x, y)
<1>1. /\ Keys[y] = Keys[x] /\ Height(y) = Height(x) /\ Find[y] = Find[x]
      /\ Sound[y] <=> Sound[x]
      /\ Even[y] <=> Even[x]
  BY SeenThrough
<1> QED BY <1>1 DEF Same

\* Heights are numbers.
LEMMA HeightInt == \A x \in Tree : Height(x) \in Int
<1> SUFFICES ASSUME NEW x \in Tree PROVE Height(x) \in Int
  OBVIOUS
<1>1. /\ Deref(x).t \in {"empty", "leaf", "branch"}
      /\ Deref(x).t = "branch" => Deref(x).h \in Int
  BY TreeKinds
<1> QED BY <1>1 DEF Height

\* And so do branches of handles that stand for each other.
LEMMA SameBranch ==
    ASSUME NEW n, NEW h, NEW k, NEW l, NEW r, Knot(n, h, k, l, r),
           NEW m, NEW p, NEW q, Knot(m, h, k, p, q), Same(l, p), Same(r, q)
    PROVE  Same(n, m)
<1>1. m \in Tree /\ l \in Tree /\ r \in Tree /\ p \in Tree /\ q \in Tree
  BY KnotParts
<1>2. /\ Keys[n] = Keys[l] \cup Keys[r] /\ Height(n) = h
      /\ Keys[m] = Keys[p] \cup Keys[q] /\ Height(m) = h
  BY KnotKeys
<1>3. /\ Keys[p] = Keys[l] /\ Keys[q] = Keys[r]
      /\ Height(p) = Height(l) /\ Height(q) = Height(r)
      /\ Sound[l] => Sound[p]
      /\ Sound[r] => Sound[q]
      /\ Even[l] => Even[p]
      /\ Even[r] => Even[q]
  BY DEF Same
<1>4. ASSUME NEW j \in Key PROVE Find[m][j] = Find[n][j]
  <2>1. Find[n][j] = IF j < k THEN Find[l][j] ELSE Find[r][j]
    BY KnotFind
  <2>2. Find[m][j] = IF j < k THEN Find[p][j] ELSE Find[q][j]
    BY KnotFind
  <2>3. Find[p][j] = Find[l][j] /\ Find[q][j] = Find[r][j]
    BY DEF Same
  <2> QED BY <2>1, <2>2, <2>3
<1>5. Sound[n] => Sound[m]
  <2>1. Sound[n] <=> /\ Height(l) \in 1 .. h - 1 /\ Height(r) \in 1 .. h - 1
                     /\ Apart(l, k, r) /\ Sound[l] /\ Sound[r]
    BY KnotSound
  <2>2. Sound[m] <=> /\ Height(p) \in 1 .. h - 1 /\ Height(q) \in 1 .. h - 1
                     /\ Apart(p, k, q) /\ Sound[p] /\ Sound[q]
    BY KnotSound
  <2>3. Apart(l, k, r) => Apart(p, k, q)
    BY <1>3 DEF Apart
  <2> QED BY <1>3, <2>1, <2>2, <2>3
<1>6. Even[n] => Even[m]
  <2>1. Even[n] <=> Levelled(h, Height(l), Height(r)) /\ Even[l] /\ Even[r]
    BY <1>1, HeightInt, KnotEven
  <2>2. Even[m] <=> Levelled(h, Height(p), Height(q)) /\ Even[p] /\ Even[q]
    BY <1>1, HeightInt, KnotEven
  <2> QED BY <1>3, <2>1, <2>2
<1> QED BY <1>1, <1>2, <1>3, <1>4, <1>5, <1>6 DEF Same

\* What commit_node makes of a handle stands for it.
LEMMA PackedSame ==
    ASSUME NEW x \in Handle
    PROVE  Same(x, Packed[x])
<1> DEFINE Right(y) == y \in Handle => Same(y, Packed[y])
           S == {y \in Tree : Right(y)}
<1>1. ASSUME NEW y \in Tree,
             Deref(y).t = "branch" => Deref(y).c[1] \in S /\ Deref(y).c[2] \in S
      PROVE  y \in S
  <2> SUFFICES ASSUME y \in Handle PROVE Same(y, Packed[y])
    OBVIOUS
  <2>1. CASE y.t = "hash"
    BY <2>1, PackedAt, SameNode
  <2>2. CASE y.t = "branch"
    <3> DEFINE h == y.h
               k == y.k
               l == y.c[1]
               r == y.c[2]
               p == Packed[l]
               q == Packed[r]
               m == Recast(y, p, q)
    <3>1. Deref(y) = y
      BY <2>2 DEF Deref
    <3>2. Knot(y, h, k, l, r)
      BY <2>2, Knots
    <3>3. l \in Handle /\ r \in Handle
      BY <2>2, <3>1, HandleFacts
    <3>4. Right(l) /\ Right(r)
      BY <1>1, <2>2, <3>1
    <3>5. Same(l, p) /\ Same(r, q)
      BY <3>3, <3>4
    <3>6. p \in Tree /\ q \in Tree
      BY <3>5 DEF Same
    <3>7. Packed[y] = Shortened(m)
      BY <2>2, PackedAt
    <3> HIDE DEF h, k, l, r, p, q
    <3>8. Knot(m, h, k, p, q)
      BY <3>2, <3>6, Recasting
    <3> HIDE DEF m
    <3>9. Same(y, m)
      BY <3>2, <3>5, <3>8, SameBranch
    <3>10. m \in Tree /\ Deref(m) = m
      BY <3>8, KnotParts
    <3>11. Packed[y] \in Tree /\ Deref(Packed[y]) = Deref(m)
      BY <3>7, <3>10, Shortening
    <3>12. Same(m, Packed[y])
      BY <3>10, <3>11, SameNode
    <3> QED BY <3>9, <3>12 DEF Same
  <2>3. CASE y.t \notin {"hash", "branch"}
    <3>1. Deref(y) = y
      BY <2>3 DEF Deref
    <3>2. Packed[y] = Shortened(y)
      BY <2>3, PackedAt
    <3>3. Packed[y] \in Tree /\ Deref(Packed[y]) = y
      BY <3>1, <3>2, Shortening
    <3> QED BY <3>1, <3>3, SameNode
  <2> QED BY <2>1, <2>2, <2>3
<1> HIDE DEF S
<1>2. Tree \subseteq S
  BY <1>1, Induction
<1>3. Right(x)
  BY <1>2, HandleFacts DEF S
<1> QED BY <1>3

\* It is no deeper.
LEMMA PackedDepth ==
    ASSUME NEW d \in Nat, d <= MaxDepth
    PROVE  \A x \in Handles(NodesOf[d]) : x \in Handle /\ Packed[x] \in Handles(NodesOf[d])
<1> DEFINE S == {e \in Nat : e <= MaxDepth =>
                   \A x \in Handles(NodesOf[e]) : Packed[x] \in Handles(NodesOf[e])}
<1>1. MaxDepth \in Nat
  BY AvlAssumption
<1>2. ASSUME NEW e \in Nat, e <= MaxDepth, NEW x \in Handles(NodesOf[e])
      PROVE  /\ x \in Handle /\ x \in Tree
             /\ x.t # "hash" => x \in NodesOf[e]
             /\ x.t \notin {"hash", "branch"} => Packed[x] \in Handles(NodesOf[e])
  <2>1. x \in Handle
    BY <1>1, <1>2, Deeper DEF Handle
  <2>2. x \in Tree
    BY <2>1, HandleFacts
  <2>3. Deref(x) \in NodesOf[e] /\ (x.t # "hash" => x = Deref(x))
    BY HandleKinds
  <2>4. ASSUME x.t \notin {"hash", "branch"} PROVE Packed[x] \in Handles(NodesOf[e])
    <3>1. Packed[x] = Shortened(x)
      BY <2>1, <2>4, PackedAt
    <3>2. Packed[x] \in {x, Hash(x)}
      BY <2>2, <2>3, <2>4, <3>1, Shortening
    <3> QED BY <2>3, <2>4, <3>2 DEF Handles, Hash
  <2> QED BY <2>1, <2>2, <2>3, <2>4
<1>3. ASSUME NEW e \in Nat, e <= MaxDepth, NEW x \in Handles(NodesOf[e]), x.t = "hash"
      PROVE  Packed[x] \in Handles(NodesOf[e])
  BY <1>2, <1>3, PackedAt
<1>4. 0 \in S
  <2> SUFFICES ASSUME 0 <= MaxDepth, NEW x \in Handles(NodesOf[0])
               PROVE  Packed[x] \in Handles(NodesOf[0])
    OBVIOUS
  <2>1. x.t # "branch"
    <3> SUFFICES ASSUME x.t = "branch" PROVE FALSE
      OBVIOUS
    <3>1. x \in NodesOf[0]
      BY <1>2
    <3> QED BY <3>1, NodeKinds
  <2> QED BY <1>2, <1>3, <2>1
<1>5. ASSUME NEW e \in Nat, e \in S PROVE e + 1 \in S
  <2> SUFFICES ASSUME e + 1 <= MaxDepth, NEW x \in Handles(NodesOf[e + 1])
               PROVE  Packed[x] \in Handles(NodesOf[e + 1])
    OBVIOUS
  <2>1. e <= MaxDepth /\ e + 1 \in Nat /\ (e + 1) - 1 = e
    BY <1>1
  <2>2. x \in Handle /\ x \in Tree
    BY <1>2, <2>1
  <2>3. CASE x.t = "branch"
    <3> DEFINE p == Packed[x.c[1]]
               q == Packed[x.c[2]]
               c == [i \in 1 .. 2 |-> IF i = 1 THEN p ELSE q]
               m == Recast(x, p, q)
    <3>1. x \in NodesOf[e + 1]
      BY <1>2, <2>1, <2>3
    <3>2. x.h \in Int /\ x.k \in Key /\ x.c \in [1 .. 2 -> Handles(NodesOf[e])]
      BY <2>1, <2>3, <3>1, NodeKinds
    <3>3. p \in Handles(NodesOf[e]) /\ q \in Handles(NodesOf[e])
      BY <1>5, <2>1, <3>2
    <3>4. p \in Tree /\ q \in Tree
      BY <3>3 DEF Tree
    <3>5. Knot(x, x.h, x.k, x.c[1], x.c[2])
      BY <2>2, <2>3, Knots
    <3>6. Packed[x] = Shortened(m)
      BY <2>2, <2>3, PackedAt
    <3> HIDE DEF p, q
    <3>7. m = [t |-> "branch", h |-> x.h, k |-> x.k, c |-> c] /\ m \in Tree /\ Deref(m) = m
      <4>1. ASSUME NEW n, NEW h, NEW k, NEW l, NEW r, Knot(n, h, k, l, r)
            PROVE  /\ Knot(Recast(n, p, q), h, k, p, q)
                   /\ Recast(n, p, q) = [t |-> "branch", h |-> h, k |-> k, c |-> c]
        BY <3>4, <4>1, Recasting
      <4>2. Knot(m, x.h, x.k, p, q) /\ m = [t |-> "branch", h |-> x.h, k |-> x.k, c |-> c]
        BY <3>5, <4>1
      <4> HIDE DEF m
      <4>3. m \in Tree /\ Deref(m) = m
        BY <4>2, KnotParts
      <4> QED BY <4>2, <4>3
    <3>8. c \in [1 .. 2 -> Handles(NodesOf[e])]
      BY <3>3
    <3> HIDE DEF m, c
    <3>9. m \in Grown(NodesOf[e])
      BY <3>2, <3>7, <3>8 DEF Grown
    <3>10. m \in NodesOf[e + 1]
      BY <3>9, NodesOfDef
    <3>11. Packed[x] \in {m, Hash(m)}
      BY <3>6, <3>7, Shortening
    <3> QED BY <3>10, <3>11 DEF Handles, Hash
  <2> QED BY <1>2, <1>3, <2>1, <2>3
<1> HIDE DEF S
<1>6. d \in S
  BY <1>4, <1>5, Counting
<1> QED BY <1>2, <1>6 DEF S

\* Its own node, if commit_node inserts it.
Stores(x) == IF x.t # "hash" /\ Packed[x].t = "hash" THEN {Packed[x].of} ELSE {}

\* The nodes commit_node inserts under a handle.
LEMMA WrittenAt ==
    ASSUME NEW x \in Handle
    PROVE  Written[x] = (IF x.t = "branch" THEN Written[x.c[1]] \cup Written[x.c[2]] ELSE {})
                          \cup Stores(x)
<1> DEFINE U == SUBSET Tree
           Own1(y) == IF y \in Handle THEN Stores(y) ELSE {}
           B == [y \in Tree |-> Own1(y)]
           T == [y \in Tree \X U \X U |->
                   (IF y[1].t = "branch" THEN y[2] \cup y[3] ELSE {}) \cup Own1(y[1])]
           E(f, y) == (IF y.t = "branch" THEN f[y.c[1]] \cup f[y.c[2]] ELSE {}) \cup Stores(y)
           P(f) == f = [y \in Handle |-> E(f, y)]
<1>1. \A y : Own1(y) \in U
  <2> SUFFICES ASSUME NEW y \in Handle, y.t # "hash", Packed[y].t = "hash"
               PROVE  Packed[y].of \in Tree
    BY DEF Stores
  <2>1. Packed[y] \in Tree
    BY PackedSame DEF Same
  <2>2. Deref(Packed[y]) = Packed[y].of
    BY DEF Deref
  <2> QED BY <2>1, <2>2, TreeKinds
<1> HIDE DEF Own1
<1>2. B \in [Tree -> U]
  BY <1>1
<1>3. T \in [Tree \X U \X U -> U]
  BY <1>1
<1>4. PICK f \in [Handle -> U] : FollowsHere(f, B, T)
  <2> HIDE DEF B, T, U
  <2> QED BY <1>2, <1>3, RecursionHere
<1>5. ASSUME NEW y \in Handle PROVE f[y] = E(f, y)
  <2>1. y \in Tree
    BY HandleFacts
  <2>2. B[y] = Stores(y) /\ Own1(y) = Stores(y)
    BY <2>1 DEF Own1
  <2>3. CASE Deref(y).t = "branch"
    <3> DEFINE p == f[Deref(y).c[1]]
               q == f[Deref(y).c[2]]
    <3>1. p \in U /\ q \in U
      BY <2>3, HandleFacts
    <3>2. f[y] = T[<<y, p, q>>]
      BY <1>4, <2>3 DEF FollowsHere
    <3>3. y.t = "branch" => p = f[y.c[1]] /\ q = f[y.c[2]]
      BY DEF Deref
    <3> HIDE DEF p, q
    <3>4. T[<<y, p, q>>] = (IF y.t = "branch" THEN p \cup q ELSE {}) \cup Own1(y)
      BY <2>1, <3>1
    <3> QED BY <2>2, <3>2, <3>3, <3>4
  <2>4. CASE Deref(y).t # "branch"
    <3>1. y.t # "branch"
      BY <2>4 DEF Deref
    <3>2. f[y] = B[y]
      BY <1>4, <2>4 DEF FollowsHere
    <3> QED BY <2>2, <3>1, <3>2
  <2> QED BY <2>3, <2>4
<1>6. P(f)
  <2>1. f = [y \in Handle |-> f[y]]
    BY <1>4
  <2> HIDE DEF E
  <2> QED BY <1>5, <2>1
<1>7. P(Written)
  BY <1>6 DEF Written, Stores
<1>8. P(Written)
  BY <1>7
<1> HIDE DEF E
<1>9. Written[x] = E(Written, x)
  BY <1>8 DEF P
<1> QED BY <1>9 DEF E

\* What commit_node makes of a handle takes from the database what the handle takes,
\* and what commit_node has inserted.
LEMMA PackedUses ==
    ASSUME NEW x \in Handle
    PROVE  Uses[Packed[x]] \subseteq Uses[x] \cup Written[x]
<1> DEFINE Right(y) == y \in Handle => Uses[Packed[y]] \subseteq Uses[y] \cup Written[y]
           S == {y \in Tree : Right(y)}
<1>1. ASSUME NEW y \in Tree,
             Deref(y).t = "branch" => Deref(y).c[1] \in S /\ Deref(y).c[2] \in S
      PROVE  y \in S
  <2> SUFFICES ASSUME y \in Handle PROVE Uses[Packed[y]] \subseteq Uses[y] \cup Written[y]
    OBVIOUS
  <2>1. CASE y.t = "hash"
    BY <2>1, PackedAt
  <2>2. ASSUME NEW m \in Tree, Deref(m) = m, Packed[y] = Shortened(m), y.t # "hash"
        PROVE  Uses[Packed[y]] = Stores(y) \cup Uses[m]
    <3>1. Packed[y] \in Tree /\ Deref(Packed[y]) = m
      BY <2>2, Shortening
    <3>2. Uses[Packed[y]] = Own(Packed[y]) \cup Uses[m]
      BY <3>1, SeenThrough
    <3>3. Own(Packed[y]) = Stores(y)
      BY <2>2 DEF Own, Stores
    <3> QED BY <3>2, <3>3
  <2>3. CASE y.t = "branch"
    <3> DEFINE h == y.h
               k == y.k
               l == y.c[1]
               r == y.c[2]
               p == Packed[l]
               q == Packed[r]
               m == Recast(y, p, q)
    <3>1. Deref(y) = y
      BY <2>3 DEF Deref
    <3>2. Knot(y, h, k, l, r)
      BY <2>3, Knots
    <3>3. l \in Handle /\ r \in Handle
      BY <2>3, <3>1, HandleFacts
    <3>4. Right(l) /\ Right(r)
      BY <1>1, <2>3, <3>1
    <3>5. Uses[p] \subseteq Uses[l] \cup Written[l] /\ Uses[q] \subseteq Uses[r] \cup Written[r]
      BY <3>3, <3>4
    <3>6. p \in Tree /\ q \in Tree
      BY <3>3, PackedSame DEF Same
    <3>7. Packed[y] = Shortened(m)
      BY <2>3, PackedAt
    <3>8. Written[y] = (Written[l] \cup Written[r]) \cup Stores(y)
      BY <2>3, WrittenAt
    <3> HIDE DEF h, k, l, r, p, q
    <3>9. Knot(m, h, k, p, q)
      BY <3>2, <3>6, Recasting
    <3> HIDE DEF m
    <3>10. m \in Tree /\ Deref(m) = m
      BY <3>9, KnotParts
    <3>11. Uses[m] = Uses[p] \cup Uses[q] /\ Uses[y] = Uses[l] \cup Uses[r]
      BY <3>2, <3>9, KnotKeys
    <3>12. Uses[Packed[y]] = Stores(y) \cup Uses[m]
      BY <2>2, <2>3, <3>7, <3>10
    <3> QED BY <3>5, <3>8, <3>11, <3>12
  <2>4. CASE y.t \notin {"hash", "branch"}
    <3>1. Deref(y) = y
      BY <2>4 DEF Deref
    <3>2. Packed[y] = Shortened(y)
      BY <2>4, PackedAt
    <3>3. Uses[Packed[y]] = Stores(y) \cup Uses[y]
      BY <2>2, <2>4, <3>1, <3>2
    <3>4. Stores(y) \subseteq Written[y]
      BY WrittenAt
    <3> QED BY <3>3, <3>4
  <2> QED BY <2>1, <2>3, <2>4
<1> HIDE DEF S
<1>2. Tree \subseteq S
  BY <1>1, Induction
<1>3. Right(x)
  BY <1>2, HandleFacts DEF S
<1> QED BY <1>3

\* The node that commit writes for the root.
LEMMA NodeFacts ==
    ASSUME NEW x \in Handle, x.t # "hash"
    PROVE  LET n == Node(x) IN
           /\ n \in Tree /\ n.t # "hash" /\ Hash(n) \in Handle /\ Same(x, Hash(n))
           /\ Uses[Hash(n)] \subseteq Uses[x] \cup Written[x] \cup {n}
<1> DEFINE n == Node(x)
<1>1. x \in Tree /\ Deref(x) = x
  BY HandleFacts DEF Deref
<1>2. MaxDepth \in Nat
  BY AvlAssumption
<1>3. x \in NodesOf[MaxDepth]
  BY <1>1, <1>2, HandleKinds DEF Handle
<1>4. ASSUME n \in NodesOf[MaxDepth], n.t # "hash", n \in Tree, Same(x, n),
             Uses[n] \subseteq Uses[x] \cup Written[x]
      PROVE  /\ n \in Tree /\ n.t # "hash" /\ Hash(n) \in Handle /\ Same(x, Hash(n))
             /\ Uses[Hash(n)] \subseteq Uses[x] \cup Written[x] \cup {n}
  <2> HIDE DEF n
  <2>1. Hash(n) \in Handle
    BY <1>4 DEF Handle, Handles, Hash
  <2>2. Hash(n) \in Tree
    BY <2>1, HandleFacts
  <2>3. Deref(Hash(n)) = n /\ Deref(n) = n /\ Own(Hash(n)) = {n}
    BY <1>4 DEF Deref, Hash, Own
  <2>4. Same(n, Hash(n))
    BY <1>4, <2>2, <2>3, SameNode
  <2>5. Uses[Hash(n)] = {n} \cup Uses[n]
    BY <2>2, <2>3, SeenThrough
  <2>6. Same(x, Hash(n))
    BY <1>4, <2>4 DEF Same
  <2> QED BY <1>4, <2>1, <2>5, <2>6
<1>5. CASE x.t = "branch"
  <2> DEFINE l == x.c[1]
             r == x.c[2]
             p == Packed[l]
             q == Packed[r]
             c == [i \in 1 .. 2 |-> IF i = 1 THEN p ELSE q]
  <2>1. Knot(x, x.h, x.k, l, r)
    BY <1>1, <1>5, Knots
  <2>2. /\ MaxDepth - 1 \in Nat /\ (MaxDepth - 1) + 1 = MaxDepth
        /\ x.h \in Int /\ x.k \in Key /\ x.c \in [1 .. 2 -> Handles(NodesOf[MaxDepth - 1])]
    BY <1>2, <1>3, <1>5, NodeKinds
  <2>3. p \in Handles(NodesOf[MaxDepth - 1]) /\ q \in Handles(NodesOf[MaxDepth - 1])
    BY <2>2, PackedDepth
  <2>4. l \in Handle /\ r \in Handle
    BY <2>2, PackedDepth
  <2>5. Same(l, p) /\ Same(r, q) /\ p \in Tree /\ q \in Tree
    BY <2>4, PackedSame DEF Same
  <2>6. Uses[p] \subseteq Uses[l] \cup Written[l] /\ Uses[q] \subseteq Uses[r] \cup Written[r]
    BY <2>4, PackedUses
  <2>7. Written[l] \cup Written[r] \subseteq Written[x]
    BY <1>5, WrittenAt
  <2>8. n = Recast(x, p, q)
    <3>1. [i \in 1 .. 2 |-> Packed[x.c[i]]] = c
      OBVIOUS
    <3>2. n = [x EXCEPT !.c = [i \in 1 .. 2 |-> Packed[x.c[i]]]]
      BY <1>5 DEF Node
    <3>3. Recast(x, p, q) = [x EXCEPT !.c = c]
      BY DEF Recast
    <3> HIDE DEF n, c
    <3> QED BY <3>1, <3>2, <3>3
  <2> HIDE DEF n, p, q
  <2>9. /\ Knot(n, x.h, x.k, p, q)
        /\ n = [t |-> "branch", h |-> x.h, k |-> x.k, c |-> c]
    <3>1. ASSUME NEW h, NEW k, NEW i, NEW j, Knot(x, h, k, i, j)
          PROVE  /\ Knot(Recast(x, p, q), h, k, p, q)
                 /\ Recast(x, p, q) = [t |-> "branch", h |-> h, k |-> k, c |-> c]
      BY <2>5, <3>1, Recasting
    <3> QED BY <2>1, <2>8, <3>1
  <2>10. c \in [1 .. 2 -> Handles(NodesOf[MaxDepth - 1])]
    BY <2>3
  <2> HIDE DEF c, l, r
  <2>11. n \in Grown(NodesOf[MaxDepth - 1])
    BY <2>2, <2>9, <2>10 DEF Grown
  <2>12. n \in NodesOf[MaxDepth]
    BY <2>2, <2>11, NodesOfDef
  <2>13. n \in Tree /\ n.t # "hash"
    BY <2>9, KnotParts
  <2>14. Same(x, n)
    BY <2>1, <2>5, <2>9, SameBranch
  <2>15. Uses[n] = Uses[p] \cup Uses[q] /\ Uses[x] = Uses[l] \cup Uses[r]
    BY <2>1, <2>9, KnotKeys
  <2>16. Uses[n] \subseteq Uses[x] \cup Written[x]
    BY <2>6, <2>7, <2>15
  <2> QED BY <1>4, <2>12, <2>13, <2>14, <2>16 DEF n
<1>6. CASE x.t # "branch"
  <2>1. n = x
    BY <1>6 DEF Node
  <2>2. Same(x, x)
    BY <1>1, SameNode
  <2> HIDE DEF n
  <2>3. n \in NodesOf[MaxDepth] /\ n.t # "hash" /\ n \in Tree /\ Same(x, n)
    BY <1>1, <1>3, <2>1, <2>2
  <2> QED BY <1>4, <2>1, <2>3 DEF n
<1> QED BY <1>5, <1>6

-----------------------------------------------------------------------------
(* Reading.                                                                   *)

\* What a lookup makes of a handle, one whose node the database has.
FoundIn(at, x, key) ==
  IF Branches(x) THEN IF key < Deref(x).k THEN at[Child(x, 1)] ELSE at[Child(x, 2)]
  ELSE IF Deref(x).t = "leaf" /\ Deref(x).k = key THEN Deref(x).v ELSE Nothing

\* A lookup goes down one branch after the other.
LEMMA LookUpAt ==
    ASSUME NEW key, NEW x \in Handle
    PROVE  LookUp(key)[x] = IF ~Stored(x) THEN "IncompleteDatabase"
                            ELSE FoundIn(LookUp(key), x, key)
<1> DEFINE U == Value \cup {Nothing, "IncompleteDatabase"}
           End(y) == IF ~Stored(y) THEN "IncompleteDatabase"
                     ELSE IF Deref(y).t = "leaf" /\ Deref(y).k = key THEN Deref(y).v ELSE Nothing
           Fork(y, p, q) == IF ~Stored(y) THEN "IncompleteDatabase"
                            ELSE IF key < Deref(y).k THEN p ELSE q
           B == [y \in Tree |-> End(y)]
           T == [y \in Tree \X U \X U |-> Fork(y[1], y[2], y[3])]
           E(f, y) == IF ~Stored(y) THEN "IncompleteDatabase"
                      ELSE LET n == Deref(y) IN
                           CASE n.t = "empty" -> Nothing
                             [] n.t = "leaf" -> IF n.k = key THEN n.v ELSE Nothing
                             [] n.t = "branch" -> f[n.c[Side(key, n)]]
           P(f) == f = [y \in Handle |-> E(f, y)]
<1>1. \A y \in Tree : End(y) \in U
  BY TreeKinds
<1>2. \A y : \A p, q : p \in U /\ q \in U => Fork(y, p, q) \in U
  OBVIOUS
<1>3. ASSUME NEW g, NEW y \in Tree
      PROVE  E(g, y) = IF Branches(y) THEN Fork(y, g[Child(y, 1)], g[Child(y, 2)]) ELSE End(y)
  BY TreeKinds DEF Branches, Child, Side
<1> HIDE DEF E, End, Fork
<1>4. B \in [Tree -> U]
  BY <1>1
<1>5. T \in [Tree \X U \X U -> U]
  BY <1>2
<1>6. PICK f \in [Handle -> U] : FollowsHere(f, B, T)
  <2> HIDE DEF B, T, U
  <2> QED BY <1>4, <1>5, RecursionHere
<1>7. ASSUME NEW y \in Handle PROVE f[y] = E(f, y)
  <2>1. y \in Tree
    BY HandleFacts
  <2>2. CASE Branches(y)
    <3> DEFINE p == f[Child(y, 1)]
               q == f[Child(y, 2)]
    <3>1. p \in U /\ q \in U
      BY <2>2, HandleFacts DEF Branches, Child
    <3>2. f[y] = T[<<y, p, q>>]
      BY <1>6, <2>2 DEF FollowsHere, Branches, Child
    <3>3. E(f, y) = Fork(y, p, q)
      BY <1>3, <2>1, <2>2
    <3> HIDE DEF p, q
    <3>4. T[<<y, p, q>>] = Fork(y, p, q)
      BY <2>1, <3>1
    <3> QED BY <3>2, <3>3, <3>4
  <2>3. CASE ~Branches(y)
    <3>1. f[y] = B[y]
      BY <1>6, <2>3 DEF FollowsHere, Branches
    <3>2. E(f, y) = End(y)
      BY <1>3, <2>1, <2>3
    <3> QED BY <2>1, <3>1, <3>2
  <2> QED BY <2>2, <2>3
<1>8. P(f)
  <2>1. f = [y \in Handle |-> f[y]]
    BY <1>6
  <2> QED BY <1>7, <2>1
<1>9. P(LookUp(key))
  BY <1>8 DEF LookUp, E
<1>10. LookUp(key)[x] = E(LookUp(key), x)
  <2> HIDE DEF LookUp
  <2> QED BY <1>9
<1>11. x \in Tree
  BY HandleFacts
<1> HIDE DEF LookUp
<1> QED BY <1>3, <1>10, <1>11 DEF FoundIn, End, Fork

\* A tree whose nodes the database has is read as it is.
LEMMA LookUpFinds ==
    ASSUME NEW key \in Key, NEW x \in Handle, Uses[x] \subseteq DOMAIN db \cup {Empty}
    PROVE  LookUp(key)[x] = Find[x][key]
<1> DEFINE at == LookUp(key)
           Right(y) == y \in Handle /\ Uses[y] \subseteq DOMAIN db \cup {Empty}
                         => at[y] = Find[y][key]
           S == {y \in Tree : Right(y)}
<1>1. ASSUME NEW y \in Tree,
             Deref(y).t = "branch" => Deref(y).c[1] \in S /\ Deref(y).c[2] \in S
      PROVE  y \in S
  <2> SUFFICES ASSUME y \in Handle, Uses[y] \subseteq DOMAIN db \cup {Empty}
               PROVE  at[y] = Find[y][key]
    OBVIOUS
  <2>1. Own(y) \subseteq Uses[y]
    BY UsesDef
  <2>2. Stored(y)
    BY <2>1 DEF Stored, Own, BagIn, BagToSet
  <2>3. at[y] = FoundIn(at, y, key)
    BY <2>2, LookUpAt
  <2> HIDE DEF at
  <2>4. CASE Branches(y)
    <3> DEFINE l == Child(y, 1)
               r == Child(y, 2)
    <3>1. l \in Handle /\ r \in Handle /\ Right(l) /\ Right(r)
      BY <1>1, <2>4, HandleFacts DEF Branches, Child
    <3>2. Uses[l] \subseteq Uses[y] /\ Uses[r] \subseteq Uses[y]
      BY <2>4, UsesDef
    <3>3. at[l] = Find[l][key] /\ at[r] = Find[r][key]
      BY <3>1, <3>2
    <3>4. Find[y][key] = IF key < Deref(y).k THEN Find[l][key] ELSE Find[r][key]
      <4>1. Find[y] = [k \in Key |-> IF k < Deref(y).k THEN Find[l][k] ELSE Find[r][k]]
        BY <2>4, FindDef
      <4> QED BY <4>1
    <3> QED BY <2>3, <2>4, <3>3, <3>4 DEF FoundIn
  <2>5. CASE ~Branches(y)
    <3>1. Find[y] = [k \in Key |-> IF Deref(y).t = "leaf" /\ Deref(y).k = k THEN Deref(y).v
                                   ELSE Nothing]
      BY <2>5, FindDef
    <3> QED BY <2>3, <2>5, <3>1 DEF FoundIn
  <2> QED BY <2>4, <2>5
<1> HIDE DEF S
<1>2. Tree \subseteq S
  BY <1>1, Induction
<1>3. Right(x)
  BY <1>2, HandleFacts DEF S
<1> QED BY <1>3

-----------------------------------------------------------------------------
(* Heights.                                                                   *)

\* Of a branch: it is higher than its children, which are not empty.
Above(n) == Height(n.c[1]) \in 1 .. n.h - 1 /\ Height(n.c[2]) \in 1 .. n.h - 1

\* The branches of a sound tree are higher than their children.
LEMMA SoundTowers ==
    ASSUME NEW x \in Handle, Sound[x]
    PROVE  Towers[x]
<1> DEFINE U == BOOLEAN
           B == [y \in Tree |-> TRUE]
           T == [y \in Tree \X U \X U |-> Above(Deref(y[1])) /\ y[2] /\ y[3]]
           E(f, y) == LET n == Deref(y) IN
                      n.t = "branch" =>
                        \A i \in 1 .. 2 : Height(n.c[i]) \in 1 .. n.h - 1 /\ f[n.c[i]]
           P(f) == f = [y \in Handle |-> E(f, y)]
<1>1. \A f, y : E(f, y) \in BOOLEAN
  OBVIOUS
<1>2. ASSUME NEW f, NEW y, \A z \in Handle : f[z] \in BOOLEAN, y \in Handle
      PROVE  E(f, y) <=> (Branches(y) => Above(Deref(y)) /\ f[Child(y, 1)] /\ f[Child(y, 2)])
  <2>1. \A i \in 1 .. 2 : i = 1 \/ i = 2
    OBVIOUS
  <2>2. 1 \in 1 .. 2 /\ 2 \in 1 .. 2
    OBVIOUS
  <2> QED BY <2>1, <2>2, Zenon DEF Branches, Child, Above
<1> HIDE DEF E
<1>3. B \in [Tree -> U]
  OBVIOUS
<1>4. T \in [Tree \X U \X U -> U]
  BY DEF Above
<1>5. PICK f \in [Handle -> U] : FollowsHere(f, B, T)
  <2> HIDE DEF B, T, U
  <2> QED BY <1>3, <1>4, RecursionHere
<1>6. ASSUME NEW y \in Handle PROVE f[y] = E(f, y)
  <2>1. y \in Tree /\ f[y] \in BOOLEAN /\ E(f, y) \in BOOLEAN
    BY <1>1, <1>5, HandleFacts
  <2>2. E(f, y) <=> (Branches(y) => Above(Deref(y)) /\ f[Child(y, 1)] /\ f[Child(y, 2)])
    BY <1>2, <1>5
  <2>3. CASE Branches(y)
    <3> DEFINE p == f[Child(y, 1)]
               q == f[Child(y, 2)]
    <3>1. p \in U /\ q \in U
      BY <2>3, HandleFacts DEF Branches, Child
    <3>2. f[y] = T[<<y, p, q>>]
      BY <1>5, <2>3 DEF FollowsHere, Branches, Child
    <3>3. E(f, y) <=> Above(Deref(y)) /\ p /\ q
      BY <2>2, <2>3
    <3> HIDE DEF p, q
    <3>4. T[<<y, p, q>>] = (Above(Deref(y)) /\ p /\ q)
      BY <2>1, <3>1
    <3> HIDE DEF T
    <3> QED BY <2>1, <3>2, <3>3, <3>4
  <2>4. CASE ~Branches(y)
    <3>1. f[y] = B[y]
      BY <1>5, <2>4 DEF FollowsHere, Branches
    <3> QED BY <2>1, <2>2, <2>4, <3>1
  <2> QED BY <2>3, <2>4
<1>7. P(f)
  <2>1. f = [y \in Handle |-> f[y]]
    BY <1>5
  <2> QED BY <1>6, <2>1
<1>8. P(Towers)
  BY <1>7 DEF Towers, E
<1>9. \A y \in Handle : Towers[y] = E(Towers, y)
  <2> HIDE DEF Towers
  <2> QED BY <1>8
<1>10. \A y \in Handle : Towers[y] \in BOOLEAN
  BY <1>1, <1>9
<1>11. ASSUME NEW y \in Handle
       PROVE  Towers[y] <=> (Branches(y) => /\ Above(Deref(y))
                                            /\ Towers[Child(y, 1)] /\ Towers[Child(y, 2)])
  <2>1. E(Towers, y) <=> (Branches(y) => /\ Above(Deref(y))
                                         /\ Towers[Child(y, 1)] /\ Towers[Child(y, 2)])
    BY <1>2, <1>10
  <2> QED BY <1>9, <2>1
<1> DEFINE Right(y) == y \in Handle /\ Sound[y] => Towers[y]
           S == {y \in Tree : Right(y)}
<1>12. ASSUME NEW y \in Tree,
              Deref(y).t = "branch" => Deref(y).c[1] \in S /\ Deref(y).c[2] \in S
       PROVE  y \in S
  <2> SUFFICES ASSUME y \in Handle, Sound[y] PROVE Towers[y]
    OBVIOUS
  <2>1. CASE Branches(y)
    <3> DEFINE l == Child(y, 1)
               r == Child(y, 2)
    <3>1. l \in Handle /\ r \in Handle /\ Right(l) /\ Right(r)
      BY <1>12, <2>1, HandleFacts DEF Branches, Child
    <3>2. Above(Deref(y)) /\ Sound[l] /\ Sound[r]
      BY <2>1, SoundDef DEF Parted, Above
    <3> QED BY <1>11, <3>1, <3>2
  <2>2. CASE ~Branches(y)
    BY <1>11, <2>2
  <2> QED BY <2>1, <2>2
<1> HIDE DEF S
<1>13. Tree \subseteq S
  BY <1>12, Induction
<1>14. Right(x)
  BY <1>13, HandleFacts DEF S
<1> QED BY <1>14

\* An even tree is an AVL tree.
LEMMA EvenBalanced ==
    ASSUME NEW x \in Handle, Even[x]
    PROVE  Balanced[x]
<1> DEFINE U == BOOLEAN
           B == [y \in Tree |-> TRUE]
           T == [y \in Tree \X U \X U |-> Level(Deref(y[1])) /\ y[2] /\ y[3]]
           E(f, y) == LET n == Deref(y) IN
                      n.t = "branch" =>
                        LET lh == Height(n.c[1])
                            rh == Height(n.c[2])
                        IN  /\ n.h = MaxOf(lh, rh) + 1
                            /\ lh - rh \in -1 .. 1
                            /\ f[n.c[1]] /\ f[n.c[2]]
           P(f) == f = [y \in Handle |-> E(f, y)]
<1>1. \A f, y : E(f, y) \in BOOLEAN
  OBVIOUS
<1>2. ASSUME NEW f, NEW y, \A z \in Handle : f[z] \in BOOLEAN, y \in Handle
      PROVE  E(f, y) <=> (Branches(y) => Level(Deref(y)) /\ f[Child(y, 1)] /\ f[Child(y, 2)])
  BY Zenon DEF Branches, Child, Level
<1> HIDE DEF E
<1>3. B \in [Tree -> U]
  OBVIOUS
<1>4. T \in [Tree \X U \X U -> U]
  BY DEF Level
<1>5. PICK f \in [Handle -> U] : FollowsHere(f, B, T)
  <2> HIDE DEF B, T, U
  <2> QED BY <1>3, <1>4, RecursionHere
<1>6. ASSUME NEW y \in Handle PROVE f[y] = E(f, y)
  <2>1. y \in Tree /\ f[y] \in BOOLEAN /\ E(f, y) \in BOOLEAN
    BY <1>1, <1>5, HandleFacts
  <2>2. E(f, y) <=> (Branches(y) => Level(Deref(y)) /\ f[Child(y, 1)] /\ f[Child(y, 2)])
    BY <1>2, <1>5
  <2>3. CASE Branches(y)
    <3> DEFINE p == f[Child(y, 1)]
               q == f[Child(y, 2)]
    <3>1. p \in U /\ q \in U
      BY <2>3, HandleFacts DEF Branches, Child
    <3>2. f[y] = T[<<y, p, q>>]
      BY <1>5, <2>3 DEF FollowsHere, Branches, Child
    <3>3. E(f, y) <=> Level(Deref(y)) /\ p /\ q
      BY <2>2, <2>3
    <3> HIDE DEF p, q
    <3>4. T[<<y, p, q>>] = (Level(Deref(y)) /\ p /\ q)
      BY <2>1, <3>1
    <3> HIDE DEF T
    <3> QED BY <2>1, <3>2, <3>3, <3>4
  <2>4. CASE ~Branches(y)
    <3>1. f[y] = B[y]
      BY <1>5, <2>4 DEF FollowsHere, Branches
    <3> QED BY <2>1, <2>2, <2>4, <3>1
  <2> QED BY <2>3, <2>4
<1>7. P(f)
  <2>1. f = [y \in Handle |-> f[y]]
    BY <1>5
  <2> QED BY <1>6, <2>1
<1>8. P(Balanced)
  BY <1>7 DEF Balanced, E
<1>9. \A y \in Handle : Balanced[y] = E(Balanced, y)
  <2> HIDE DEF Balanced
  <2> QED BY <1>8
<1>10. \A y \in Handle : Balanced[y] \in BOOLEAN
  BY <1>1, <1>9
<1>11. ASSUME NEW y \in Handle
       PROVE  Balanced[y] <=> (Branches(y) => /\ Level(Deref(y))
                                              /\ Balanced[Child(y, 1)] /\ Balanced[Child(y, 2)])
  <2>1. E(Balanced, y) <=> (Branches(y) => /\ Level(Deref(y))
                                           /\ Balanced[Child(y, 1)] /\ Balanced[Child(y, 2)])
    BY <1>2, <1>10
  <2> QED BY <1>9, <2>1
<1> DEFINE Right(y) == y \in Handle /\ Even[y] => Balanced[y]
           S == {y \in Tree : Right(y)}
<1>12. ASSUME NEW y \in Tree,
              Deref(y).t = "branch" => Deref(y).c[1] \in S /\ Deref(y).c[2] \in S
       PROVE  y \in S
  <2> SUFFICES ASSUME y \in Handle, Even[y] PROVE Balanced[y]
    OBVIOUS
  <2>1. CASE Branches(y)
    <3> DEFINE l == Child(y, 1)
               r == Child(y, 2)
    <3>1. l \in Handle /\ r \in Handle /\ Right(l) /\ Right(r)
      BY <1>12, <2>1, HandleFacts DEF Branches, Child
    <3>2. Level(Deref(y)) /\ Even[l] /\ Even[r]
      BY <2>1, EvenDef
    <3> QED BY <1>11, <3>1, <3>2
  <2>2. CASE ~Branches(y)
    BY <1>11, <2>2
  <2> QED BY <2>1, <2>2
<1> HIDE DEF S
<1>13. Tree \subseteq S
  BY <1>12, Induction
<1>14. Right(x)
  BY <1>13, HandleFacts DEF S
<1> QED BY <1>14

-----------------------------------------------------------------------------
(* The stored nodes.                                                          *)

\* A bag: every node in it, once at least.
Counted(stored) == stored \in [DOMAIN stored -> Nat \ {0}]

\* A commit removes no other nodes than those it is told to.
LEMMA WithoutKeeps ==
    ASSUME NEW stored, Counted(stored), NEW nodes
    PROVE  /\ Counted(Without(stored, nodes))
           /\ DOMAIN stored \ nodes \subseteq DOMAIN Without(stored, nodes)
<1> DEFINE out == nodes \ {Empty}
           left == [e \in DOMAIN stored |-> IF e \in out THEN stored[e] - 1 ELSE stored[e]]
           w == [e \in {d \in DOMAIN left : left[d] > 0} |-> left[e]]
<1>1. Without(stored, nodes) = w
  <2>1. /\ DOMAIN SetToBag(out) = out
        /\ \A e \in out : SetToBag(out)[e] = 1
    BY DEF SetToBag
  <2>2. [e \in DOMAIN stored |-> IF e \in DOMAIN SetToBag(out) THEN stored[e] - SetToBag(out)[e]
                                 ELSE stored[e]] = left
    BY <2>1
  <2> HIDE DEF left
  <2>3. stored (-) SetToBag(out) = w
    BY <2>2 DEF (-)
  <2> QED BY <2>3 DEF Without
<1>2. \A e \in DOMAIN stored : stored[e] \in Nat \ {0} /\ left[e] \in Int
  BY DEF Counted
<1>3. \A e \in DOMAIN stored : e \notin nodes => left[e] = stored[e]
  OBVIOUS
<1>4. DOMAIN left = DOMAIN stored
  OBVIOUS
<1> HIDE DEF left
<1>5. w \in [DOMAIN w -> Nat \ {0}]
  BY <1>2, <1>4
<1>6. DOMAIN stored \ nodes \subseteq DOMAIN w
  BY <1>2, <1>3, <1>4
<1> QED BY <1>1, <1>5, <1>6 DEF Counted

\* And keeps all that it inserts.
LEMMA WithHolds ==
    ASSUME NEW stored, Counted(stored), NEW nodes
    PROVE  /\ Counted(With(stored, nodes))
           /\ DOMAIN With(stored, nodes) = DOMAIN stored \cup nodes
<1> DEFINE w == [e \in DOMAIN stored \cup nodes |->
                   (IF e \in DOMAIN stored THEN stored[e] ELSE 0)
                   + (IF e \in nodes THEN 1 ELSE 0)]
<1>1. With(stored, nodes) = w
  <2>1. DOMAIN SetToBag(nodes) = nodes /\ \A e \in nodes : SetToBag(nodes)[e] = 1
    BY DEF SetToBag
  <2>2. stored (+) SetToBag(nodes)
         = [e \in DOMAIN stored \cup DOMAIN SetToBag(nodes) |->
              (IF e \in DOMAIN stored THEN stored[e] ELSE 0)
              + (IF e \in DOMAIN SetToBag(nodes) THEN SetToBag(nodes)[e] ELSE 0)]
    BY DEF (+)
  <2>3. stored (+) SetToBag(nodes) = w
    BY <2>1, <2>2
  <2> QED BY <2>3 DEF With
<1>2. \A e \in DOMAIN stored : stored[e] \in Nat \ {0}
  BY DEF Counted
<1>3. w \in [DOMAIN w -> Nat \ {0}] /\ DOMAIN w = DOMAIN stored \cup nodes
  BY <1>2
<1> QED BY <1>1, <1>3 DEF Counted

-----------------------------------------------------------------------------
(* The inductive invariant.                                                   *)

TypeOK ==
  /\ root \in Handle /\ diskRoot \in Handle
  /\ Counted(db) /\ deathRow \subseteq Tree /\ aux \subseteq Key
  /\ contents \in Mapping /\ saved \in Mapping
  /\ shrunk \in BOOLEAN /\ ops \in 0 .. MaxOps

\* A tree in order that maps every key as cs does.
Represents(x, cs) == Sound[x] /\ \A k \in Key : Find[x][k] = cs[k]

\* The database has the nodes a tree takes from it.
Kept(x, stored) == Uses[x] \subseteq DOMAIN stored \cup {Empty}

\* The root and the root on disk are in order and their nodes are stored; nothing the
\* root uses is on death row.  A root that is a hash is the one on disk: else a commit
\* that only empties death row would take nodes from under it.
IInv ==
  /\ TypeOK
  /\ Represents(root, contents) /\ Represents(diskRoot, saved)
  /\ Kept(root, db) /\ Kept(diskRoot, db)
  /\ Uses[root] \cap deathRow \subseteq {Empty}
  /\ root.t = "hash" => root = diskRoot /\ contents = saved
  /\ Present(contents) \subseteq aux
  /\ ~shrunk => Even[root]

\* The root of an empty tree.
LEMMA EmptyRoot ==
    /\ Hash(Empty) \in Handle /\ Hash(Empty).t = "hash"
    /\ Sound[Hash(Empty)] /\ Even[Hash(Empty)] /\ Uses[Hash(Empty)] = {Empty}
    /\ Find[Hash(Empty)] = Find[Empty] /\ \A k \in Key : Find[Hash(Empty)][k] = Nothing
<1>1. MaxDepth \in Nat
  BY AvlAssumption
<1>2. NodesOf[0] \subseteq NodesOf[MaxDepth]
  BY <1>1, Deeper
<1>3. Empty \in NodesOf[0]
  BY NodesOfDef DEF Leafs
<1>4. Hash(Empty) \in Handle
  BY <1>2, <1>3 DEF Handle, Handles, Hash
<1>5. Hash(Empty) \in Tree
  BY <1>4, HandleFacts
<1>6. Hash(Empty).t = "hash" /\ Deref(Hash(Empty)) = Empty /\ Own(Hash(Empty)) = {Empty}
  BY DEF Hash, Deref, Own
<1>7. /\ Sound[Hash(Empty)] <=> Sound[Empty]
      /\ Even[Hash(Empty)] <=> Even[Empty]
      /\ Find[Hash(Empty)] = Find[Empty] /\ Uses[Hash(Empty)] = {Empty} \cup Uses[Empty]
  BY <1>5, <1>6, SeenThrough
<1> QED BY <1>4, <1>6, <1>7, EmptyParts

\* An empty trie over an empty database.
LEMMA InitIInv == Init => IInv
<1> SUFFICES ASSUME Init PROVE IInv
  OBVIOUS
<1>1. contents = [k \in Key |-> Nothing] /\ saved = contents /\ contents \in Mapping
  BY DEF Init, Mapping
<1>2. TypeOK
  <2>1. Counted(db)
    BY DEF Init, Counted, EmptyBag, SetToBag
  <2>2. 0 \in 0 .. MaxOps
    BY AvlAssumption
  <2>3. /\ root = Hash(Empty) /\ diskRoot = Hash(Empty) /\ deathRow = {} /\ aux = {}
        /\ shrunk = FALSE /\ ops = 0
    BY DEF Init
  <2>4. Hash(Empty) \in Handle
    BY EmptyRoot
  <2>5. contents \in Mapping /\ saved \in Mapping
    BY <1>1
  <2> QED BY <2>1, <2>2, <2>3, <2>4, <2>5 DEF TypeOK
<1>3. Represents(root, contents) /\ Represents(diskRoot, saved)
  BY <1>1, EmptyRoot DEF Init, Represents
<1>4. Kept(root, db) /\ Kept(diskRoot, db)
  BY EmptyRoot DEF Init, Kept
<1>5. Present(contents) = {}
  BY <1>1 DEF Present
<1> QED BY <1>1, <1>2, <1>3, <1>4, <1>5, EmptyRoot DEF Init, IInv

\* FatDBMut::insert
LEMMA InsertIInv ==
    ASSUME IInv, NEW k \in Key, NEW v \in Value, Insert(k, v)
    PROVE  IInv'
<1> DEFINE r == InsertedAt(k, v)[root]
<1>1. Inserts(root, r, k, v)
  BY InsertCorrect DEF IInv, TypeOK, Represents
<1>2. /\ ops < MaxOps /\ ops' = ops + 1
      /\ root' = r.node /\ root' \in Handle
      /\ deathRow' = deathRow \cup r.dead
      /\ aux' = IF r.old = Nothing THEN aux \cup {k} ELSE aux
      /\ contents' = [contents EXCEPT ![k] = v]
      /\ UNCHANGED <<diskRoot, db, saved, shrunk>>
  BY DEF Insert
<1> HIDE DEF r
<1>3. root \in Tree
  BY HandleFacts DEF IInv, TypeOK
<1>4. /\ Sound[r.node]
      /\ \A j \in Key : Find[r.node][j] = IF j = k THEN v ELSE Find[root][j]
      /\ r.old = Find[root][k] /\ Spares(root, r.dead, Uses[r.node])
      /\ IF r.changed THEN r.node.t # "hash" ELSE r.node = root /\ r.dead = {}
      /\ Even[root] => Even[r.node]
  BY <1>1 DEF Inserts
<1>5. /\ contents \in Mapping /\ contents' \in Mapping
      /\ contents'[k] = v /\ \A j \in Key : j # k => contents'[j] = contents[j]
  BY <1>2 DEF IInv, TypeOK, Mapping
<1>6. r.dead \subseteq Uses[root] /\ Uses[r.node] \subseteq Uses[root]
      /\ r.dead \cap Uses[r.node] \subseteq {Empty}
  BY <1>4 DEF Spares
<1>7. Uses[root] \subseteq Tree
  BY <1>3, UsesDef
<1>8. TypeOK'
  <2>1. ops' \in 0 .. MaxOps
    BY <1>2, AvlAssumption DEF IInv, TypeOK
  <2> QED BY <1>2, <1>5, <1>6, <1>7, <2>1 DEF IInv, TypeOK
<1>9. Represents(root, contents)'
  <2>1. \A j \in Key : Find[root][j] = contents[j]
    BY DEF IInv, Represents
  <2> QED BY <1>2, <1>4, <1>5, <2>1 DEF Represents
<1>10. Represents(diskRoot, saved)' /\ Kept(diskRoot, db)'
  BY <1>2 DEF IInv, Represents, Kept
<1>11. Kept(root, db)'
  BY <1>2, <1>6 DEF IInv, Kept
<1>12. (Uses[root] \cap deathRow)' \subseteq {Empty}
  BY <1>2, <1>6 DEF IInv
<1>13. (root.t = "hash" => root = diskRoot /\ contents = saved)'
  <2> SUFFICES ASSUME root'.t = "hash" PROVE root' = diskRoot' /\ contents' = saved'
    OBVIOUS
  <2>1. r.node = root
    BY <1>2, <1>4
  <2>2. root = diskRoot /\ contents = saved
    BY <1>2, <2>1 DEF IInv
  <2>3. contents[k] = v
    BY <1>4, <2>1 DEF IInv, Represents
  <2>4. contents' = contents
    BY <1>2, <1>5, <2>3 DEF Mapping
  <2> QED BY <1>2, <2>1, <2>2, <2>4
<1>14. (Present(contents) \subseteq aux)'
  <2>1. \A j \in Key : contents'[j] # Nothing => j \in aux'
    <3> SUFFICES ASSUME NEW j \in Key, contents'[j] # Nothing PROVE j \in aux'
      OBVIOUS
    <3>1. contents[j] # Nothing => j \in aux
      BY DEF IInv, Present
    <3>2. CASE j = k
      <4>1. r.old = contents[k]
        BY <1>4 DEF IInv, Represents
      <4> QED BY <1>2, <3>1, <3>2, <4>1
    <3>3. CASE j # k
      BY <1>2, <1>5, <3>1, <3>3
    <3> QED BY <3>2, <3>3
  <2> QED BY <2>1 DEF Present
<1>15. (~shrunk => Even[root])'
  BY <1>2, <1>4 DEF IInv
<1> QED BY <1>8, <1>9, <1>10, <1>11, <1>12, <1>13, <1>14, <1>15 DEF IInv

\* FatDBMut::remove, and the insert of an empty value
LEMMA RemoveIInv ==
    ASSUME IInv, NEW k \in Key, Remove(k)
    PROVE  IInv'
<1> DEFINE r == RemovedAt(k)[root]
<1>1. Removes(root, r, k)
  BY RemoveCorrect DEF IInv, TypeOK, Represents
<1>2. /\ ops < MaxOps /\ ops' = ops + 1
      /\ IF r.node = Gone
         THEN /\ root' = Hash(Empty) /\ diskRoot' = Hash(Empty)
              /\ saved' = [key \in Key |-> Nothing]
         ELSE root' = r.node /\ root' \in Handle /\ UNCHANGED <<diskRoot, saved>>
      /\ deathRow' = deathRow \cup r.dead
      /\ \/ aux' = IF r.old # Nothing THEN aux \ {k} ELSE aux
         \/ aux' = IF r.old = Nothing THEN aux \cup {k} ELSE aux
      /\ contents' = [contents EXCEPT ![k] = Nothing]
      /\ shrunk' = (shrunk \/ r.changed)
      /\ UNCHANGED db
  BY DEF Remove
<1> HIDE DEF r
<1>3. root \in Tree
  BY HandleFacts DEF IInv, TypeOK
<1>4. r.old = Nothing
  BY <1>1 DEF Removes
<1>5. /\ contents \in Mapping /\ contents' \in Mapping
      /\ contents'[k] = Nothing /\ \A j \in Key : j # k => contents'[j] = contents[j]
  BY <1>2 DEF IInv, TypeOK, Mapping
<1>6. r.dead \subseteq Uses[root]
  BY <1>1 DEF Removes, Spares
<1>7. Uses[root] \subseteq Tree
  BY <1>3, UsesDef
<1>8. aux' \in {aux, aux \cup {k}} /\ ops' \in 0 .. MaxOps /\ deathRow' \subseteq Tree
  BY <1>2, <1>4, <1>6, <1>7, AvlAssumption DEF IInv, TypeOK
<1>9. (Present(contents) \subseteq aux)'
  BY <1>5, <1>8 DEF IInv, Present
<1>10. CASE r.node = Gone
  <2>1. r.changed /\ Keys[root] \subseteq {k}
    BY <1>1, <1>10 DEF Removes
  <2>2. shrunk' = TRUE
    BY <1>2, <2>1
  <2>3. \A j \in Key : contents'[j] = Nothing
    <3> SUFFICES ASSUME NEW j \in Key, j # k PROVE contents[j] = Nothing
      BY <1>5
    <3>1. j \notin Keys[root]
      BY <2>1
    <3>2. Find[root][j] = Nothing
      BY <1>3, <3>1, FindOutside
    <3> QED BY <3>2 DEF IInv, Represents
  <2>4. /\ root' = Hash(Empty) /\ diskRoot' = Hash(Empty)
        /\ saved' = [key \in Key |-> Nothing] /\ db' = db
    BY <1>2, <1>10
  <2>5. contents' = saved' /\ saved' \in Mapping
    BY <1>5, <2>3, <2>4 DEF Mapping
  <2>6. TypeOK'
    BY <1>5, <1>8, <2>2, <2>4, <2>5, EmptyRoot DEF IInv, TypeOK
  <2>7. Represents(root, contents)' /\ Represents(diskRoot, saved)'
    BY <2>3, <2>4, <2>5, EmptyRoot DEF Represents
  <2>8. Kept(root, db)' /\ Kept(diskRoot, db)' /\ (Uses[root] \cap deathRow)' \subseteq {Empty}
    BY <2>4, EmptyRoot DEF Kept
  <2> QED BY <1>9, <2>2, <2>4, <2>5, <2>6, <2>7, <2>8 DEF IInv
<1>11. CASE r.node # Gone
  <2>1. /\ Sound[r.node]
        /\ \A j \in Key : Find[r.node][j] = IF j = k THEN Nothing ELSE Find[root][j]
        /\ Spares(root, r.dead, Uses[r.node])
        /\ IF r.changed THEN r.node.t # "hash" ELSE r.node = root /\ r.dead = {}
    BY <1>1, <1>11 DEF Removes
  <2>2. root' = r.node /\ root' \in Handle /\ diskRoot' = diskRoot /\ saved' = saved /\ db' = db
    BY <1>2, <1>11
  <2>3. Uses[r.node] \subseteq Uses[root] /\ r.dead \cap Uses[r.node] \subseteq {Empty}
    BY <2>1 DEF Spares
  <2>4. shrunk' \in BOOLEAN
    BY <1>2, <2>1 DEF IInv, TypeOK
  <2>5. TypeOK'
    BY <1>5, <1>8, <2>2, <2>4 DEF IInv, TypeOK
  <2>6. Represents(root, contents)'
    <3>1. \A j \in Key : Find[root][j] = contents[j]
      BY DEF IInv, Represents
    <3> QED BY <1>5, <2>1, <2>2, <3>1 DEF Represents
  <2>7. Represents(diskRoot, saved)' /\ Kept(diskRoot, db)' /\ Kept(root, db)'
    BY <2>2, <2>3 DEF IInv, Represents, Kept
  <2>8. (Uses[root] \cap deathRow)' \subseteq {Empty}
    BY <1>2, <2>2, <2>3 DEF IInv
  <2>9. (root.t = "hash" => root = diskRoot /\ contents = saved)'
    <3> SUFFICES ASSUME root'.t = "hash" PROVE root' = diskRoot' /\ contents' = saved'
      OBVIOUS
    <3>1. r.node = root
      BY <2>1, <2>2
    <3>2. root = diskRoot /\ contents = saved
      BY <2>2, <3>1 DEF IInv
    <3>3. contents[k] = Nothing
      BY <2>1, <3>1 DEF IInv, Represents
    <3>4. contents' = contents
      BY <1>2, <1>5, <3>3 DEF Mapping
    <3> QED BY <2>2, <3>1, <3>2, <3>4
  <2>10. (~shrunk => Even[root])'
    <3> SUFFICES ASSUME ~shrunk' PROVE Even[root']
      OBVIOUS
    <3>1. ~shrunk /\ ~r.changed
      BY <1>2
    <3> QED BY <2>1, <2>2, <3>1 DEF IInv
  <2> QED BY <1>9, <2>5, <2>6, <2>7, <2>8, <2>9, <2>10 DEF IInv
<1> QED BY <1>10, <1>11

\* AVLDBMut::commit
LEMMA CommitIInv ==
    ASSUME IInv, Commit
    PROVE  IInv'
<1>1. deathRow' = {} /\ UNCHANGED <<aux, contents, shrunk, ops>>
  BY DEF Commit
<1>2. /\ Counted(Without(db, deathRow))
      /\ DOMAIN db \ deathRow \subseteq DOMAIN Without(db, deathRow)
  BY WithoutKeeps DEF IInv, TypeOK
<1>3. Uses[root] \subseteq DOMAIN Without(db, deathRow) \cup {Empty}
  BY <1>2 DEF IInv, Kept
<1>4. CASE root.t = "hash"
  <2>1. db' = Without(db, deathRow) /\ root' = root /\ diskRoot' = diskRoot /\ saved' = saved
    BY <1>4 DEF Commit
  <2>2. root = diskRoot
    BY <1>4 DEF IInv
  <2>3. TypeOK'
    BY <1>1, <1>2, <2>1 DEF IInv, TypeOK
  <2>4. Kept(root, db)' /\ Kept(diskRoot, db)'
    BY <1>3, <2>1, <2>2 DEF Kept
  <2>5. Represents(root, contents)' /\ Represents(diskRoot, saved)'
    BY <1>1, <2>1 DEF IInv, Represents
  <2> QED BY <1>1, <2>1, <2>3, <2>4, <2>5 DEF IInv, Present
<1>5. CASE root.t # "hash"
  <2> DEFINE n == Node(root)
  <2>1. /\ root' = Hash(n) /\ diskRoot' = root' /\ saved' = contents
        /\ db' = With(Without(db, deathRow), Written[root] \cup {n})
    BY <1>5 DEF Commit
  <2>2. /\ Hash(n) \in Handle /\ Same(root, Hash(n))
        /\ Uses[Hash(n)] \subseteq Uses[root] \cup Written[root] \cup {n}
    BY <1>5, NodeFacts DEF IInv, TypeOK
  <2> HIDE DEF n
  <2>3. /\ Counted(db')
        /\ DOMAIN db' = DOMAIN Without(db, deathRow) \cup (Written[root] \cup {n})
    BY <1>2, <2>1, WithHolds
  <2>4. TypeOK'
    BY <1>1, <2>1, <2>2, <2>3 DEF IInv, TypeOK
  <2>5. Kept(root, db)' /\ Kept(diskRoot, db)'
    BY <1>3, <2>1, <2>2, <2>3 DEF Kept
  <2>6. Represents(root, contents)' /\ Represents(diskRoot, saved)'
    BY <1>1, <2>1, <2>2 DEF IInv, Represents, Same
  <2>7. (~shrunk => Even[root])'
    BY <1>1, <2>1, <2>2 DEF IInv, Same
  <2> QED BY <1>1, <2>1, <2>4, <2>5, <2>6, <2>7 DEF IInv, Present
<1> QED BY <1>4, <1>5

\* Every call keeps the invariant.
LEMMA StepIInv == IInv /\ [Next]_vars => IInv'
<1> SUFFICES ASSUME IInv, [Next]_vars PROVE IInv'
  OBVIOUS
<1>1. ASSUME NEW k \in Key, NEW v \in Value, Insert(k, v) PROVE IInv'
  BY <1>1, InsertIInv
<1>2. ASSUME NEW k \in Key, Remove(k) PROVE IInv'
  BY <1>2, RemoveIInv
<1>3. CASE Commit
  BY <1>3, CommitIInv
<1>4. CASE UNCHANGED vars
  BY <1>4 DEF vars, IInv, TypeOK, Represents, Kept, Present
<1> QED BY <1>1, <1>2, <1>3, <1>4 DEF Next

\* Whatever is called, the root and the root on disk are trees in order that map every
\* key as the calls have; the database has the nodes both name, death row none that
\* the root does; and a root that has not changed since a commit is the one on disk.
THEOREM Invariance == Spec => []IInv
<1>1. Init => IInv
  BY InitIInv
<1>2. IInv /\ [Next]_vars => IInv'
  BY StepIInv
<1> QED BY <1>1, <1>2, PTL DEF Spec

\* Whatever is inserted, removed and committed, every key is found with its last
\* value, and those of the last commit by who opens the tree at its root; no node
\* in use is lost to death row, and the values replaced and the stored keys are told
\* right.
THEOREM Lookups == Spec => []LooksUp
<1>1. IInv => LooksUp
  <2> SUFFICES ASSUME IInv PROVE LooksUp
    OBVIOUS
  <2>1. /\ root \in Handle /\ diskRoot \in Handle /\ Sound[root]
        /\ Uses[root] \subseteq DOMAIN db \cup {Empty}
        /\ Uses[diskRoot] \subseteq DOMAIN db \cup {Empty}
    BY DEF IInv, TypeOK, Represents, Kept
  <2>2. ASSUME NEW k \in Key
        PROVE  Find[root][k] = contents[k] /\ Find[diskRoot][k] = saved[k]
    BY DEF IInv, Represents
  <2>3. ASSUME NEW k \in Key
        PROVE  LookUp(k)[root] = contents[k] /\ LookUp(k)[diskRoot] = saved[k]
    BY <2>1, <2>2, LookUpFinds
  <2>4. ASSUME NEW k \in Key, NEW v \in Value
        PROVE  InsertedAt(k, v)[root].old = contents[k]
    <3>1. Inserts(root, InsertedAt(k, v)[root], k, v)
      BY <2>1, InsertCorrect
    <3> QED BY <2>2, <3>1 DEF Inserts
  <2>5. Present(contents) \subseteq aux
    BY DEF IInv
  <2> QED BY <2>3, <2>4, <2>5 DEF LooksUp
<1> QED BY <1>1, Invariance, PTL

\* A rotation always finds the branches it takes apart, and no height falls below
\* zero; a tree that has only grown is an AVL tree.
THEOREM HeightsSufficient == Spec => []HeightsSuffice
<1>1. IInv => HeightsSuffice
  BY SoundTowers, EvenBalanced DEF IInv, TypeOK, Represents, HeightsSuffice
<1> QED BY <1>1, Invariance, PTL

-----------------------------------------------------------------------------
(* Functions of hashes.                                                      *)

\* A function is defined by an equation that asks at every place only for its
\* values where a measure is less.
AsksBelow(D, V, m, H) ==
  \A x \in D, f \in [D -> V], g \in [D -> V] :
    (\A y \in D : m[y] < m[x] => f[y] = g[y]) => H[<<x, f>>] = H[<<x, g>>]
Solves(D, H, f) == \A x \in D : f[x] = H[<<x, f>>]

\* Such an equation has a solution.
LEMMA Recursively ==
    ASSUME NEW D, NEW V, NEW v0 \in V, NEW m \in [D -> Nat], NEW H \in [D \X [D -> V] -> V],
           AsksBelow(D, V, m, H)
    PROVE  \E f \in [D -> V] : Solves(D, H, f)
<1> DEFINE Good(f, k) == \A x \in D : m[x] < k => f[x] = H[<<x, f>>]
           Has == {k \in Nat : \E f \in [D -> V] : Good(f, k)}
<1>1. Nat \subseteq Has
  <2>1. 0 \in Has
    <3>1. [x \in D |-> v0] \in [D -> V]
      OBVIOUS
    <3>2. Good([x \in D |-> v0], 0)
      OBVIOUS
    <3> QED BY <3>1, <3>2
  <2>2. ASSUME NEW k \in Nat, k \in Has PROVE k + 1 \in Has
    <3>1. PICK f \in [D -> V] : Good(f, k)
      BY <2>2
    <3> DEFINE g == [x \in D |-> IF m[x] < k + 1 THEN H[<<x, f>>] ELSE v0]
    <3>2. g \in [D -> V]
      OBVIOUS
    <3>3. \A y \in D : m[y] < k => g[y] = f[y]
      BY <3>1
    <3>4. \A x \in D : m[x] < k + 1 => g[x] = H[<<x, f>>]
      OBVIOUS
    <3> HIDE DEF g
    <3>5. ASSUME NEW x \in D, m[x] < k + 1 PROVE g[x] = H[<<x, g>>]
      <4>1. \A y \in D : m[y] < m[x] => f[y] = g[y]
        BY <3>3, <3>5
      <4>2. H[<<x, f>>] = H[<<x, g>>]
        BY <3>2, <4>1 DEF AsksBelow
      <4> QED BY <3>4, <3>5, <4>2
    <3>6. Good(g, k + 1)
      BY <3>5
    <3> HIDE DEF Good
    <3> QED BY <3>2, <3>6
  <2> HIDE DEF Has
  <2> QED BY <2>1, <2>2, Counting
<1>2. PICK A \in [Nat -> [D -> V]] : \A k \in Nat : Good(A[k], k)
  <2> DEFINE B == [k \in Nat |-> CHOOSE f \in [D -> V] : Good(f, k)]
  <2> HIDE DEF Good
  <2>1. \A k \in Nat : B[k] \in [D -> V] /\ Good(B[k], k)
    BY <1>1
  <2>2. B \in [Nat -> [D -> V]]
    BY <2>1
  <2> HIDE DEF B
  <2> QED BY <2>1, <2>2
<1> DEFINE F == [x \in D |-> A[m[x] + 1][x]]
<1>3. ASSUME NEW k \in Nat, NEW f \in [D -> V], NEW g \in [D -> V], Good(f, k), Good(g, k)
      PROVE  \A x \in D : m[x] < k => f[x] = g[x]
  <2> DEFINE S == {n \in Nat : n <= k => \A x \in D : m[x] < n => f[x] = g[x]}
  <2>1. 0 \in S
    OBVIOUS
  <2>2. ASSUME NEW n \in Nat, n \in S PROVE n + 1 \in S
    <3>1. ASSUME n + 1 <= k, NEW x \in D, m[x] < n + 1 PROVE f[x] = g[x]
      <4>1. \A y \in D : m[y] < m[x] => f[y] = g[y]
        BY <2>2, <3>1
      <4>2. H[<<x, f>>] = H[<<x, g>>]
        BY <4>1 DEF AsksBelow
      <4>3. m[x] < k
        BY <3>1
      <4> QED BY <1>3, <4>2, <4>3
    <3> QED BY <3>1
  <2> HIDE DEF S
  <2>3. Nat \subseteq S
    BY <2>1, <2>2, Counting
  <2> QED BY <2>3 DEF S
<1>4. \A x \in D : m[x] \in Nat /\ m[x] + 1 \in Nat /\ m[x] < m[x] + 1 /\ A[m[x] + 1] \in [D -> V]
  <2>1. \A x \in D : m[x] \in Nat /\ m[x] + 1 \in Nat /\ m[x] < m[x] + 1
    OBVIOUS
  <2> QED BY <2>1
<1>5. F \in [D -> V]
  BY <1>4
<1>6. ASSUME NEW x \in D PROVE F[x] = H[<<x, F>>]
  <2>1. ASSUME NEW y \in D, m[y] < m[x] PROVE A[m[y] + 1][y] = A[m[x] + 1][y]
    <3>1. PICK k \in Nat : k = m[y] + 1
      BY <1>4
    <3>2. PICK f \in [D -> V] : f = A[k]
      OBVIOUS
    <3>9. PICK l \in Nat : l = m[x] + 1
      BY <1>4
    <3>3. PICK g \in [D -> V] : g = A[l]
      OBVIOUS
    <3>4. Good(f, k)
      BY <1>2, <3>2
    <3>5. Good(g, l)
      BY <1>2, <3>3
    <3>6. k < l
      BY <2>1, <1>4, <3>1, <3>9
    <3>7. Good(g, k)
      <4>1. ASSUME NEW z \in D, m[z] < k PROVE g[z] = H[<<z, g>>]
        <5>1. m[z] \in Nat /\ m[z] < l
          BY <3>6, <4>1, <1>4
        <5> QED BY <3>5, <5>1
      <4> QED BY <4>1
    <3> HIDE DEF Good
    <3>8. \A z \in D : m[z] < k => f[z] = g[z]
      BY <1>3, <3>4, <3>7
    <3> QED BY <3>1, <3>2, <3>3, <3>8, <3>9, <1>4
  <2>2. \A y \in D : m[y] < m[x] => F[y] = A[m[x] + 1][y]
    BY <2>1
  <2>3. F[x] = A[m[x] + 1][x]
    OBVIOUS
  <2>4. A[m[x] + 1][x] = H[<<x, A[m[x] + 1]>>]
    BY <1>2, <1>4
  <2>5. F \in [D -> V] /\ A[m[x] + 1] \in [D -> V]
    BY <1>4, <1>5
  <2> HIDE DEF F
  <2>6. H[<<x, F>>] = H[<<x, A[m[x] + 1]>>]
    BY <2>2, <2>5 DEF AsksBelow
  <2> QED BY <2>3, <2>4, <2>6
<1> QED BY <1>5, <1>6 DEF Solves

-----------------------------------------------------------------------------
(* The Merkle root.                                                          *)

\* The hashes of no leaf or one, and those of the next height.
Ground == {Null} \cup [1 .. 1 -> Item]
Deepened(hashes) == hashes \cup (hashes \X hashes)

\* DigestsOf is what its equation says.
LEMMA DigestsOfDef ==
    /\ DigestsOf[0] = Ground
    /\ \A d \in Nat : DigestsOf[d + 1] = Deepened(DigestsOf[d])
<1> DEFINE Good(g, n) == g = [d \in 0 .. n |-> IF d = 0 THEN Ground ELSE Deepened(g[d - 1])]
           Has == {n \in Nat : \E g : Good(g, n)}
           f == [n \in Nat |-> (CHOOSE g : Good(g, n))[n]]
<1>1. 0 \in Has
  <2> DEFINE g0 == [d \in 0 .. 0 |-> Ground]
  <2>1. Good(g0, 0)
    OBVIOUS
  <2> QED BY <2>1
<1>2. ASSUME NEW n \in Nat, n \in Has PROVE n + 1 \in Has
  <2>1. PICK g : Good(g, n)
    BY <1>2
  <2> DEFINE g1 == [d \in 0 .. n + 1 |-> IF d = n + 1 THEN Deepened(g[n]) ELSE g[d]]
  <2>2. Good(g1, n + 1)
    BY <2>1
  <2> HIDE DEF g1
  <2> QED BY <2>2
<1> HIDE DEF Has
<1>3. Nat \subseteq Has
  BY <1>1, <1>2, Counting
<1>4. ASSUME NEW n \in Nat PROVE Good(CHOOSE g : Good(g, n), n)
  BY <1>3 DEF Has
<1>5. ASSUME NEW n \in Nat, NEW g, NEW g1, Good(g, n), Good(g1, n + 1) PROVE g1[n] = g[n]
  <2> DEFINE S == {d \in Nat : d <= n => g1[d] = g[d]}
  <2>1. 0 \in S
    BY <1>5
  <2>2. ASSUME NEW d \in Nat, d \in S PROVE d + 1 \in S
    BY <1>5, <2>2
  <2> HIDE DEF S
  <2>3. Nat \subseteq S
    BY <2>1, <2>2, Counting
  <2> QED BY <2>3 DEF S
<1>6. ASSUME NEW n \in Nat PROVE f[n] = IF n = 0 THEN Ground ELSE Deepened(f[n - 1])
  <2> DEFINE g == CHOOSE h : Good(h, n)
             g0 == CHOOSE h : Good(h, n - 1)
  <2>1. CASE n = 0
    <3>1. Good(g, n)
      BY <1>4
    <3> HIDE DEF g
    <3>2. g[0] = Ground
      BY <2>1, <3>1
    <3> QED BY <2>1, <3>2 DEF g
  <2>2. CASE n # 0
    <3>1. n - 1 \in Nat /\ (n - 1) + 1 = n
      BY <2>2
    <3>2. Good(g, n) /\ Good(g0, n - 1)
      BY <1>4, <3>1
    <3> HIDE DEF g, g0
    <3>3. g[n - 1] = g0[n - 1]
      BY <1>5, <3>1, <3>2
    <3>4. g[n] = Deepened(g[n - 1])
      BY <2>2, <3>2
    <3> QED BY <2>2, <3>1, <3>3, <3>4 DEF g, g0
  <2> QED BY <2>1, <2>2
<1> HIDE DEF Good
<1>7. f = [n \in Nat |-> IF n = 0 THEN Ground ELSE Deepened(f[n - 1])]
  <2>1. f = [n \in Nat |-> f[n]]
    OBVIOUS
  <2> HIDE DEF f
  <2> QED BY <1>6, <2>1
<1> HIDE DEF f
<1>8. DigestsOf = [n \in Nat |-> IF n = 0 THEN Ground ELSE Deepened(DigestsOf[n - 1])]
  BY <1>7 DEF DigestsOf, Ground, Deepened
<1> QED BY <1>8

\* A hash of a lesser depth is one of a greater.
LEMMA DeeperHashes ==
    ASSUME NEW d \in Nat, NEW e \in Nat, d <= e
    PROVE  DigestsOf[d] \subseteq DigestsOf[e]
<1> DEFINE S == {n \in Nat : DigestsOf[d] \subseteq DigestsOf[d + n]}
<1>1. 0 \in S
  OBVIOUS
<1>2. ASSUME NEW n \in Nat, n \in S PROVE n + 1 \in S
  <2>1. DigestsOf[(d + n) + 1] = Deepened(DigestsOf[d + n])
    BY DigestsOfDef
  <2>2. (d + n) + 1 = d + (n + 1)
    OBVIOUS
  <2> QED BY <1>2, <2>1, <2>2 DEF Deepened
<1> HIDE DEF S
<1>3. e - d \in S
  BY <1>1, <1>2, Counting
<1>4. d + (e - d) = e
  OBVIOUS
<1> QED BY <1>3, <1>4 DEF S

\* A hash is that of an item, or of two hashes that lie one less deep.
LEMMA HashKinds ==
    ASSUME NEW d \in Nat, NEW x \in DigestsOf[d]
    PROVE  \/ x \in Ground /\ Len(x) < 2 /\ x \in Seq(Item)
           \/ /\ x \notin Ground /\ Len(x) = 2
              /\ d # 0 /\ x \in DigestsOf[d - 1] \X DigestsOf[d - 1]
<1> DEFINE Is(n) == \A y \in DigestsOf[n] :
                      \/ y \in Ground /\ Len(y) < 2 /\ y \in Seq(Item)
                      \/ /\ y \notin Ground /\ Len(y) = 2
                         /\ n # 0 /\ y \in DigestsOf[n - 1] \X DigestsOf[n - 1]
           S == {n \in Nat : Is(n)}
<1>0. \A y \in Ground : Len(y) < 2 /\ y \in Seq(Item)
  <2>1. \A y \in [1 .. 1 -> Item] : y \in Seq(Item)
    <3>1. Seq(Item) = UNION {[1 .. n -> Item] : n \in Nat}
      BY SeqDef
    <3>2. 1 \in Nat
      OBVIOUS
    <3> QED BY <3>1, <3>2
  <2>2. \A y \in [1 .. 1 -> Item] : Len(y) = 1
    BY <2>1, LenProperties
  <2>3. <<>> \in Seq(Item) /\ Len(<<>>) = 0
    BY EmptySeq
  <2> SUFFICES ASSUME NEW y \in Ground PROVE Len(y) < 2 /\ y \in Seq(Item)
    OBVIOUS
  <2>4. y = <<>> \/ y \in [1 .. 1 -> Item]
    BY DEF Ground, Null
  <2>5. CASE y = <<>>
    <3>1. Len(<<>>) < 2
      BY Len(<<>>) = 0
    <3>2. Len(y) < 2
      BY <2>5, <3>1, Zenon
    <3>3. y \in Seq(Item)
      BY <2>3, <2>5, Zenon
    <3> QED BY <3>2, <3>3
  <2>6. CASE y \in [1 .. 1 -> Item]
    <3>1. y \in Seq(Item)
      BY <2>1, <2>6, Zenon
    <3>2. Len(y) = 1
      BY <2>2, <2>6, Zenon
    <3> QED BY <3>1, <3>2
  <2> QED BY <2>4, <2>5, <2>6
<1>1. 0 \in S
  BY <1>0, DigestsOfDef
<1>2. ASSUME NEW n \in Nat, n \in S PROVE n + 1 \in S
  <2> SUFFICES ASSUME NEW y \in DigestsOf[n + 1]
               PROVE  \/ y \in Ground /\ Len(y) < 2 /\ y \in Seq(Item)
                      \/ /\ y \notin Ground /\ Len(y) = 2
                         /\ y \in DigestsOf[n] \X DigestsOf[n]
    OBVIOUS
  <2>1. y \in DigestsOf[n] \/ y \in DigestsOf[n] \X DigestsOf[n]
    BY DigestsOfDef DEF Deepened
  <2>2. CASE y \in DigestsOf[n]
    <3>1. CASE n = 0
      BY <1>0, <2>2, <3>1, DigestsOfDef
    <3>2. CASE n # 0
      <4>1. DigestsOf[n - 1] \subseteq DigestsOf[n]
        BY <3>2, DeeperHashes
      <4> QED BY <1>2, <2>2, <4>1
    <3> QED BY <3>1, <3>2
  <2>3. CASE y \in DigestsOf[n] \X DigestsOf[n]
    <3>1. Len(y) = 2
      BY <2>3
    <3> QED BY <1>0, <2>3, <3>1
  <2> QED BY <2>1, <2>2, <2>3
<1> HIDE DEF S
<1>3. d \in S
  BY <1>1, <1>2, Counting
<1> QED BY <1>3 DEF S

\* How deep a hash lies: what is two hashes' is one deeper than either.
LEMMA DepthOfHash ==
    ASSUME NEW n \in Nat
    PROVE  \E m \in [DigestsOf[n] -> Nat] : \A x \in DigestsOf[n] :
             ~(Len(x) < 2) => /\ x[1] \in DigestsOf[n] /\ x[2] \in DigestsOf[n]
                              /\ m[x[1]] < m[x] /\ m[x[2]] < m[x]
<1> DEFINE H == DigestsOf[n]
           Least(x, d) == d \in Nat /\ x \in DigestsOf[d] /\ \A e \in Nat : x \in DigestsOf[e] => d <= e
           m == [x \in H |-> CHOOSE d : Least(x, d)]
<1>1. ASSUME NEW x \in H PROVE \E d : Least(x, d)
  <2> DEFINE Before == {ss \in Nat \X Nat : ss[1] < ss[2]}
             T == {d \in Nat : x \in DigestsOf[d]}
  <2>1. IsWellFoundedOn(Before, Nat)
    BY NatLessThanWellFounded DEF OpToRel
  <2>2. T \subseteq Nat /\ n \in T
    BY <1>1
  <2>3. PICK d \in T : \A k \in T : <<k, d>> \notin Before
    BY <2>1, <2>2, WFMin
  <2>4. \A k \in T : ~(k < d)
    BY <2>2, <2>3
  <2> QED BY <2>2, <2>3, <2>4
<1>2. \A x \in H : Least(x, m[x])
  <2> HIDE DEF Least
  <2> QED BY <1>1
<1> HIDE DEF m
<1>3. m \in [H -> Nat]
  BY <1>2 DEF m
<1>4. ASSUME NEW x \in H, ~(Len(x) < 2)
      PROVE  x[1] \in H /\ x[2] \in H /\ m[x[1]] < m[x] /\ m[x[2]] < m[x]
  <2>1. m[x] \in Nat /\ x \in DigestsOf[m[x]]
    BY <1>2
  <2>2. m[x] # 0 /\ x \in DigestsOf[m[x] - 1] \X DigestsOf[m[x] - 1]
    BY <1>4, <2>1, HashKinds
  <2>3. n # 0 /\ x \in DigestsOf[n - 1] \X DigestsOf[n - 1]
    BY <1>4, HashKinds
  <2>4. DigestsOf[n - 1] \subseteq H
    BY <2>3, DeeperHashes
  <2>5. x[1] \in H /\ x[2] \in H
    BY <2>3, <2>4
  <2>6. PICK d \in Nat : m[x] = d + 1
    BY <2>1, <2>2
  <2>7. x[1] \in DigestsOf[d] /\ x[2] \in DigestsOf[d]
    BY <2>2, <2>6
  <2>8. m[x[1]] <= d /\ m[x[2]] <= d
    BY <1>2, <2>5, <2>7
  <2> QED BY <1>3, <2>5, <2>6, <2>8
<1> QED BY <1>3, <1>4

\* The leaves of a hash are what the equation says, and are items.
LEMMA LeavesDef ==
    ASSUME MaxHeight \in Nat
    PROVE  /\ Leaves \in [Digest -> Seq(Item)]
           /\ \A x \in Digest : Leaves[x] = IF Len(x) < 2 THEN x ELSE Leaves[x[1]] \o Leaves[x[2]]
<1> DEFINE V == Seq(Item)
           R == [p \in Digest \X [Digest -> V] |->
                   IF Len(p[1]) < 2 THEN p[1] ELSE p[2][p[1][1]] \o p[2][p[1][2]]]
<1>1. PICK m \in [Digest -> Nat] : \A x \in Digest :
             ~(Len(x) < 2) => x[1] \in Digest /\ x[2] \in Digest /\ m[x[1]] < m[x] /\ m[x[2]] < m[x]
  BY DepthOfHash DEF Digest
<1>2. \A x \in Digest : Len(x) < 2 => x \in V
  BY HashKinds DEF Digest
<1>3. R \in [Digest \X [Digest -> V] -> V]
  <2>1. ASSUME NEW x \in Digest, NEW f \in [Digest -> V], ~(Len(x) < 2)
        PROVE  f[x[1]] \o f[x[2]] \in V
    <3>1. f[x[1]] \in V /\ f[x[2]] \in V
      BY <1>1, <2>1
    <3> QED BY <3>1, ConcatProperties
  <2> HIDE DEF V
  <2>2. ASSUME NEW p \in Digest \X [Digest -> V] PROVE R[p] \in V
    BY <1>2, <2>1
  <2> QED BY <2>2
<1>4. \A x \in Digest, f \in [Digest -> V] :
        R[<<x, f>>] = IF Len(x) < 2 THEN x ELSE f[x[1]] \o f[x[2]]
  <2> HIDE DEF V
  <2> QED OBVIOUS
<1> HIDE DEF R, V
<1>5. AsksBelow(Digest, V, m, R)
  BY <1>1, <1>4 DEF AsksBelow
<1>6. <<>> \in V
  BY DEF V
<1>7. PICK f \in [Digest -> V] : Solves(Digest, R, f)
  BY <1>3, <1>5, <1>6, Recursively, Zenon
<1>8. f = [x \in Digest |-> IF Len(x) < 2 THEN x ELSE f[x[1]] \o f[x[2]]]
  BY <1>4, <1>7 DEF Solves
<1>9. Leaves = [x \in Digest |-> IF Len(x) < 2 THEN x ELSE Leaves[x[1]] \o Leaves[x[2]]]
  BY <1>8 DEF Leaves
<1>10. \A x \in Digest : Leaves[x] = IF Len(x) < 2 THEN x ELSE Leaves[x[1]] \o Leaves[x[2]]
  BY <1>9
<1> DEFINE S == {n \in Nat : \A x \in Digest : m[x] < n => Leaves[x] \in V}
<1>11. 0 \in S
  OBVIOUS
<1>12. ASSUME NEW n \in Nat, n \in S PROVE n + 1 \in S
  <2> SUFFICES ASSUME NEW x \in Digest, m[x] < n + 1 PROVE Leaves[x] \in V
    OBVIOUS
  <2>1. CASE Len(x) < 2
    BY <1>2, <1>10, <2>1
  <2>2. CASE ~(Len(x) < 2)
    <3>1. x[1] \in Digest /\ x[2] \in Digest /\ m[x[1]] < n /\ m[x[2]] < n
      BY <1>1, <2>2
    <3>2. Leaves[x[1]] \in V /\ Leaves[x[2]] \in V
      BY <1>12, <3>1
    <3>3. Leaves[x[1]] \o Leaves[x[2]] \in V
      BY <3>2, ConcatProperties DEF V
    <3> QED BY <1>10, <2>2, <3>3
  <2> QED BY <2>1, <2>2
<1> HIDE DEF S
<1>13. Nat \subseteq S
  BY <1>11, <1>12, Counting
<1>14. ASSUME NEW x \in Digest PROVE Leaves[x] \in V
  <2>1. m[x] + 1 \in S /\ m[x] < m[x] + 1
    BY <1>13
  <2> QED BY <2>1 DEF S
<1> QED BY <1>9, <1>10, <1>14 DEF V

Lower(a, b) == {1 + d : d \in a \cup b}

\* So are their depths.
LEMMA DepthsDef ==
    ASSUME MaxHeight \in Nat
    PROVE  \A x \in Digest : Depths[x] = IF Len(x) < 2 THEN {0}
                                       ELSE Lower(Depths[x[1]], Depths[x[2]])
<1> DEFINE V == SUBSET Int
           R == [p \in Digest \X [Digest -> V] |->
                   IF Len(p[1]) < 2 THEN {0}
                   ELSE Lower(p[2][p[1][1]], p[2][p[1][2]])]
<1>1. PICK m \in [Digest -> Nat] : \A x \in Digest :
             ~(Len(x) < 2) => x[1] \in Digest /\ x[2] \in Digest /\ m[x[1]] < m[x] /\ m[x[2]] < m[x]
  BY DepthOfHash DEF Digest
<1>3. R \in [Digest \X [Digest -> V] -> V]
  <2>1. ASSUME NEW x \in Digest, NEW f \in [Digest -> V], ~(Len(x) < 2)
        PROVE  Lower(f[x[1]], f[x[2]]) \in V
    <3>1. f[x[1]] \in V /\ f[x[2]] \in V
      BY <1>1, <2>1
    <3> QED BY <3>1 DEF Lower
  <2>0. {0} \in V
    OBVIOUS
  <2> HIDE DEF V
  <2>2. ASSUME NEW p \in Digest \X [Digest -> V] PROVE R[p] \in V
    BY <2>0, <2>1
  <2> QED BY <2>2
<1>4. \A x \in Digest, f \in [Digest -> V] :
        R[<<x, f>>] = IF Len(x) < 2 THEN {0} ELSE Lower(f[x[1]], f[x[2]])
  <2> HIDE DEF V
  <2> QED OBVIOUS
<1> HIDE DEF R, V
<1>5. AsksBelow(Digest, V, m, R)
  BY <1>1, <1>4 DEF AsksBelow
<1>6. {} \in V
  BY DEF V
<1>7. PICK f \in [Digest -> V] : Solves(Digest, R, f)
  BY <1>3, <1>5, <1>6, Recursively, Zenon
<1>8. f = [x \in Digest |-> IF Len(x) < 2 THEN {0} ELSE Lower(f[x[1]], f[x[2]])]
  BY <1>4, <1>7 DEF Solves
<1>9. Depths = [x \in Digest |-> IF Len(x) < 2 THEN {0}
                               ELSE Lower(Depths[x[1]], Depths[x[2]])]
  BY <1>8 DEF Depths, Lower
<1> QED BY <1>9

-----------------------------------------------------------------------------
\* Powers of two: how many leaves a tree of one depth has.
Full[d \in Nat] == IF d = 0 THEN 1 ELSE 2 * Full[d - 1]

\* The powers of two are whole numbers, each twice the one before.
LEMMA FullDef ==
    /\ Full \in [Nat -> Nat]
    /\ Full[0] = 1
    /\ \A d \in Nat : Full[d + 1] = 2 * Full[d]
<1> DEFINE R == [p \in Nat \X [Nat -> Nat] |-> IF p[1] = 0 THEN 1 ELSE 2 * p[2][p[1] - 1]]
           m == [d \in Nat |-> d]
<1>1. R \in [Nat \X [Nat -> Nat] -> Nat] /\ m \in [Nat -> Nat]
  OBVIOUS
<1>2. \A d \in Nat, f \in [Nat -> Nat] : R[<<d, f>>] = IF d = 0 THEN 1 ELSE 2 * f[d - 1]
  OBVIOUS
<1>3. \A d \in Nat : m[d] = d
  OBVIOUS
<1> HIDE DEF R, m
<1>4. AsksBelow(Nat, Nat, m, R)
  BY <1>2, <1>3 DEF AsksBelow
<1>5. 0 \in Nat
  OBVIOUS
<1>6. PICK f \in [Nat -> Nat] : Solves(Nat, R, f)
  BY <1>1, <1>4, <1>5, Recursively, Zenon
<1>7. f = [d \in Nat |-> IF d = 0 THEN 1 ELSE 2 * f[d - 1]]
  BY <1>2, <1>6 DEF Solves
<1>8. Full = [d \in Nat |-> IF d = 0 THEN 1 ELSE 2 * Full[d - 1]]
  BY <1>7 DEF Full
<1>9. \A d \in Nat : Full[d + 1] = 2 * Full[d]
  BY <1>8
<1> DEFINE S == {d \in Nat : Full[d] \in Nat}
<1>10. 0 \in S
  BY <1>8
<1>11. \A d \in Nat : d \in S => d + 1 \in S
  BY <1>9
<1> HIDE DEF S
<1>12. Nat \subseteq S
  BY <1>10, <1>11, Counting
<1>13. \A d \in Nat : Full[d] \in Nat
  BY <1>12 DEF S
<1>14. Full = [d \in Nat |-> Full[d]]
  BY <1>8
<1>15. Full \in [Nat -> Nat]
  BY <1>13, <1>14
<1> QED BY <1>8, <1>9, <1>15

\* Powers of two grow, and faster than their exponents.
LEMMA FullGrows ==
    /\ \A d \in Nat : Full[d] \in Nat /\ d < Full[d]
    /\ \A d, e \in Nat : d <= e => Full[d] <= Full[e]
<1>1. \A d \in Nat : Full[d] \in Nat
  BY FullDef
<1>2. \A d \in Nat : d < Full[d]
  <2> DEFINE S == {d \in Nat : d < Full[d]}
  <2>1. 0 \in S
    BY FullDef
  <2>2. \A d \in Nat : d \in S => d + 1 \in S
    BY <1>1, FullDef
  <2> HIDE DEF S
  <2>3. Nat \subseteq S
    BY <2>1, <2>2, Counting
  <2> QED BY <2>3 DEF S
<1>3. ASSUME NEW d \in Nat, NEW e \in Nat, d <= e PROVE Full[d] <= Full[e]
  <2> DEFINE S == {n \in Nat : Full[d] <= Full[d + n]}
  <2>1. 0 \in S
    BY <1>1
  <2>2. ASSUME NEW n \in Nat, n \in S PROVE n + 1 \in S
    <3>1. Full[(d + n) + 1] = 2 * Full[d + n] /\ (d + n) + 1 = d + (n + 1)
      BY FullDef
    <3>2. Full[d] \in Nat /\ Full[d + n] \in Nat
      BY <1>1
    <3> QED BY <2>2, <3>1, <3>2
  <2> HIDE DEF S
  <2>3. e - d \in S
    BY <1>3, <2>1, <2>2, Counting
  <2>4. d + (e - d) = e
    OBVIOUS
  <2> QED BY <2>3, <2>4 DEF S
<1> QED BY <1>1, <1>2, <1>3

\* lowest_children_len: so many leaves are merged first that a power of two is
\* left, the highest that is not above the number of leaves.
LEMMA Lowest ==
    ASSUME NEW n \in Nat, n # 0
    PROVE  \E k \in Nat : /\ Full[k] <= n /\ n < 2 * Full[k]
                          /\ LowestChildrenLen(n) = 2 * (n - Full[k])
<1> DEFINE D == 1 .. 2 * n + 1
           R == [p \in D \X [D -> Int] |->
                   IF p[1] > n THEN 0 ELSE IF 2 * p[1] > n THEN n - p[1] ELSE p[2][2 * p[1]]]
           m == [i \in D |-> 2 * n + 1 - i]
           F == CHOOSE f : f = [i \in D |-> IF i > n THEN 0 ELSE IF 2 * i > n THEN n - i ELSE f[2 * i]]
<1>1. m \in [D -> Nat] /\ \A i \in D : i <= n => 2 * i \in D /\ m[2 * i] < m[i]
  OBVIOUS
<1>2. R \in [D \X [D -> Int] -> Int]
  OBVIOUS
<1>3. \A i \in D, f \in [D -> Int] :
        R[<<i, f>>] = IF i > n THEN 0 ELSE IF 2 * i > n THEN n - i ELSE f[2 * i]
  OBVIOUS
<1>4. AsksBelow(D, Int, m, R)
  <2>0. D \subseteq Int
    OBVIOUS
  <2> HIDE DEF R, m, D
  <2> SUFFICES ASSUME NEW i \in D, NEW f \in [D -> Int], NEW g \in [D -> Int],
                      \A j \in D : m[j] < m[i] => f[j] = g[j]
               PROVE  R[<<i, f>>] = R[<<i, g>>]
    BY DEF AsksBelow
  <2>1. i \in Int /\ (i <= n => f[2 * i] = g[2 * i])
    BY <1>1, <2>0
  <2> QED BY <1>3, <2>1
<1>5. 0 \in Int
  OBVIOUS
<1>6. PICK f \in [D -> Int] : Solves(D, R, f)
  <2> HIDE DEF R, m, D
  <2> QED BY <1>1, <1>2, <1>4, <1>5, Recursively, Zenon
<1>7. f = [i \in D |-> IF i > n THEN 0 ELSE IF 2 * i > n THEN n - i ELSE f[2 * i]]
  <2> HIDE DEF R, D
  <2> QED BY <1>3, <1>6 DEF Solves
<1>8. F = [i \in D |-> IF i > n THEN 0 ELSE IF 2 * i > n THEN n - i ELSE F[2 * i]]
  <2> HIDE DEF D
  <2> QED BY <1>7
<1>9. LowestChildrenLen(n) = 2 * F[1]
  BY DEF LowestChildrenLen
<1> HIDE DEF F
<1>10. PICK k \in Nat : Full[k] <= n /\ ~(Full[k + 1] <= n)
  <2> DEFINE S == {k \in Nat : Full[k] <= n}
  <2>1. 0 \in S
    BY FullDef
  <2>2. n \notin S
    BY FullGrows
  <2> HIDE DEF S
  <2>3. PICK k \in Nat : k \in S /\ k + 1 \notin S
    BY <2>1, <2>2, Counting
  <2> QED BY <2>3 DEF S
<1>11. Full[k] \in Nat /\ Full[k + 1] = 2 * Full[k]
  BY FullDef
<1>12. F[1] = n - Full[k]
  <2> DEFINE S == {j \in Nat : j <= k => F[Full[k - j]] = n - Full[k]}
  <2>1. 0 \in S
    <3>1. Full[k] \in D /\ ~(Full[k] > n) /\ 2 * Full[k] > n
      BY <1>10, <1>11, FullGrows
    <3>2. F[Full[k]] = n - Full[k]
      BY <1>8, <3>1
    <3> QED BY <3>2
  <2>2. ASSUME NEW j \in Nat, j \in S, j + 1 <= k PROVE F[Full[k - (j + 1)]] = n - Full[k]
    <3> DEFINE i == k - (j + 1)
    <3>1. i \in Nat /\ i + 1 = k - j /\ k - j \in Nat /\ k - j <= k
      BY <2>2
    <3>2. Full[k - j] = 2 * Full[i]
      BY <3>1, FullDef
    <3>3. Full[k - j] <= n /\ Full[k - j] \in Nat
      BY <3>1, <1>10, <1>11, FullGrows
    <3>4. Full[i] \in Nat /\ 0 < Full[i]
      BY <3>1, FullGrows
    <3> HIDE DEF i
    <3>5. Full[i] \in D /\ ~(Full[i] > n) /\ ~(2 * Full[i] > n)
      BY <3>2, <3>3, <3>4
    <3>6. F[Full[i]] = F[2 * Full[i]]
      BY <1>8, <3>5
    <3>7. F[Full[k - j]] = n - Full[k]
      BY <2>2
    <3> QED BY <3>2, <3>6, <3>7 DEF i
  <2> HIDE DEF S
  <2>3. \A j \in Nat : j \in S => j + 1 \in S
    BY <2>2 DEF S
  <2>4. k \in S
    BY <2>1, <2>3, Counting
  <2>5. F[Full[k - k]] = n - Full[k] /\ k - k = 0
    BY <2>4 DEF S
  <2> QED BY <2>5, FullDef
<1> QED BY <1>9, <1>10, <1>11, <1>12

\* The rounds on so many nodes.
AreRounds(f, nodes, p) ==
  /\ f[1] = nodes
  /\ \A d \in 1 .. p : \A j \in 1 .. p :
       (j - 1) % (2 * d) = 0 => f[2 * d][j] = Merge(f[d][j], f[d][j + d])

\* The loop of gen_merkle_root has nodes before every round, and its result is
\* the first node after the last one.
LEMMA Rounds ==
    ASSUME NEW p \in Nat, p # 0, NEW nodes, Len(nodes) = p, DOMAIN nodes = 1 .. p
    PROVE  \E f : Reduced(nodes) = f[p][1] /\ AreRounds(f, nodes, p)
<1> DEFINE Round(d, g) == [j \in DOMAIN nodes |-> IF (j - 1) % d = 0 THEN Merge(g[j], g[j + d \div 2])
                                                                  ELSE g[j]]
           Good(g, i) == g = [d \in 1 .. i |-> IF d = 1 THEN nodes ELSE Round(d, g[d \div 2])]
           Has == {i \in Nat : \E g : Good(g, i)}
           F == CHOOSE g : Good(g, 2 * p)
<1>1. 0 \in Has
  <2> DEFINE g0 == [d \in 1 .. 0 |-> nodes]
  <2>1. Good(g0, 0)
    OBVIOUS
  <2> HIDE DEF Good
  <2> QED BY <2>1
<1> HIDE DEF Round
<1>2. ASSUME NEW i \in Nat, i \in Has PROVE i + 1 \in Has
  <2>1. PICK g : Good(g, i)
    BY <1>2
  <2> DEFINE last == IF i + 1 = 1 THEN nodes ELSE Round(i + 1, g[(i + 1) \div 2])
             g1 == [d \in 1 .. i + 1 |-> IF d = i + 1 THEN last ELSE g[d]]
  <2>2. \A d \in 1 .. i + 1 : d = 1 \/ d \div 2 \in 1 .. i
    OBVIOUS
  <2>3. \A d \in 1 .. i : g1[d] = g[d]
    OBVIOUS
  <2>4. g1[i + 1] = last
    OBVIOUS
  <2>5. \A d \in 1 .. i : g[d] = IF d = 1 THEN nodes ELSE Round(d, g[d \div 2])
    BY <2>1
  <2>6. \A d \in 1 .. i + 1 : g1[d] = IF d = 1 THEN nodes ELSE Round(d, g1[d \div 2])
    <3>1. ASSUME NEW d \in 1 .. i PROVE g1[d] = IF d = 1 THEN nodes ELSE Round(d, g1[d \div 2])
      <4>1. CASE d = 1
        <5> HIDE DEF g1
        <5> QED BY <2>3, <2>5, <4>1
      <4>2. CASE d # 1
        <5>1. d \div 2 \in 1 .. i
          BY <2>2, <4>2
        <5>2. g1[d \div 2] = g[d \div 2]
          BY <2>3, <5>1
        <5>3. g1[d] = g[d]
          BY <2>3
        <5>4. g[d] = Round(d, g[d \div 2])
          BY <2>5, <4>2
        <5> HIDE DEF g1
        <5> QED BY <4>2, <5>2, <5>3, <5>4
      <4> QED BY <4>1, <4>2
    <3>2. g1[i + 1] = IF i + 1 = 1 THEN nodes ELSE Round(i + 1, g1[(i + 1) \div 2])
      <4>1. CASE i + 1 = 1
        <5> HIDE DEF g1
        <5> QED BY <2>4, <4>1
      <4>2. CASE i + 1 # 1
        <5>1. (i + 1) \div 2 \in 1 .. i
          BY <2>2, <4>2
        <5>2. g1[(i + 1) \div 2] = g[(i + 1) \div 2]
          BY <2>3, <5>1
        <5> HIDE DEF g1
        <5> QED BY <2>4, <4>2, <5>2
      <4> QED BY <4>1, <4>2
    <3>3. \A d \in 1 .. i + 1 : d \in 1 .. i \/ d = i + 1
      OBVIOUS
    <3> HIDE DEF g1
    <3> QED BY <3>1, <3>2, <3>3
  <2>7. g1 = [d \in 1 .. i + 1 |-> g1[d]]
    OBVIOUS
  <2> HIDE DEF g1
  <2>8. Good(g1, i + 1)
    BY <2>6, <2>7
  <2> HIDE DEF Good
  <2> QED BY <2>8
<1>3. 2 * p \in Nat
  OBVIOUS
<1>4. Good(F, 2 * p)
  <2> HIDE DEF Good
  <2>1. Nat \subseteq Has
    <3> HIDE DEF Has
    <3> QED BY <1>1, <1>2, Counting
  <2> QED BY <1>3, <2>1
<1>5. Reduced(nodes) = F[p][1]
  BY DEF Reduced, Round
<1> HIDE DEF F
<1>6. F[1] = nodes
  BY <1>4
<1>7. ASSUME NEW d \in 1 .. p, NEW j \in 1 .. p, (j - 1) % (2 * d) = 0
      PROVE  F[2 * d][j] = Merge(F[d][j], F[d][j + d])
  <2>1. 2 * d \in 1 .. 2 * p /\ 2 * d # 1 /\ (2 * d) \div 2 = d
    OBVIOUS
  <2>2. F[2 * d] = Round(2 * d, F[d])
    BY <1>4, <2>1
  <2> QED BY <1>7, <2>1, <2>2 DEF Round
<1>8. AreRounds(F, nodes, p)
  BY <1>6, <1>7 DEF AreRounds
<1> QED BY <1>5, <1>8

\* A multiple leaves no remainder.
LEMMA Multiples ==
    ASSUME NEW d \in Nat, d # 0, NEW q \in Nat
    PROVE  (d * q) % d = 0
<1>1. (d * q) % d \in 0 .. d - 1 /\ d * q = d * ((d * q) \div d) + ((d * q) % d)
  OBVIOUS
<1> QED BY <1>1

\* What merging two hashes makes.
LEMMA Merging ==
    ASSUME NEW d \in Nat, MaxHeight \in Nat, d < MaxHeight,
           NEW x \in DigestsOf[d], NEW y \in DigestsOf[d]
    PROVE  /\ Merge(x, y) \in DigestsOf[d + 1]
           /\ Leaves[Merge(x, y)] = Leaves[x] \o Leaves[y]
           /\ Depths[Merge(x, y)] = Lower(Depths[x], Depths[y])
<1>1. Merge(x, y) \in DigestsOf[d + 1]
  BY DigestsOfDef DEF Deepened, Merge
<1>2. Merge(x, y) \in Digest
  BY <1>1, DeeperHashes DEF Digest
<1>3. Len(Merge(x, y)) = 2 /\ Merge(x, y)[1] = x /\ Merge(x, y)[2] = y
  BY DEF Merge
<1>4. ~(Len(Merge(x, y)) < 2)
  BY <1>3
<1> QED BY <1>1, <1>2, <1>3, <1>4, LeavesDef, DepthsDef

\* A hash of a depth that commits to the items after a up to b, each d or d + 1
\* below it.
Covered(x, depth, items, a, b, d) ==
  x \in DigestsOf[depth] /\ Leaves[x] = SubSeq(items, a + 1, b) /\ Depths[x] \subseteq {d, d + 1}
Ascending(start, n) == \A i, j \in 1 .. n : i <= j => start[i] <= start[j]

\* The root over a power of two of nodes, of which node i commits to the items
\* after start[i] up to start[i + 1], is that over all these items.
LEMMA ReducedKeepsOrder ==
    ASSUME NEW k \in Nat, NEW nodes, DOMAIN nodes = 1 .. Full[k], Len(nodes) = Full[k],
           MaxHeight \in Nat, NEW e \in Nat, e + k <= MaxHeight,
           NEW items \in Seq(Item), NEW start \in [1 .. Full[k] + 1 -> 0 .. Len(items)],
           Ascending(start, Full[k] + 1),
           \A i \in 1 .. Full[k] : Covered(nodes[i], e, items, start[i], start[i + 1], 0)
    PROVE  /\ Leaves[Reduced(nodes)] = SubSeq(items, start[1] + 1, start[Full[k] + 1])
           /\ Depths[Reduced(nodes)] \subseteq {k, k + 1}
<1> DEFINE p == Full[k]
<1>1. p \in Nat /\ p # 0
  BY FullGrows
<1>2. PICK f : Reduced(nodes) = f[p][1] /\ AreRounds(f, nodes, p)
  BY <1>1, Rounds, Zenon
<1> DEFINE Covers(x, d, i, j) == Covered(x, e + d, items, start[i], start[j], d)
           Done(m) == \A q \in Nat : Full[m] * q + Full[m] <= p =>
                        Covers(f[Full[m]][Full[m] * q + 1], m, Full[m] * q + 1, Full[m] * q + Full[m] + 1)
           S == {m \in Nat : m <= k => Done(m)}
<1>3. 0 \in S
  <2>1. ASSUME NEW q \in Nat, q + 1 <= p PROVE Covers(nodes[q + 1], 0, q + 1, q + 1 + 1)
    <3>1. q + 1 \in 1 .. p /\ e + 0 = e /\ 0 + 1 = 1
      BY <2>1, <1>1
    <3> QED BY <3>1
  <2> HIDE DEF Covers
  <2>2. Full[0] = 1 /\ f[1] = nodes
    BY <1>2, FullDef DEF AreRounds
  <2>3. ASSUME NEW q \in Nat, Full[0] * q + Full[0] <= p
        PROVE  Covers(f[Full[0]][Full[0] * q + 1], 0, Full[0] * q + 1, Full[0] * q + Full[0] + 1)
    <3>1. Full[0] * q = q
      BY <2>2
    <3>2. q + 1 <= p
      BY <2>2, <2>3, <3>1
    <3>3. Covers(nodes[q + 1], 0, q + 1, q + 1 + 1)
      BY <2>1, <3>2
    <3> QED BY <2>2, <3>1, <3>3
  <2> QED BY <2>3
<1>4. ASSUME NEW m \in Nat, m \in S PROVE m + 1 \in S
  <2> SUFFICES ASSUME m + 1 <= k, NEW q \in Nat, Full[m + 1] * q + Full[m + 1] <= p
               PROVE  Covers(f[Full[m + 1]][Full[m + 1] * q + 1], m + 1,
                             Full[m + 1] * q + 1, Full[m + 1] * q + Full[m + 1] + 1)
    OBVIOUS
  <2> DEFINE d == Full[m]
  <2>1. Done(m)
    <3> HIDE DEF Done
    <3> QED BY <1>4
  <2>2. d \in Nat /\ d # 0 /\ Full[m + 1] = 2 * d
    <3>1. Full[m] \in Nat /\ m < Full[m]
      BY FullGrows
    <3>2. Full[m + 1] = 2 * Full[m]
      BY FullDef
    <3> QED BY <3>1, <3>2
  <2> HIDE DEF d, p
  <2>3. 2 * q \in Nat /\ 2 * q + 1 \in Nat
    OBVIOUS
  <2>4. PICK t \in Nat : t = d * (2 * q)
    BY <2>2, <2>3
  <2>5. d * (2 * q + 1) = t + d /\ (2 * d) * q = t
    BY <2>2, <2>4
  <2>6. t + 2 * d <= p
    BY <2>2, <2>5
  <2> DEFINE j == t + 1
             l == t + d + 1
             u == t + 2 * d + 1
  <2>7. Covers(f[d][j], m, j, l)
    <3>1. t + d <= p
      BY <1>1, <2>2, <2>6
    <3> HIDE DEF Covers
    <3>2. Covers(f[d][d * (2 * q) + 1], m, d * (2 * q) + 1, d * (2 * q) + d + 1)
      BY <2>1, <2>3, <2>4, <3>1 DEF d, p
    <3> QED BY <2>4, <3>2
  <2>8. Covers(f[d][l], m, l, u)
    <3>1. d * (2 * q + 1) + d <= p
      BY <1>1, <2>2, <2>5, <2>6
    <3> HIDE DEF Covers
    <3>2. Covers(f[d][d * (2 * q + 1) + 1], m, d * (2 * q + 1) + 1, d * (2 * q + 1) + d + 1)
      BY <2>1, <2>3, <3>1 DEF d, p
    <3>3. d * (2 * q + 1) + 1 = l /\ d * (2 * q + 1) + d + 1 = u
      BY <2>2, <2>5
    <3> QED BY <3>2, <3>3
  <2>9. /\ j \in 1 .. p /\ d \in 1 .. p /\ l = j + d /\ j - 1 = t
        /\ l \in 1 .. p + 1 /\ u \in 1 .. p + 1 /\ j \in 1 .. p + 1 /\ j <= l /\ l <= u
    BY <1>1, <2>2, <2>6
  <2>10. (j - 1) % (2 * d) = 0
    <3>1. ((2 * d) * q) % (2 * d) = 0
      <4>1. 2 * d \in Nat /\ 2 * d # 0
        BY <2>2
      <4> HIDE DEF j
      <4> QED BY <4>1, Multiples
    <3> QED BY <2>5, <2>9, <3>1
  <2>11. f[2 * d][j] = Merge(f[d][j], f[d][l])
    BY <1>2, <2>9, <2>10 DEF AreRounds
  <2>12. /\ start[j] \in 0 .. Len(items) /\ start[l] \in 0 .. Len(items) /\ start[u] \in 0 .. Len(items)
         /\ start[j] <= start[l] /\ start[l] <= start[u]
    <3>1. /\ \A i \in 1 .. p + 1 : start[i] \in 0 .. Len(items)
          /\ \A i, i2 \in 1 .. p + 1 : i <= i2 => start[i] <= start[i2]
      BY DEF p, Ascending
    <3> HIDE DEF j, l, u
    <3> QED BY <2>9, <3>1
  <2> HIDE DEF j, l, u
  <2>13. e + m \in Nat /\ e + m < MaxHeight /\ (e + m) + 1 = e + (m + 1)
    OBVIOUS
  <2>14. /\ Merge(f[d][j], f[d][l]) \in DigestsOf[e + (m + 1)]
         /\ Leaves[Merge(f[d][j], f[d][l])] = Leaves[f[d][j]] \o Leaves[f[d][l]]
         /\ Depths[Merge(f[d][j], f[d][l])] = Lower(Depths[f[d][j]], Depths[f[d][l]])
    <3>1. f[d][j] \in DigestsOf[e + m] /\ f[d][l] \in DigestsOf[e + m]
      BY <2>7, <2>8 DEF Covered
    <3>2. /\ Merge(f[d][j], f[d][l]) \in DigestsOf[(e + m) + 1]
          /\ Leaves[Merge(f[d][j], f[d][l])] = Leaves[f[d][j]] \o Leaves[f[d][l]]
          /\ Depths[Merge(f[d][j], f[d][l])] = Lower(Depths[f[d][j]], Depths[f[d][l]])
      BY <2>13, <3>1, Merging, Zenon
    <3> QED BY <2>13, <3>2
  <2>15. SubSeq(items, start[j] + 1, start[l]) \o SubSeq(items, start[l] + 1, start[u])
           = SubSeq(items, start[j] + 1, start[u])
    <3>1. Len(items) \in Nat
      BY LenProperties
    <3>2. /\ start[j] + 1 \in 1 .. Len(items) + 1
          /\ start[l] \in (start[j] + 1) - 1 .. Len(items)
          /\ start[u] \in start[l] .. Len(items)
      BY <2>12, <3>1
    <3> QED BY <3>2, ConcatAdjacentSubSeq
  <2>16. Depths[Merge(f[d][j], f[d][l])] \subseteq {m + 1, (m + 1) + 1}
    <3>1. Depths[f[d][j]] \cup Depths[f[d][l]] \subseteq {m, m + 1}
      BY <2>7, <2>8 DEF Covered
    <3>2. \A c \in {m, m + 1} : 1 + c \in {m + 1, (m + 1) + 1}
      OBVIOUS
    <3> QED BY <2>14, <3>1, <3>2 DEF Lower
  <2>17. Covers(f[2 * d][j], m + 1, j, u)
    BY <2>7, <2>8, <2>11, <2>14, <2>15, <2>16 DEF u, Covered
  <2> HIDE DEF Covers
  <2>18. j = Full[m + 1] * q + 1 /\ u = Full[m + 1] * q + Full[m + 1] + 1
    BY <2>2, <2>5 DEF j, u
  <2> QED BY <2>2, <2>17, <2>18
<1>5. Done(k)
  <2> HIDE DEF S, Done
  <2>1. k \in S
    BY <1>3, <1>4, Counting
  <2> QED BY <2>1 DEF S
<1>6. Covers(f[p][1], k, 1, p + 1)
  <2> HIDE DEF Covers
  <2>1. p * 0 = 0 /\ p * 0 + p <= p
    BY <1>1
  <2>2. Covers(f[p][p * 0 + 1], k, p * 0 + 1, p * 0 + p + 1)
    BY <1>5, <2>1
  <2> QED BY <1>1, <2>1, <2>2
<1> QED BY <1>2, <1>6 DEF Covered

\* The hashes of single items.
LEMMA Planting ==
    ASSUME MaxHeight \in Nat, NEW x \in Item
    PROVE  LeafHash(x) \in DigestsOf[0] /\ Leaves[LeafHash(x)] = <<x>> /\ Depths[LeafHash(x)] = {0}
<1>1. LeafHash(x) \in [1 .. 1 -> Item]
  BY DEF LeafHash
<1>2. LeafHash(x) \in DigestsOf[0]
  BY <1>1, DigestsOfDef DEF Ground
<1>3. LeafHash(x) \in Digest
  BY <1>2, DeeperHashes DEF Digest
<1>4. Len(LeafHash(x)) < 2
  BY DEF LeafHash
<1> QED BY <1>2, <1>3, <1>4, LeavesDef, DepthsDef DEF LeafHash

\* A sequence of one of a sequence's elements.
LEMMA OneOf ==
    ASSUME NEW S, NEW s \in Seq(S), NEW i \in 1 .. Len(s)
    PROVE  SubSeq(s, i, i) = <<s[i]>>
<1>1. Len(s) \in Nat
  BY LenProperties
<1>2. SubSeq(s, i, i) = <<s[i]>> \o SubSeq(s, i + 1, i)
  BY <1>1, SubSeqRecursiveFirst
<1>3. SubSeq(s, i + 1, i) = <<>>
  BY <1>1, SubSeqEmpty
<1>4. s[i] \in S
  BY ElementOfSeq
<1>5. <<s[i]>> \in Seq(S)
  BY <1>4
<1>6. <<s[i]>> \o <<>> = <<s[i]>>
  BY <1>5, ConcatEmptySeq
<1> QED BY <1>2, <1>3, <1>6

\* complete_merkle_root: the root of a list of items commits to each of them, in
\* their order, and no item lies more than one level deeper than another.  The
\* only hypothesis is that Leaves and Depths look deep enough.
THEOREM RootKeepsOrder ==
    ASSUME MaxHeight \in Nat, NEW items \in Seq(Item), Len(items) <= Full[MaxHeight]
    PROVE  KeepsOrder(items)
<1> DEFINE n == Len(items)
           leaves == [i \in DOMAIN items |-> LeafHash(items[i])]
<1>1. n \in Nat /\ DOMAIN items = 1 .. n /\ \A i \in 1 .. n : items[i] \in Item
  BY LenProperties, ElementOfSeq
<1>2. Len(leaves) = n /\ DOMAIN leaves = 1 .. n /\ \A i \in 1 .. n : leaves[i] = LeafHash(items[i])
  BY <1>1
<1>3. CASE n = 0
  <2>1. items = <<>> /\ leaves = <<>>
    BY <1>1, <1>3
  <2>2. Root(leaves) = <<>>
    BY <2>1 DEF Root, Null
  <2>3. <<>> \in DigestsOf[0]
    BY DigestsOfDef DEF Ground, Null
  <2>4. DigestsOf[0] \subseteq Digest
    BY DeeperHashes DEF Digest
  <2>5. PICK x \in Digest : x = <<>> /\ Len(x) < 2
    BY <2>3, <2>4
  <2>6. Leaves[<<>>] = <<>> /\ Depths[<<>>] = {0}
    BY <2>5, LeavesDef, DepthsDef
  <2> QED BY <2>1, <2>2, <2>6 DEF KeepsOrder
<1>4. CASE n # 0
  <2>1. PICK k \in Nat : /\ Full[k] <= n /\ n < 2 * Full[k]
                         /\ LowestChildrenLen(n) = 2 * (n - Full[k])
    BY <1>1, <1>4, Lowest
  <2> DEFINE p == Full[k]
             more == n - p
             nodes == [i \in 1 .. p |-> IF i <= more THEN Merge(leaves[2 * i - 1], leaves[2 * i])
                                        ELSE leaves[i + more]]
             start == [i \in 1 .. p + 1 |-> IF i - 1 <= more THEN 2 * (i - 1) ELSE i - 1 + more]
  <2>2. p \in Nat /\ p # 0 /\ more \in Nat /\ more < p /\ n = p + more
    <3>1. Full[k] \in Nat /\ k < Full[k]
      BY FullGrows
    <3> QED BY <1>1, <2>1, <3>1
  <2>3. Root(leaves) = Reduced(nodes)
    <3>1. leaves # <<>>
      BY <1>2, <1>4
    <3>2. LowestChildrenLen(Len(leaves)) \div 2 = more
      BY <1>2, <2>1, <2>2
    <3>3. Len(leaves) - LowestChildrenLen(Len(leaves)) \div 2 = p
      BY <1>2, <2>2, <3>2
    <3> HIDE DEF leaves, p, more
    <3> QED BY <3>1, <3>2, <3>3 DEF Root
  <2> HIDE DEF leaves, more
  <2> DEFINE e == IF more = 0 THEN 0 ELSE 1
  <2>4. e \in Nat /\ e + k <= MaxHeight
    <3>1. CASE more = 0
      <4>1. Full[k] <= Full[MaxHeight]
        BY <2>2, <3>1
      <4>2. ~(MaxHeight + 1 <= k)
        <5>1. Full[MaxHeight + 1] = 2 * Full[MaxHeight] /\ Full[MaxHeight] \in Nat /\ MaxHeight < Full[MaxHeight]
          BY FullGrows, FullDef
        <5>2. MaxHeight + 1 <= k => Full[MaxHeight + 1] <= Full[k]
          BY FullGrows
        <5> QED BY <2>2, <4>1, <5>1, <5>2
      <4> QED BY <3>1, <4>2
    <3>2. CASE more # 0
      <4>1. Full[k] < Full[MaxHeight] /\ Full[MaxHeight] \in Nat
        BY <2>2, <3>2, FullGrows
      <4>2. MaxHeight <= k => Full[MaxHeight] <= Full[k]
        BY FullGrows
      <4>3. ~(MaxHeight <= k)
        BY <2>2, <4>1, <4>2
      <4> QED BY <3>2, <4>3
    <3> QED BY <3>1, <3>2
  <2>5. start \in [1 .. p + 1 -> 0 .. n] /\ Ascending(start, p + 1)
    <3> HIDE DEF p
    <3>1. \A i \in 1 .. p + 1 : (IF i - 1 <= more THEN 2 * (i - 1) ELSE i - 1 + more) \in 0 .. n
      BY <1>1, <2>2
    <3>2. \A i, j \in 1 .. p + 1 : i <= j => start[i] <= start[j]
      BY <2>2
    <3> HIDE DEF n
    <3> QED BY <3>1, <3>2 DEF Ascending
  <2>6. ASSUME NEW i \in 1 .. p PROVE Covered(nodes[i], e, items, start[i], start[i + 1], 0)
    <3> HIDE DEF p
    <3>1. CASE i <= more
      <4>1. /\ nodes[i] = Merge(leaves[2 * i - 1], leaves[2 * i])
            /\ start[i] = 2 * i - 2 /\ start[i + 1] = 2 * i
            /\ 2 * i - 1 \in 1 .. n /\ 2 * i \in 1 .. n /\ e = 1
        BY <1>1, <2>2, <3>1
      <4> HIDE DEF nodes, start, e
      <4>2. /\ leaves[2 * i - 1] = LeafHash(items[2 * i - 1]) /\ items[2 * i - 1] \in Item
            /\ leaves[2 * i] = LeafHash(items[2 * i]) /\ items[2 * i] \in Item
        BY <1>1, <1>2, <4>1
      <4>3. 0 < MaxHeight /\ 0 \in Nat
        BY <2>4, <4>1
      <4>4. /\ nodes[i] \in DigestsOf[0 + 1]
            /\ Leaves[nodes[i]] = <<items[2 * i - 1]>> \o <<items[2 * i]>>
            /\ Depths[nodes[i]] = Lower({0}, {0})
        <5> DEFINE x == leaves[2 * i - 1]
                   y == leaves[2 * i]
        <5>1. /\ x \in DigestsOf[0] /\ Leaves[x] = <<items[2 * i - 1]>> /\ Depths[x] = {0}
              /\ y \in DigestsOf[0] /\ Leaves[y] = <<items[2 * i]>> /\ Depths[y] = {0}
          BY <4>2, Planting
        <5>2. nodes[i] = Merge(x, y)
          BY <4>1
        <5> HIDE DEF x, y
        <5>3. /\ Merge(x, y) \in DigestsOf[0 + 1] /\ Leaves[Merge(x, y)] = Leaves[x] \o Leaves[y]
              /\ Depths[Merge(x, y)] = Lower(Depths[x], Depths[y])
          BY <4>3, <5>1, Merging
        <5> QED BY <5>1, <5>2, <5>3
      <4>5. SubSeq(items, 2 * i - 1, 2 * i) = <<items[2 * i - 1]>> \o <<items[2 * i]>>
        <5>1. SubSeq(items, 2 * i - 1, 2 * i) = <<items[2 * i - 1]>> \o SubSeq(items, 2 * i, 2 * i)
          BY <4>1, SubSeqRecursiveFirst
        <5>2. SubSeq(items, 2 * i, 2 * i) = <<items[2 * i]>>
          BY <4>1, OneOf
        <5> QED BY <5>1, <5>2
      <4>6. Lower({0}, {0}) \subseteq {0, 0 + 1}
        BY DEF Lower
      <4>7. start[i] + 1 = 2 * i - 1 /\ 0 + 1 = 1
        BY <4>1
      <4> QED BY <4>1, <4>4, <4>5, <4>6, <4>7 DEF Covered
    <3>2. CASE ~(i <= more)
      <4>1. /\ nodes[i] = leaves[i + more]
            /\ start[i] + 1 = i + more /\ start[i + 1] = i + more /\ i + more \in 1 .. n
        <5>1. i \in 1 .. p + 1 /\ i + 1 \in 1 .. p + 1 /\ i \in Nat
          BY <2>2
        <5>2. start[i] = IF i - 1 <= more THEN 2 * (i - 1) ELSE i - 1 + more
          BY <5>1
        <5>3. start[i + 1] = IF (i + 1) - 1 <= more THEN 2 * ((i + 1) - 1) ELSE (i + 1) - 1 + more
          BY <5>1
        <5>4. nodes[i] = leaves[i + more]
          BY <3>2
        <5> HIDE DEF start, nodes
        <5> QED BY <1>1, <2>2, <3>2, <5>1, <5>2, <5>3, <5>4
      <4> HIDE DEF nodes, start
      <4>2. leaves[i + more] = LeafHash(items[i + more]) /\ items[i + more] \in Item
        BY <1>1, <1>2, <4>1
      <4>3. /\ nodes[i] \in DigestsOf[0] /\ Leaves[nodes[i]] = <<items[i + more]>>
            /\ Depths[nodes[i]] = {0}
        BY <4>1, <4>2, Planting
      <4>4. SubSeq(items, i + more, i + more) = <<items[i + more]>>
        BY <4>1, OneOf
      <4>5. nodes[i] \in DigestsOf[e]
        BY <2>4, <4>3, DeeperHashes
      <4> QED BY <4>1, <4>3, <4>4, <4>5 DEF Covered
    <3> QED BY <3>1, <3>2
  <2>7. DOMAIN nodes = 1 .. p /\ Len(nodes) = p
    <3> HIDE DEF p
    <3> QED BY <2>2
  <2> HIDE DEF nodes, start, e
  <2>8. /\ Leaves[Reduced(nodes)] = SubSeq(items, start[1] + 1, start[p + 1])
        /\ Depths[Reduced(nodes)] \subseteq {k, k + 1}
    BY <2>4, <2>5, <2>6, <2>7, ReducedKeepsOrder
  <2>9. start[1] = 0 /\ start[p + 1] = n
    <3> HIDE DEF p
    <3> QED BY <1>1, <2>2 DEF start
  <2>10. SubSeq(items, 1, n) = items
    BY SubSeqFull
  <2>11. Leaves[Root(leaves)] = items
    BY <2>3, <2>8, <2>9, <2>10
  <2>12. \A d, c \in Depths[Root(leaves)] : d - c \in -1 .. 1
    BY <2>3, <2>8
  <2> QED BY <2>11, <2>12 DEF KeepsOrder, leaves
<1> QED BY <1>3, <1>4

-----------------------------------------------------------------------------
(* Loops.                                                                    *)

\* What holds before a loop and is kept by every round holds all along.
LEMMA Upwards ==
    ASSUME NEW n \in Nat, NEW S, 0 \in S, \A i \in 0 .. n - 1 : i \in S => i + 1 \in S
    PROVE  \A i \in 0 .. n : i \in S
<1> DEFINE T == {i \in Nat : i <= n => i \in S}
<1>1. 0 \in T
  OBVIOUS
<1>2. ASSUME NEW i \in Nat, i \in T PROVE i + 1 \in T
  BY <1>2
<1> HIDE DEF T
<1>3. Nat \subseteq T
  BY <1>1, <1>2, Counting
<1> QED BY <1>3 DEF T

\* The states of a loop, one before every round and one after the last.
Runs(f, n, start, step) ==
  f = [i \in 0 .. n |-> IF i = 0 THEN start ELSE step[<<f[i - 1], i - 1>>]]

\* A loop that goes from state to state has a state before every round.
LEMMA Looping ==
    ASSUME NEW n \in Nat, NEW V, NEW start \in V, NEW step \in [V \X (0 .. n - 1) -> V]
    PROVE  \E f \in [0 .. n -> V] : Runs(f, n, start, step)
<1> DEFINE Good(f, k) == f = [i \in 0 .. k |-> IF i = 0 THEN start ELSE step[<<f[i - 1], i - 1>>]]
           Has == {k \in Nat : k <= n => \E f \in [0 .. k -> V] : Good(f, k)}
<1>1. 0 \in Has
  <2> DEFINE f == [i \in 0 .. 0 |-> start]
  <2>1. f \in [0 .. 0 -> V] /\ Good(f, 0)
    OBVIOUS
  <2> QED BY <2>1
<1>2. ASSUME NEW k \in Nat, k \in Has PROVE k + 1 \in Has
  <2> SUFFICES ASSUME k + 1 <= n PROVE \E f \in [0 .. k + 1 -> V] : Good(f, k + 1)
    OBVIOUS
  <2>1. PICK f \in [0 .. k -> V] : Good(f, k)
    BY <1>2
  <2> DEFINE g == [i \in 0 .. k + 1 |-> IF i = k + 1 THEN step[<<f[k], k>>] ELSE f[i]]
  <2>2. step[<<f[k], k>>] \in V
    OBVIOUS
  <2>3. g \in [0 .. k + 1 -> V]
    BY <2>2
  <2>4. ASSUME NEW i \in 0 .. k + 1 PROVE g[i] = IF i = 0 THEN start ELSE step[<<g[i - 1], i - 1>>]
    <3>1. CASE i = k + 1
      BY <3>1
    <3>2. CASE i # k + 1
      <4>1. i \in 0 .. k
        BY <3>2
      <4>2. f[i] = IF i = 0 THEN start ELSE step[<<f[i - 1], i - 1>>]
        BY <2>1, <4>1
      <4>3. CASE i = 0
        BY <3>2, <4>2, <4>3
      <4>4. CASE i # 0
        <5>1. i - 1 \in 0 .. k + 1 /\ i - 1 # k + 1
          BY <4>4
        <5>2. g[i - 1] = f[i - 1] /\ g[i] = f[i]
          BY <3>2, <5>1
        <5> QED BY <4>2, <4>4, <5>2
      <4> QED BY <4>3, <4>4
    <3> QED BY <3>1, <3>2
  <2>5. Good(g, k + 1)
    BY <2>3, <2>4
  <2> HIDE DEF g, Good
  <2> QED BY <2>3, <2>5
<1> HIDE DEF Has
<1>3. n \in Has
  BY <1>1, <1>2, Counting
<1> QED BY <1>3 DEF Has, Runs

-----------------------------------------------------------------------------
(* Whole numbers                                                             *)

\* A quotient and a remainder, and that there are no others.
LEMMA Dividing ==
    ASSUME NEW x \in Int, NEW d \in Nat \ {0}
    PROVE  /\ x \div d \in Int /\ x % d \in 0 .. d - 1
           /\ x = (x \div d) * d + (x % d)
  OBVIOUS

\* Quotient and remainder of a number that is given by them.
LEMMA Divided ==
    ASSUME NEW d \in Nat \ {0}, NEW q \in Int, NEW r \in 0 .. d - 1
    PROVE  (q * d + r) \div d = q /\ (q * d + r) % d = r
  OBVIOUS

\* Products with a natural number keep the order.
LEMMA Scaling ==
    \A x, y \in Int, z \in Nat : x <= y => x * z <= y * z
  OBVIOUS
-----------------------------------------------------------------------------
(* Numbers                                                                   *)

Word == 0 .. Base - 1
Numbers(n) == [0 .. n - 1 -> Word]

\* A word is a half of its base more than no half at all.
LEMMA Bases ==
    ASSUME HalfBase \in Nat \ {0}
    PROVE  Base \in Nat \ {0} /\ Base = HalfBase * HalfBase /\ HalfBase <= Base
  BY DEF Base

\* A number has the words of its domain.
LEMMA WordsOf ==
    ASSUME NEW n \in Nat, NEW V, NEW a \in [0 .. n - 1 -> V]
    PROVE  DOMAIN a = 0 .. n - 1 /\ Words(a) = n
<1>1. Cardinality(0 .. n - 1) = n
  BY FS_Interval
<1> QED BY <1>1 DEF Words

\* The weights of the words.
LEMMA WeightsDef ==
    ASSUME HalfBase \in Nat \ {0}, NEW n \in Nat
    PROVE  /\ Weights(n) \in [0 .. n -> Nat \ {0}]
           /\ Weights(n)[0] = 1
           /\ \A i \in 0 .. n - 1 : Weights(n)[i + 1] = Base * Weights(n)[i]
<1> DEFINE step == [p \in (Nat \ {0}) \X (0 .. n - 1) |-> Base * p[1]]
<1>1. step \in [(Nat \ {0}) \X (0 .. n - 1) -> Nat \ {0}]
  BY Bases
<1>2. PICK f \in [0 .. n -> Nat \ {0}] : Runs(f, n, 1, step)
  <2>1. 1 \in Nat \ {0}
    OBVIOUS
  <2> HIDE DEF step
  <2> QED BY <1>1, <2>1, Looping, Zenon
<1>3. f = [i \in 0 .. n |-> IF i = 0 THEN 1 ELSE Base * f[i - 1]]
  <2>1. ASSUME NEW i \in 0 .. n, i # 0 PROVE step[<<f[i - 1], i - 1>>] = Base * f[i - 1]
    <3>1. i - 1 \in 0 .. n /\ i - 1 \in 0 .. n - 1
      BY <2>1
    <3>2. f[i - 1] \in Nat \ {0}
      BY <3>1
    <3> QED BY <3>1, <3>2
  <2> HIDE DEF step
  <2> QED BY <1>2, <2>1 DEF Runs
<1> DEFINE w == Weights(n)
<1>4. w = [i \in 0 .. n |-> IF i = 0 THEN 1 ELSE Base * w[i - 1]]
  BY <1>3 DEF Weights
<1> HIDE DEF w
<1>5. w[0] = 1 /\ \A i \in 0 .. n - 1 : w[i + 1] = Base * w[i]
  BY <1>4
<1> DEFINE S == {i \in Nat : i <= n => w[i] \in Nat \ {0}}
<1>6. 0 \in S
  BY <1>5
<1>7. ASSUME NEW i \in Nat, i \in S PROVE i + 1 \in S
  BY <1>5, <1>7, Bases
<1> HIDE DEF S
<1>8. Nat \subseteq S
  BY <1>6, <1>7, Counting
<1>9. w \in [0 .. n -> Nat \ {0}]
  <2>1. \A i \in 0 .. n : w[i] \in Nat \ {0}
    BY <1>8 DEF S
  <2>2. w = [i \in 0 .. n |-> w[i]]
    BY <1>4
  <2> QED BY <2>1, <2>2
<1> QED BY <1>5, <1>9 DEF w

\* The sums of a number's words.
LEMMA UptoDef ==
    ASSUME HalfBase \in Nat \ {0}, NEW n \in Nat, NEW a \in [0 .. n - 1 -> Int]
    PROVE  /\ Upto(a) \in [0 .. n -> Int]
           /\ Upto(a)[0] = 0
           /\ \A i \in 0 .. n - 1 : Upto(a)[i + 1] = Upto(a)[i] + a[i] * Weights(n)[i]
           /\ ValueOf(a) = Upto(a)[n]
<1> DEFINE W == Weights(n)
<1>1. W \in [0 .. n -> Nat \ {0}]
  BY WeightsDef
<1>2. Words(a) = n
  BY WordsOf
<1> HIDE DEF W
<1> DEFINE step == [p \in Int \X (0 .. n - 1) |-> p[1] + a[p[2]] * W[p[2]]]
<1>3. step \in [Int \X (0 .. n - 1) -> Int]
  BY <1>1
<1>4. PICK f \in [0 .. n -> Int] : Runs(f, n, 0, step)
  <2>1. 0 \in Int
    OBVIOUS
  <2> HIDE DEF step
  <2> QED BY <1>3, <2>1, Looping, Zenon
<1>5. f = [i \in 0 .. n |-> IF i = 0 THEN 0 ELSE f[i - 1] + a[i - 1] * W[i - 1]]
  <2>1. ASSUME NEW i \in 0 .. n, i # 0
        PROVE  step[<<f[i - 1], i - 1>>] = f[i - 1] + a[i - 1] * W[i - 1]
    <3>1. i - 1 \in 0 .. n /\ i - 1 \in 0 .. n - 1
      BY <2>1
    <3>2. f[i - 1] \in Int
      BY <3>1
    <3> QED BY <3>1, <3>2
  <2> HIDE DEF step
  <2> QED BY <1>4, <2>1 DEF Runs
<1> DEFINE v == Upto(a)
<1>6. v = [i \in 0 .. n |-> IF i = 0 THEN 0 ELSE v[i - 1] + a[i - 1] * W[i - 1]]
  BY <1>2, <1>5 DEF Upto, W
<1> HIDE DEF v
<1>7. v[0] = 0 /\ \A i \in 0 .. n - 1 : v[i + 1] = v[i] + a[i] * W[i]
  BY <1>6
<1> DEFINE S == {i \in Nat : i <= n => v[i] \in Int}
<1>8. 0 \in S
  BY <1>7
<1>9. ASSUME NEW i \in Nat, i \in S PROVE i + 1 \in S
  <2> SUFFICES ASSUME i + 1 <= n PROVE v[i + 1] \in Int
    BY DEF S
  <2>1. v[i] \in Int /\ a[i] \in Int /\ W[i] \in Int
    BY <1>1, <1>9
  <2>2. v[i + 1] = v[i] + a[i] * W[i]
    BY <1>7
  <2> QED BY <2>1, <2>2
<1> HIDE DEF S
<1>10. Nat \subseteq S
  BY <1>8, <1>9, Counting
<1>11. v \in [0 .. n -> Int]
  <2>1. \A i \in 0 .. n : v[i] \in Int
    BY <1>10 DEF S
  <2>2. v = [i \in 0 .. n |-> v[i]]
    BY <1>6
  <2> QED BY <2>1, <2>2
<1>12. ValueOf(a) = v[n]
  BY <1>2 DEF ValueOf, v
<1> QED BY <1>7, <1>11, <1>12 DEF v, W

\* The sum of the first words depends on these only.
LEMMA UptoSame ==
    ASSUME HalfBase \in Nat \ {0}, NEW n \in Nat, NEW a \in [0 .. n - 1 -> Int],
           NEW b \in [0 .. n - 1 -> Int], NEW k \in 0 .. n, \A i \in 0 .. k - 1 : a[i] = b[i]
    PROVE  Upto(a)[k] = Upto(b)[k]
<1> DEFINE S == {i \in Nat : i <= k => Upto(a)[i] = Upto(b)[i]}
<1>1. 0 \in S
  BY UptoDef
<1>2. ASSUME NEW i \in Nat, i \in S PROVE i + 1 \in S
  <2> SUFFICES ASSUME i + 1 <= k PROVE Upto(a)[i + 1] = Upto(b)[i + 1]
    OBVIOUS
  <2>1. i \in 0 .. n - 1 /\ i \in 0 .. k - 1 /\ Upto(a)[i] = Upto(b)[i] /\ a[i] = b[i]
    BY <1>2
  <2>2. Upto(a)[i + 1] = Upto(a)[i] + a[i] * Weights(n)[i]
    BY <2>1, UptoDef
  <2>3. Upto(b)[i + 1] = Upto(b)[i] + b[i] * Weights(n)[i]
    BY <2>1, UptoDef
  <2> QED BY <2>1, <2>2, <2>3
<1> HIDE DEF S
<1>3. Nat \subseteq S
  BY <1>1, <1>2, Counting
<1> QED BY <1>3 DEF S

\* The first words of a number amount to less than the weight of the next.
LEMMA UptoBelow ==
    ASSUME HalfBase \in Nat \ {0}, NEW n \in Nat, NEW a \in Numbers(n)
    PROVE  \A k \in 0 .. n : Upto(a)[k] \in 0 .. Weights(n)[k] - 1
<1> DEFINE W == Weights(n)
           u == Upto(a)
           S == {i \in Nat : i <= n => u[i] \in 0 .. W[i] - 1}
<1>1. Base \in Nat \ {0} /\ W \in [0 .. n -> Nat \ {0}] /\ W[0] = 1
      /\ \A i \in 0 .. n - 1 : W[i + 1] = Base * W[i]
  BY Bases, WeightsDef
<1>2. u \in [0 .. n -> Int] /\ u[0] = 0 /\ \A i \in 0 .. n - 1 : u[i + 1] = u[i] + a[i] * W[i]
  <2>1. a \in [0 .. n - 1 -> Int]
    BY <1>1 DEF Numbers, Word
  <2> QED BY <2>1, UptoDef
<1> HIDE DEF W, u
<1>3. 0 \in S
  BY <1>1, <1>2
<1>4. ASSUME NEW i \in Nat, i \in S PROVE i + 1 \in S
  <2> SUFFICES ASSUME i + 1 <= n PROVE u[i + 1] \in 0 .. W[i + 1] - 1
    OBVIOUS
  <2>1. i \in 0 .. n - 1 /\ u[i] \in 0 .. W[i] - 1 /\ W[i] \in Nat \ {0}
    BY <1>1, <1>4
  <2>2. a[i] \in 0 .. Base - 1
    BY <2>1 DEF Numbers, Word
  <2>3. a[i] * W[i] >= 0 /\ a[i] * W[i] <= (Base - 1) * W[i] /\ a[i] * W[i] \in Int
    BY <1>1, <2>1, <2>2, Scaling
  <2>4. (Base - 1) * W[i] = Base * W[i] - W[i]
    BY <1>1, <2>1
  <2>5. Base * W[i] \in Int
    BY <1>1, <2>1
  <2>6. u[i + 1] = u[i] + a[i] * W[i] /\ W[i + 1] = Base * W[i]
    BY <1>1, <1>2, <2>1
  <2> QED BY <2>1, <2>3, <2>4, <2>5, <2>6
<1> HIDE DEF S
<1>5. Nat \subseteq S
  BY <1>3, <1>4, Counting
<1> QED BY <1>5 DEF S, u, W

\* A number with one word more.
LEMMA UptoExcept ==
    ASSUME HalfBase \in Nat \ {0}, NEW n \in Nat, NEW x \in Numbers(n), NEW i \in 0 .. n - 1,
           NEW t \in Word
    PROVE  /\ [x EXCEPT ![i] = t] \in Numbers(n)
           /\ Upto([x EXCEPT ![i] = t])[i + 1] = Upto(x)[i] + t * Weights(n)[i]
<1> DEFINE y == [x EXCEPT ![i] = t]
<1>1. y \in Numbers(n) /\ y[i] = t /\ \A j \in 0 .. i - 1 : y[j] = x[j]
  BY DEF Numbers
<1> HIDE DEF y
<1>2. x \in [0 .. n - 1 -> Int] /\ y \in [0 .. n - 1 -> Int]
  BY <1>1, Bases DEF Numbers, Word
<1>3. Upto(y)[i] = Upto(x)[i]
  BY <1>1, <1>2, UptoSame
<1>4. Upto(y)[i + 1] = Upto(y)[i] + t * Weights(n)[i]
  BY <1>1, <1>2, UptoDef
<1> QED BY <1>1, <1>3, <1>4 DEF y

\* One round of an addition: the word, and the carry.
LEMMA Carried ==
    ASSUME HalfBase \in Nat \ {0}, NEW x \in Word, NEW y \in Word, NEW c \in 0 .. 1,
           NEW r, r = x + y, NEW t, t = (r % Base) + c
    PROVE  /\ t % Base \in Word /\ r \div Base + t \div Base \in 0 .. 1
           /\ (t % Base) + (r \div Base + t \div Base) * Base = x + y + c
<1> DEFINE B == Base
<1>1. B \in Nat \ {0}
  BY Bases
<1>2. x \in 0 .. B - 1 /\ y \in 0 .. B - 1
  BY DEF Word
<1> HIDE DEF B
<1>3. r \in 0 .. 2 * B - 2
  BY <1>1, <1>2
<1>4. CASE r < B
  <2>1. r \div B = 0 /\ r % B = r
    BY <1>1, <1>3, <1>4
  <2>2. CASE t < B
    <3>1. t \div B = 0 /\ t % B = t
      BY <1>1, <1>3, <2>1, <2>2 DEF B
    <3> QED BY <1>1, <1>3, <2>1, <2>2, <3>1 DEF B, Word
  <2>3. CASE t >= B
    <3>1. t = B /\ t \div B = 1 /\ t % B = 0
      BY <1>1, <1>3, <1>4, <2>1, <2>3 DEF B
    <3>2. r \div B + t \div B = 1 /\ 1 * B = B
      BY <1>1, <2>1, <3>1
    <3>3. 0 + B = x + y + c
      BY <1>1, <2>1, <3>1 DEF B
    <3> QED BY <1>1, <3>1, <3>2, <3>3 DEF B, Word
  <2>4. t \in Int
    BY <1>3, <2>1 DEF B
  <2> QED BY <1>1, <2>2, <2>3, <2>4
<1>5. CASE r >= B
  <2>1. r \div B = 1 /\ r % B = r - B
    BY <1>1, <1>3, <1>5
  <2>2. t \in 0 .. B - 1 /\ t = r - B + c
    BY <1>1, <1>3, <1>5, <2>1 DEF B
  <2>3. t \div B = 0 /\ t % B = t
    BY <1>1, <2>2
  <2>4. r \div B + t \div B = 1 /\ 1 * B = B
    BY <1>1, <2>1, <2>3
  <2>5. t + B = x + y + c
    BY <1>1, <1>2, <2>2
  <2> QED BY <1>1, <2>2, <2>3, <2>4, <2>5 DEF B, Word
<1> QED BY <1>1, <1>3, <1>4, <1>5

\* What a round of a loop does: the word t and the carry c1 are what s and the
\* carry c come to, and with c, the words so far, u, amount to v.
Passes(B, w, u, t, c, c1, s, v) ==
  /\ B \in Int /\ w \in Int /\ u \in Int /\ t \in Int /\ c \in Int /\ c1 \in Int
  /\ s \in Int /\ v \in Int
  /\ t + c1 * B = s + c /\ u + c * w = v

\* Then the round keeps what words and carry amount to, and adds s.
LEMMA NextWord ==
    ASSUME NEW B, NEW w, NEW u, NEW t, NEW c, NEW c1, NEW s, NEW v,
           Passes(B, w, u, t, c, c1, s, v)
    PROVE  (u + t * w) + c1 * (B * w) = v + s * w
<1> USE DEF Passes
<1>1. c1 * (B * w) = (c1 * B) * w
  OBVIOUS
<1>2. t * w + (c1 * B) * w = (t + c1 * B) * w
  OBVIOUS
<1>3. (s + c) * w = s * w + c * w
  OBVIOUS
<1>4. t * w \in Int /\ c1 * B \in Int /\ (c1 * B) * w \in Int /\ s * w \in Int /\ c * w \in Int
  OBVIOUS
<1> QED BY <1>1, <1>2, <1>3, <1>4

\* A combination of two numbers, word by word.
Combines(s, n, k, a, l, b) ==
  /\ s \in [0 .. n - 1 -> Int] /\ a \in [0 .. n - 1 -> Int] /\ b \in [0 .. n - 1 -> Int]
  /\ \A i \in 0 .. n - 1 : s[i] = k * a[i] + l * b[i]

Whole(k, l, x, y, p, q, w) ==
  /\ k \in Int /\ l \in Int /\ x \in Int /\ y \in Int /\ p \in Int /\ q \in Int /\ w \in Int

\* A combination of two numbers, in the weight w of the next word.
LEMMA Combined ==
    ASSUME NEW k, NEW l, NEW x, NEW y, NEW p, NEW q, NEW w, Whole(k, l, x, y, p, q, w)
    PROVE  (k * x + l * y) + (k * p + l * q) * w = k * (x + p * w) + l * (y + q * w)
<1> USE DEF Whole
<1>1. (k * p + l * q) * w = k * (p * w) + l * (q * w)
  OBVIOUS
<1>2. k * (x + p * w) = k * x + k * (p * w)
  OBVIOUS
<1>3. l * (y + q * w) = l * y + l * (q * w)
  OBVIOUS
<1>4. k * x \in Int /\ l * y \in Int /\ k * (p * w) \in Int /\ l * (q * w) \in Int
  OBVIOUS
<1> QED BY <1>1, <1>2, <1>3, <1>4

\* The sums of a combination of numbers.
LEMMA UptoLinear ==
    ASSUME HalfBase \in Nat \ {0}, NEW n \in Nat, NEW k \in Int, NEW l \in Int, NEW a, NEW b, NEW s,
           Combines(s, n, k, a, l, b)
    PROVE  \A i \in 0 .. n : Upto(s)[i] = k * Upto(a)[i] + l * Upto(b)[i]
<1> DEFINE W == Weights(n)
           ua == Upto(a)
           ub == Upto(b)
           us == Upto(s)
           S == {i \in 0 .. n : us[i] = k * ua[i] + l * ub[i]}
<1>1. W \in [0 .. n -> Nat \ {0}]
  BY WeightsDef
<1>2. /\ ua \in [0 .. n -> Int] /\ ua[0] = 0 /\ \A i \in 0 .. n - 1 : ua[i + 1] = ua[i] + a[i] * W[i]
      /\ ub \in [0 .. n -> Int] /\ ub[0] = 0 /\ \A i \in 0 .. n - 1 : ub[i + 1] = ub[i] + b[i] * W[i]
      /\ us \in [0 .. n -> Int] /\ us[0] = 0 /\ \A i \in 0 .. n - 1 : us[i + 1] = us[i] + s[i] * W[i]
  BY UptoDef DEF Combines
<1> HIDE DEF W, ua, ub, us
<1>3. 0 \in S
  BY <1>2
<1>4. ASSUME NEW i \in 0 .. n - 1, i \in S PROVE i + 1 \in S
  <2>1. us[i] = k * ua[i] + l * ub[i]
    BY <1>4
  <2>2. s[i] = k * a[i] + l * b[i] /\ a[i] \in Int /\ b[i] \in Int
    BY DEF Combines
  <2>3. i \in 0 .. n /\ i + 1 \in 0 .. n
    OBVIOUS
  <2>4. W[i] \in Int /\ ua[i] \in Int /\ ub[i] \in Int
    BY <1>1, <1>2, <2>3
  <2>5. (k * ua[i] + l * ub[i]) + (k * a[i] + l * b[i]) * W[i]
          = k * (ua[i] + a[i] * W[i]) + l * (ub[i] + b[i] * W[i])
    <3>1. Whole(k, l, ua[i], ub[i], a[i], b[i], W[i])
      BY <2>2, <2>4 DEF Whole
    <3> QED BY <3>1, Combined
  <2>6. us[i + 1] = k * ua[i + 1] + l * ub[i + 1]
    BY <1>2, <2>1, <2>2, <2>5, Zenon
  <2> QED BY <2>3, <2>6
<1> HIDE DEF S
<1>5. \A i \in 0 .. n : i \in S
  BY <1>3, <1>4, Upwards
<1> QED BY <1>5 DEF S, us, ua, ub

\* A loop that puts s[i] and the carry into word i and into the next carry ends
\* with all that s amounts to in the number and the last carry.
Totalling(n, s, x, c) ==
  /\ s \in [0 .. n - 1 -> Int] /\ x \in [0 .. n -> Numbers(n)] /\ c \in [0 .. n -> Int]
  /\ c[0] = 0
  /\ \A i \in 0 .. n - 1 : /\ x[i + 1] = [x[i] EXCEPT ![i] = x[i + 1][i]]
                            /\ x[i + 1][i] + c[i + 1] * Base = s[i] + c[i]

\* The rounds together: what the words of s amount to is in the number and the
\* carry.
LEMMA Totals ==
    ASSUME HalfBase \in Nat \ {0}, NEW n \in Nat, NEW s, NEW x, NEW c, Totalling(n, s, x, c)
    PROVE  ValueOf(x[n]) + c[n] * Weights(n)[n] = ValueOf(s)
<1> DEFINE W == Weights(n)
           S == {i \in 0 .. n : Upto(x[i])[i] + c[i] * W[i] = Upto(s)[i]}
<1>1. /\ Word \subseteq Int /\ Base \in Int
      /\ \A i \in 0 .. n : x[i] \in Numbers(n) /\ x[i] \in [0 .. n - 1 -> Int]
      /\ s \in [0 .. n - 1 -> Int] /\ c \in [0 .. n -> Int] /\ c[0] = 0
  BY Bases DEF Numbers, Word, Totalling
<1>2. W[0] = 1 /\ W \in [0 .. n -> Int] /\ \A i \in 0 .. n - 1 : W[i + 1] = Base * W[i]
  BY WeightsDef
<1> HIDE DEF W
<1>3. \A i \in 0 .. n : Upto(x[i])[0] = 0 /\ Upto(x[i])[i] \in Int /\ ValueOf(x[i]) = Upto(x[i])[n]
  BY <1>1, UptoDef
<1>4. 0 \in S
  <2>1. Upto(s)[0] = 0 /\ Upto(x[0])[0] = 0
    BY <1>1, <1>3, UptoDef
  <2> QED BY <1>1, <1>2, <2>1
<1>5. ASSUME NEW i \in 0 .. n - 1, i \in S PROVE i + 1 \in S
  <2> DEFINE t == x[i + 1][i]
  <2>1. i \in 0 .. n /\ i + 1 \in 0 .. n
    OBVIOUS
  <2>2. t \in Word /\ x[i] \in Numbers(n) /\ x[i + 1] = [x[i] EXCEPT ![i] = t]
    BY <1>1, <2>1 DEF Numbers, Totalling
  <2>3. t + c[i + 1] * Base = s[i] + c[i]
    BY DEF Totalling
  <2> HIDE DEF t
  <2>4. Upto(x[i + 1])[i + 1] = Upto(x[i])[i] + t * W[i]
    BY <2>2, UptoExcept DEF W
  <2>5. Upto(x[i])[i] + c[i] * W[i] = Upto(s)[i] /\ Upto(s)[i] \in Int
    BY <1>1, <1>5, <2>1, UptoDef
  <2>6. W[i] \in Int /\ Upto(x[i])[i] \in Int /\ s[i] \in Int /\ c[i] \in Int /\ c[i + 1] \in Int
        /\ t \in Int
    BY <1>1, <1>2, <1>3, <2>1, <2>2
  <2>7. (Upto(x[i])[i] + t * W[i]) + c[i + 1] * (Base * W[i]) = Upto(s)[i] + s[i] * W[i]
    <3>1. Passes(Base, W[i], Upto(x[i])[i], t, c[i], c[i + 1], s[i], Upto(s)[i])
      BY <1>1, <2>3, <2>5, <2>6 DEF Passes
    <3> QED BY <3>1, NextWord
  <2>8. Upto(s)[i + 1] = Upto(s)[i] + s[i] * W[i]
    BY <1>1, UptoDef DEF W
  <2>9. Upto(x[i + 1])[i + 1] + c[i + 1] * W[i + 1] = Upto(s)[i + 1]
    BY <1>2, <2>4, <2>7, <2>8
  <2> QED BY <2>1, <2>9
<1> HIDE DEF S
<1>6. \A i \in 0 .. n : i \in S
  BY <1>4, <1>5, Upwards
<1>7. Upto(x[n])[n] + c[n] * W[n] = Upto(s)[n]
  BY <1>6 DEF S
<1>8. ValueOf(s) = Upto(s)[n] /\ ValueOf(x[n]) = Upto(x[n])[n]
  BY <1>1, <1>3, UptoDef
<1> QED BY <1>7, <1>8 DEF W

\* What an overflowing operation is to return for the integer v: the number that
\* v is modulo two to the width, and whether v itself does not fit.
Computes(r, n, v) ==
  /\ r.n \in Numbers(n)
  /\ ValueOf(r.n) = v % Weights(n)[n]
  /\ r.over \in BOOLEAN /\ (r.over <=> v \notin 0 .. Weights(n)[n] - 1)

\* A number and its overflow, in the weight of the next word.
LEMMA Fitting ==
    ASSUME HalfBase \in Nat \ {0}, NEW n \in Nat, NEW r, r.n \in Numbers(n), NEW k \in Int, NEW v,
           v = ValueOf(r.n) + k * Weights(n)[n], r.over = (k # 0)
    PROVE  Computes(r, n, v)
<1> DEFINE w == Weights(n)[n]
           x == ValueOf(r.n)
<1>1. w \in Nat \ {0}
  BY WeightsDef
<1>2. x \in 0 .. w - 1
  <2>1. r.n \in [0 .. n - 1 -> Int]
    BY Bases DEF Numbers, Word
  <2>2. x = Upto(r.n)[n]
    BY <2>1, UptoDef
  <2> QED BY <2>2, UptoBelow
<1>3. v = k * w + x
  BY <1>1, <1>2
<1> HIDE DEF w, x
<1>4. v % w = x
  BY <1>1, <1>2, <1>3, Divided
<1>5. CASE k = 0
  <2>1. 0 * w = 0
    BY <1>1
  <2>2. v \in 0 .. w - 1
    BY <1>1, <1>2, <1>3, <1>5, <2>1
  <2>3. r.over = FALSE
    <3>1. (k # 0) = FALSE
      BY <1>5
    <3> QED BY <3>1, Zenon
  <2> QED BY <1>4, <2>2, <2>3 DEF Computes, w, x
<1>6. CASE k > 0
  <2>1. 1 * w <= k * w /\ k * w \in Int
    BY <1>1, <1>6, Scaling
  <2>2. v \notin 0 .. w - 1
    BY <1>1, <1>2, <1>3, <1>6, <2>1
  <2>3. r.over = TRUE
    <3>1. (k # 0) = TRUE
      BY <1>6
    <3> QED BY <3>1, Zenon
  <2> QED BY <1>4, <2>2, <2>3 DEF Computes, w, x
<1>7. CASE k < 0
  <2>1. k * w <= (-1) * w /\ k * w \in Int
    BY <1>1, <1>7, Scaling
  <2>2. v \notin 0 .. w - 1
    BY <1>1, <1>2, <1>3, <1>7, <2>1
  <2>3. r.over = TRUE
    <3>1. (k # 0) = TRUE
      BY <1>7
    <3> QED BY <3>1, Zenon
  <2> QED BY <1>4, <2>2, <2>3 DEF Computes, w, x
<1> QED BY <1>5, <1>6, <1>7

-----------------------------------------------------------------------------
(* Sums, differences and products with a half                                *)

Carrying(n) == [n : Numbers(n), carry : 0 .. 1]

\* A loop over the words stays among its states.
LEMMA LoopStays ==
    ASSUME NEW n \in Nat, NEW V, NEW F, F = [i \in 0 .. n |-> F[i]], F[0] \in V,
           \A i \in 0 .. n - 1 : F[i] \in V => F[i + 1] \in V
    PROVE  F \in [0 .. n -> V]
<1> DEFINE S == {i \in 0 .. n : F[i] \in V}
<1>1. 0 \in S
  OBVIOUS
<1>2. ASSUME NEW i \in 0 .. n - 1, i \in S PROVE i + 1 \in S
  <2>1. i \in 0 .. n /\ i + 1 \in 0 .. n
    OBVIOUS
  <2> QED BY <1>2, <2>1
<1> HIDE DEF S
<1>3. \A i \in 0 .. n : i \in S
  BY <1>1, <1>2, Upwards
<1> QED BY <1>3 DEF S

\* The number and the overflow that such a loop ends with are those of s.
LEMMA Gathered ==
    ASSUME HalfBase \in Nat \ {0}, NEW n \in Nat, NEW s, NEW x, NEW c, Totalling(n, s, x, c),
           NEW r, r.n = x[n], r.over = (c[n] # 0)
    PROVE  Computes(r, n, ValueOf(s))
<1>1. n \in 0 .. n
  OBVIOUS
<1>2. r.n \in Numbers(n) /\ c[n] \in Int
  BY <1>1 DEF Totalling
<1>3. ValueOf(r.n) + c[n] * Weights(n)[n] = ValueOf(s)
  BY Totals
<1> QED BY <1>2, <1>3, Fitting

\* A combination of two numbers is that of what they stand for.
LEMMA ValueCombined ==
    ASSUME HalfBase \in Nat \ {0}, NEW n \in Nat, NEW k \in Int, NEW l \in Int, NEW a, NEW b, NEW s,
           Combines(s, n, k, a, l, b)
    PROVE  ValueOf(s) = k * ValueOf(a) + l * ValueOf(b)
<1>1. n \in 0 .. n
  OBVIOUS
<1>2. Upto(s)[n] = k * Upto(a)[n] + l * Upto(b)[n]
  BY <1>1, UptoLinear
<1>3. ValueOf(s) = Upto(s)[n] /\ ValueOf(a) = Upto(a)[n] /\ ValueOf(b) = Upto(b)[n]
  BY UptoDef DEF Combines
<1> QED BY <1>2, <1>3, Zenon

\* What a number stands for is less than the weight of a word more.
LEMMA ValueBelow ==
    ASSUME HalfBase \in Nat \ {0}, NEW n \in Nat, NEW a \in Numbers(n)
    PROVE  /\ ValueOf(a) \in 0 .. Weights(n)[n] - 1 /\ a \in [0 .. n - 1 -> Int]
           /\ Weights(n)[n] \in Nat \ {0}
<1>1. a \in [0 .. n - 1 -> Int] /\ n \in 0 .. n
  BY Bases DEF Numbers, Word
<1>2. ValueOf(a) = Upto(a)[n]
  BY <1>1, UptoDef
<1>3. Upto(a)[n] \in 0 .. Weights(n)[n] - 1
  BY <1>1, UptoBelow
<1> QED BY <1>1, <1>2, <1>3, WeightsDef

\* What mul_u32 computes from a word, of the halves ah and al, a half k and the
\* carry c.
HalfStep(H, B, ah, al, k, c, u, r, t) ==
  /\ H \in Nat \ {0} /\ B = H * H /\ ah \in 0 .. H - 1 /\ al \in 0 .. H - 1
  /\ k \in 0 .. H - 1 /\ c \in 0 .. B - 1
  /\ u = k * ah /\ r = k * al + ((u * H) % B) /\ t = (r % B) + c

\* mul_u32 computes the product, and adds the carry.
LEMMA HalfProduct ==
    ASSUME NEW H, NEW B, NEW ah, NEW al, NEW k, NEW c, NEW u, NEW r, NEW t,
           HalfStep(H, B, ah, al, k, c, u, r, t)
    PROVE  /\ t % B \in 0 .. B - 1 /\ u \div H + r \div B + t \div B \in Nat
           /\ (t % B) + (u \div H + r \div B + t \div B) * B = (ah * H + al) * k + c
<1> USE DEF HalfStep
<1>1. B \in Nat \ {0}
  OBVIOUS
<1>2. u \in Nat /\ k * al \in Nat
  OBVIOUS
<1>3. PICK q \in Int, m \in 0 .. H - 1 : q = u \div H /\ m = u % H /\ u = q * H + m
  <2>1. u \in Int /\ H \in Nat \ {0}
    BY <1>2
  <2> HIDE DEF HalfStep
  <2>2. u \div H \in Int /\ u % H \in 0 .. H - 1 /\ u = (u \div H) * H + (u % H)
    BY <2>1, Dividing
  <2> QED BY <2>2, Zenon
<1>4. q \in Nat
  BY <1>2, <1>3
<1>5. u * H = q * B + m * H
  <2>1. (q * H + m) * H = (q * H) * H + m * H
    BY <1>3
  <2>2. (q * H) * H = q * (H * H)
    BY <1>3
  <2> QED BY <1>3, <2>1, <2>2
<1>6. m * H \in 0 .. B - 1
  <2>1. m * H <= (H - 1) * H /\ m * H >= 0 /\ m * H \in Int
    BY <1>3, Scaling
  <2>2. (H - 1) * H = B - H
    OBVIOUS
  <2> QED BY <1>1, <2>1, <2>2
<1>7. (u * H) % B = m * H
  BY <1>1, <1>3, <1>5, <1>6, Divided
<1>8. PICK p \in Int, v \in 0 .. B - 1 : p = r \div B /\ v = r % B /\ r = p * B + v
  <2>1. r \in Int /\ B \in Nat \ {0}
    BY <1>1, <1>2, <1>6, <1>7
  <2> HIDE DEF HalfStep
  <2>2. r \div B \in Int /\ r % B \in 0 .. B - 1 /\ r = (r \div B) * B + (r % B)
    BY <2>1, Dividing
  <2> QED BY <2>2, Zenon
<1>9. PICK o \in Int, w \in 0 .. B - 1 : o = t \div B /\ w = t % B /\ t = o * B + w
  <2>1. t \in Int /\ B \in Nat \ {0}
    BY <1>1, <1>8
  <2> HIDE DEF HalfStep
  <2>2. t \div B \in Int /\ t % B \in 0 .. B - 1 /\ t = (t \div B) * B + (t % B)
    BY <2>1, Dividing
  <2> QED BY <2>2, Zenon
<1>10. p \in Nat /\ o \in Nat
  <2>1. r \in Nat /\ t \in Nat
    BY <1>2, <1>6, <1>7, <1>8
  <2> QED BY <1>1, <1>8, <1>9, <2>1
<1>11. (q + p + o) * B = q * B + p * B + o * B
  BY <1>1, <1>3, <1>8, <1>9
<1>12. (ah * H + al) * k = u * H + k * al
  <2>1. (ah * H + al) * k = (ah * H) * k + al * k
    OBVIOUS
  <2>2. (ah * H) * k = (k * ah) * H /\ al * k = k * al
    OBVIOUS
  <2> QED BY <2>1, <2>2
<1>13. w + (q * B + p * B + o * B) = u * H + k * al + c
  <2>1. q * B \in Int /\ p * B \in Int /\ o * B \in Int /\ m * H \in Int /\ k * al \in Int /\ w \in Int
        /\ v \in Int /\ c \in Int
    BY <1>1, <1>2, <1>3, <1>8, <1>9, <1>6
  <2>2. v + c = o * B + w
    BY <1>8, <1>9
  <2>3. k * al + m * H = p * B + v
    BY <1>7, <1>8
  <2> QED BY <1>5, <2>1, <2>2, <2>3
<1> QED BY <1>3, <1>4, <1>8, <1>9, <1>10, <1>11, <1>12, <1>13

\* mul_u32: the word and the carry, less than a half of the base, are all there is.
LEMMA MulU32Correct ==
    ASSUME HalfBase \in Nat \ {0}, NEW a \in Word, NEW half \in 0 .. HalfBase - 1, NEW carry \in Word,
           NEW p, p = MulU32(a, half, carry)
    PROVE  /\ p[1] \in Word /\ p[2] \in 0 .. HalfBase - 1
           /\ p[1] + p[2] * Base = a * half + carry
<1> DEFINE H == HalfBase
           B == Base
           ah == a \div H
           al == a % H
           u == half * ah
           r == half * al + ((u * H) % B)
           t == (r % B) + carry
<1>1. B \in Nat \ {0} /\ B = H * H /\ a \in 0 .. B - 1 /\ carry \in 0 .. B - 1
  BY Bases DEF Word
<1>2. p[1] = t % B /\ p[2] = u \div H + r \div B + t \div B
  BY DEF MulU32
<1>3. a = ah * H + al /\ al \in 0 .. H - 1 /\ ah \in 0 .. H - 1
  <2> HIDE DEF B
  <2>1. a = ah * H + al /\ al \in 0 .. H - 1 /\ ah \in Int
    BY <1>1, Dividing
  <2> HIDE DEF ah, al
  <2>2. ah >= 0
    <3>1. SUFFICES ASSUME ah <= -1 PROVE FALSE
      BY <2>1
    <3>2. ah * H <= (-1) * H
      BY <2>1, <3>1, Scaling
    <3> QED BY <1>1, <2>1, <3>2
  <2>3. ah < H
    <3>1. SUFFICES ASSUME H <= ah PROVE FALSE
      BY <2>1
    <3>2. H * H <= ah * H
      BY <2>1, <3>1, Scaling
    <3> QED BY <1>1, <2>1, <3>2
  <2> QED BY <2>1, <2>2, <2>3
<1> HIDE DEF ah, al, B
<1>4. /\ t % B \in 0 .. B - 1 /\ u \div H + r \div B + t \div B \in Nat
      /\ (t % B) + (u \div H + r \div B + t \div B) * B = (ah * H + al) * half + carry
  <2>1. HalfStep(H, B, ah, al, half, carry, u, r, t)
    BY <1>1, <1>3 DEF HalfStep
  <2> HIDE DEF u, r, t
  <2> QED BY <2>1, HalfProduct
<1> HIDE DEF u, r, t
<1>5. p[1] \in 0 .. B - 1 /\ p[2] \in Nat /\ p[1] + p[2] * B = a * half + carry
  BY <1>2, <1>3, <1>4
<1>6. p[2] < H
  <2>1. SUFFICES ASSUME H <= p[2] PROVE FALSE
    BY <1>5
  <2>2. H * B <= p[2] * B
    BY <1>1, <1>5, <2>1, Scaling
  <2>3. a * half <= (B - 1) * half
    BY <1>1, Scaling
  <2>4. (B - 1) * half = half * (B - 1)
    BY <1>1
  <2>5. half * (B - 1) <= (H - 1) * (B - 1)
    BY <1>1, Scaling
  <2>6. (H - 1) * (B - 1) = H * B - H - B + 1
    BY <1>1
  <2>7. H * B \in Int /\ p[2] * B \in Int /\ a * half \in Int
    BY <1>1, <1>5
  <2> QED BY <1>1, <1>5, <2>2, <2>3, <2>4, <2>5, <2>6, <2>7
<1> QED BY <1>5, <1>6 DEF B, Word

\* The two halves of a word.
LEMMA Halved ==
    ASSUME HalfBase \in Nat \ {0}, NEW a \in Word
    PROVE  /\ a \div HalfBase \in 0 .. HalfBase - 1 /\ a % HalfBase \in 0 .. HalfBase - 1
           /\ a = (a \div HalfBase) * HalfBase + (a % HalfBase)
<1> DEFINE H == HalfBase
           B == Base
<1>1. B \in Nat \ {0} /\ B = H * H /\ a \in 0 .. B - 1 /\ H \in Nat \ {0}
  BY Bases DEF Word
<1> DEFINE ah == a \div H
           al == a % H
<1> HIDE DEF B, H
<1>2. a = ah * H + al /\ al \in 0 .. H - 1 /\ ah \in Int
  BY <1>1, Dividing
<1> HIDE DEF ah, al
<1>3. ah >= 0
  <2>1. SUFFICES ASSUME ah <= -1 PROVE FALSE
    BY <1>2
  <2>2. ah * H <= (-1) * H
    BY <1>1, <1>2, <2>1, Scaling
  <2> QED BY <1>1, <1>2, <2>2
<1>4. ah < H
  <2>1. SUFFICES ASSUME H <= ah PROVE FALSE
    BY <1>1, <1>2
  <2>2. H * H <= ah * H
    BY <1>1, <1>2, <2>1, Scaling
  <2> QED BY <1>1, <1>2, <2>2
<1> QED BY <1>2, <1>3, <1>4 DEF ah, al, H

\* The four halves of a product of words are put together.
HalfSum(H, B, l1, l2, h1, h2, word, bh, bl, add) ==
  /\ H \in Nat \ {0} /\ B = H * H
  /\ l1 \in 0 .. B - 1 /\ l2 \in 0 .. H - 1 /\ h1 \in 0 .. B - 1 /\ h2 \in 0 .. H - 1
  /\ word \in 0 .. B - 1 /\ bh \in 0 .. H - 1 /\ bl \in 0 .. H - 1 /\ add \in 0 .. B - 1
  /\ l1 + l2 * B = word * bl + add
  /\ h1 + h2 * B = word * bh + (l1 \div H)
  /\ l1 \div H \in 0 .. H - 1 /\ l1 % H \in 0 .. H - 1 /\ l1 = (l1 \div H) * H + (l1 % H)
  /\ h1 \div H \in 0 .. H - 1 /\ h1 % H \in 0 .. H - 1 /\ h1 = (h1 \div H) * H + (h1 % H)

\* The two products make the product of the words, and no part of it is lost.
LEMMA HalvesTogether ==
    ASSUME NEW H, NEW B, NEW l1, NEW l2, NEW h1, NEW h2, NEW word, NEW bh, NEW bl, NEW add,
           HalfSum(H, B, l1, l2, h1, h2, word, bh, bl, add),
           NEW p1, p1 = (l1 % H) + ((h1 * H) % B),
           NEW p2, p2 = h1 \div H + ((h2 * H) % B) + l2
    PROVE  /\ p1 \in 0 .. B - 1 /\ p2 \in 0 .. B - 1
           /\ p1 + p2 * B = word * (bh * H + bl) + add
<1> DEFINE lh == l1 \div H
           ll == l1 % H
           hh == h1 \div H
           hl == h1 % H
<1>1. /\ H \in Nat \ {0} /\ B = H * H /\ B \in Nat \ {0}
      /\ l1 \in 0 .. B - 1 /\ l2 \in 0 .. H - 1 /\ h1 \in 0 .. B - 1 /\ h2 \in 0 .. H - 1
      /\ word \in 0 .. B - 1 /\ bh \in 0 .. H - 1 /\ bl \in 0 .. H - 1 /\ add \in 0 .. B - 1
  BY DEF HalfSum
<1>2. /\ l1 + l2 * B = word * bl + add
      /\ h1 + h2 * B = word * bh + lh
      /\ lh \in 0 .. H - 1 /\ ll \in 0 .. H - 1 /\ l1 = lh * H + ll
      /\ hh \in 0 .. H - 1 /\ hl \in 0 .. H - 1 /\ h1 = hh * H + hl
  BY DEF HalfSum
<1>3. p1 = ll + ((h1 * H) % B) /\ p2 = hh + ((h2 * H) % B) + l2
  OBVIOUS
<1> HIDE DEF lh, ll, hh, hl
<1>4. \A x \in 0 .. H - 1 : x * H \in 0 .. B - H
  <2>1. ASSUME NEW x \in 0 .. H - 1 PROVE x * H \in 0 .. B - H
    <3>1. x * H <= (H - 1) * H /\ x * H >= 0 /\ x * H \in Int
      BY <1>1, Scaling
    <3>2. (H - 1) * H = B - H
      BY <1>1
    <3> QED BY <1>1, <3>1, <3>2
  <2> QED BY <2>1
<1>5. (h1 * H) % B = hl * H /\ h1 * H = hh * B + hl * H
  <2>1. h1 * H = hh * B + hl * H
    <3>1. (hh * H + hl) * H = (hh * H) * H + hl * H
      BY <1>1, <1>2
    <3>2. (hh * H) * H = hh * (H * H)
      BY <1>1, <1>2
    <3> QED BY <1>1, <1>2, <3>1, <3>2
  <2>2. hl * H \in 0 .. B - 1 /\ hh \in Int
    <3>1. hl * H \in 0 .. B - H
      BY <1>2, <1>4
    <3> QED BY <1>1, <1>2, <3>1
  <2>3. (hh * B + hl * H) % B = hl * H
    BY <1>1, <2>2, Divided
  <2> QED BY <2>1, <2>3
<1>6. h2 * H \in 0 .. B - H /\ hl * H \in 0 .. B - H
  BY <1>1, <1>2, <1>4
<1>7. (h2 * H) % B = h2 * H
  <2>1. h2 * H \in 0 .. B - 1
    BY <1>1, <1>6
  <2> DEFINE x == h2 * H
  <2>2. x \in 0 .. B - 1
    BY <2>1
  <2> HIDE DEF x
  <2>3. x % B = x
    BY <1>1, <2>2
  <2> QED BY <2>3 DEF x
<1>8. p1 \in 0 .. B - 1 /\ p1 = ll + hl * H
  BY <1>1, <1>2, <1>3, <1>5, <1>6
<1>9. p2 = hh + h2 * H + l2 /\ p2 \in Nat
  BY <1>1, <1>2, <1>3, <1>6, <1>7
<1>10. p1 + p2 * B = word * (bh * H + bl) + add
  <2>1. p2 * B = hh * B + (h2 * H) * B + l2 * B
    BY <1>1, <1>2, <1>6, <1>9
  <2>2. (h2 * H) * B = (h2 * B) * H
    BY <1>1
  <2>3. (h1 + h2 * B) * H = h1 * H + (h2 * B) * H
    BY <1>1
  <2>4. (word * bh + lh) * H = word * (bh * H) + lh * H
    BY <1>1, <1>2
  <2>5. word * (bh * H + bl) = word * (bh * H) + word * bl
    BY <1>1
  <2>6. /\ hh * B \in Int /\ hl * H \in Int /\ (h2 * B) * H \in Int /\ l2 * B \in Int /\ h1 * H \in Int
        /\ word * (bh * H) \in Int /\ lh * H \in Int /\ word * bl \in Int /\ ll \in Int /\ add \in Int
    BY <1>1, <1>2, <1>6
  <2>7. h1 * H + (h2 * B) * H = word * (bh * H) + lh * H
    BY <1>2, <2>3, <2>4
  <2>8. lh * H + ll + l2 * B = word * bl + add
    BY <1>2
  <2>9. p1 + p2 * B = ll + hl * H + hh * B + (h2 * B) * H + l2 * B
    BY <1>8, <2>1, <2>2, <2>6
  <2>10. ll + hl * H + hh * B + (h2 * B) * H + l2 * B = word * (bh * H) + word * bl + add
    <3>1. PICK x1 \in Int, x2 \in Int, x3 \in Int, x4 \in Int, x5 \in Int, x6 \in Int :
            x1 = hh * B /\ x2 = hl * H /\ x3 = (h2 * B) * H /\ x4 = l2 * B /\ x5 = h1 * H
            /\ x6 = word * (bh * H)
      BY <2>6, Zenon
    <3>2. PICK x7 \in Int, x8 \in Int : x7 = lh * H /\ x8 = word * bl
      BY <2>6, Zenon
    <3>3. x5 = x1 + x2 /\ x5 + x3 = x6 + x7 /\ x7 + ll + x4 = x8 + add
      BY <1>5, <2>7, <2>8, <3>1, <3>2, Zenon
    <3>4. ll + x2 + x1 + x3 + x4 = x6 + x8 + add
      BY <2>6, <3>3
    <3> QED BY <3>1, <3>2, <3>4, Zenon
  <2> QED BY <2>5, <2>9, <2>10, Zenon
<1>11. p2 < B
  <2> DEFINE by == bh * H + bl
  <2>1. by \in 0 .. B - 1
    BY <1>1, <1>4
  <2>2. p1 + p2 * B = word * by + add
    BY <1>10
  <2> HIDE DEF by
  <2>3. SUFFICES ASSUME B <= p2 PROVE FALSE
    BY <1>1, <1>9
  <2>4. B * B <= p2 * B /\ p2 * B \in Int
    BY <1>1, <1>9, <2>3, Scaling
  <2>5. word * by <= (B - 1) * by /\ word * by \in Int
    BY <1>1, <2>1, Scaling
  <2>6. (B - 1) * by = by * (B - 1)
    BY <1>1, <2>1
  <2>7. by * (B - 1) <= (B - 1) * (B - 1)
    BY <1>1, <2>1, Scaling
  <2>8. (B - 1) * (B - 1) = B * B - B - B + 1 /\ B * B \in Int
    BY <1>1
  <2>9. word * by <= B * B - B - B + 1
    BY <1>1, <2>1, <2>5, <2>6, <2>7, <2>8
  <2>10. word * by + add < B * B
    BY <1>1, <2>5, <2>8, <2>9
  <2>11. p1 + p2 * B >= B * B
    BY <1>8, <2>4, <2>8
  <2> QED BY <1>8, <2>2, <2>4, <2>5, <2>8, <2>10, <2>11
<1>12. p2 \in 0 .. B - 1
  BY <1>1, <1>9, <1>11
<1> QED BY <1>8, <1>10, <1>12, Zenon

\* The product of two words with a word to add.
LEMMA MulWordsCorrect ==
    ASSUME HalfBase \in Nat \ {0}, NEW word \in Word, NEW by \in Word, NEW add \in Word,
           NEW p, p = MulWords(word, by, add)
    PROVE  p[1] \in Word /\ p[2] \in Word /\ p[1] + p[2] * Base = word * by + add
<1> DEFINE H == HalfBase
           bh == by \div H
           bl == by % H
           low == MulU32(word, bl, add)
           high == MulU32(word, bh, low[1] \div H)
<1>1. Base \in Nat \ {0} /\ Base = H * H /\ Word = 0 .. Base - 1 /\ H <= Base
  BY Bases DEF Word
<1>2. bh \in 0 .. H - 1 /\ bl \in 0 .. H - 1 /\ by = bh * H + bl
  BY Halved
<1>3. low[1] \in Word /\ low[2] \in 0 .. H - 1 /\ low[1] + low[2] * Base = word * bl + add
  <2> HIDE DEF bl
  <2> QED BY <1>2, MulU32Correct
<1> HIDE DEF low, bh, bl, high
<1>4. low[1] \div H \in 0 .. H - 1 /\ low[1] % H \in 0 .. H - 1
      /\ low[1] = (low[1] \div H) * H + (low[1] % H)
  BY <1>3, Halved
<1>5. low[1] \div H \in Word
  <2>1. \A x \in 0 .. H - 1 : x \in Word
    BY <1>1
  <2> QED BY <1>4, <2>1
<1>6. high[1] \in Word /\ high[2] \in 0 .. H - 1
      /\ high[1] + high[2] * Base = word * bh + (low[1] \div H)
  <2> DEFINE c == low[1] \div H
  <2>1. c \in Word
    BY <1>5
  <2> HIDE DEF c
  <2>2. high = MulU32(word, bh, c)
    BY DEF high, c
  <2>3. high[1] \in Word /\ high[2] \in 0 .. H - 1 /\ high[1] + high[2] * Base = word * bh + c
    BY <1>2, <2>1, <2>2, MulU32Correct
  <2> QED BY <2>3 DEF c
<1>7. high[1] \div H \in 0 .. H - 1 /\ high[1] % H \in 0 .. H - 1
      /\ high[1] = (high[1] \div H) * H + (high[1] % H)
  BY <1>6, Halved
<1>8. HalfSum(H, Base, low[1], low[2], high[1], high[2], word, bh, bl, add)
  BY <1>1, <1>2, <1>3, <1>4, <1>6, <1>7 DEF HalfSum
<1>9. /\ p[1] = (low[1] % H) + ((high[1] * H) % Base)
      /\ p[2] = high[1] \div H + ((high[2] * H) % Base) + low[2]
  BY DEF MulWords, WithHigh, Wide, low, high, bh, bl
<1>10. /\ p[1] \in 0 .. Base - 1 /\ p[2] \in 0 .. Base - 1
       /\ p[1] + p[2] * Base = word * (bh * H + bl) + add
  BY <1>8, <1>9, HalvesTogether
<1> QED BY <1>1, <1>2, <1>10

\* One round of a subtraction: the word, and the borrow.
LEMMA Borrowed ==
    ASSUME HalfBase \in Nat \ {0}, NEW x \in Word, NEW y \in Word, NEW c \in 0 .. 1,
           NEW r, r = x - y, NEW t, t = (r % Base) - c,
           NEW d, d = (IF r < 0 THEN 1 ELSE 0) + (IF t < 0 THEN 1 ELSE 0)
    PROVE  /\ t % Base \in Word /\ d \in 0 .. 1
           /\ (t % Base) - d * Base = x - y - c
<1> DEFINE B == Base
<1>1. B \in Nat \ {0} /\ x \in 0 .. B - 1 /\ y \in 0 .. B - 1
  BY Bases DEF Word
<1>2. t = (r % B) - c
  OBVIOUS
<1>3. SUFFICES /\ t % B \in 0 .. B - 1 /\ d \in 0 .. 1
               /\ (t % B) - d * B = x - y - c
  BY DEF Word
<1> HIDE DEF B
<1>4. 1 * B = B /\ 0 * B = 0
  BY <1>1
<1>5. CASE r < 0
  <2>1. r + B \in 1 .. B - 1 /\ r = (-1) * B + (r + B)
    BY <1>1, <1>5
  <2>2. r % B = r + B
    <3>1. PICK e \in 0 .. B - 1 : e = r + B
      BY <1>1, <2>1
    <3>2. ((-1) * B + e) % B = e
      BY <1>1, Divided
    <3>3. (-1) * B + e = r
      BY <1>1, <1>5, <3>1
    <3> QED BY <3>1, <3>2, <3>3
  <2>3. t \in 0 .. B - 1 /\ t = r + B - c
    BY <1>1, <1>2, <2>1, <2>2
  <2>4. t % B = t
    BY <1>1, <2>3
  <2>5. d = 1
    BY <1>5, <2>3
  <2> QED BY <1>1, <1>4, <2>3, <2>4, <2>5
<1>6. CASE r >= 0
  <2>1. r \in 0 .. B - 1
    BY <1>1, <1>6
  <2>2. r % B = r
    BY <1>1, <2>1
  <2>3. CASE r >= c
    <3>1. t \in 0 .. B - 1 /\ t = r - c
      BY <1>1, <1>2, <2>1, <2>2, <2>3
    <3>2. t % B = t
      BY <1>1, <3>1
    <3>3. d = 0
      BY <1>6, <3>1
    <3> QED BY <1>1, <1>4, <3>1, <3>2, <3>3
  <2>4. CASE r < c
    <3>1. r = 0 /\ c = 1 /\ t = -1
      BY <1>2, <2>1, <2>2, <2>4
    <3>2. t = (-1) * B + (B - 1) /\ B - 1 \in 0 .. B - 1
      BY <1>1, <3>1
    <3>3. t % B = B - 1
      BY <1>1, <3>2, Divided
    <3>4. d = 1
      BY <3>1
    <3> QED BY <1>1, <1>4, <3>1, <3>3, <3>4
  <2> QED BY <2>1, <2>3, <2>4
<1> QED BY <1>1, <1>5, <1>6

\* overflowing_add: the sum of two numbers, of any number of words of any size,
\* and whether it takes a word more than they have.
THEOREM AddCorrect ==
    ASSUME HalfBase \in Nat \ {0}, NEW n \in Nat, NEW a \in Numbers(n), NEW b \in Numbers(n),
           NEW r, r = OverflowingAdd(a, b)
    PROVE  Computes(r, n, ValueOf(a) + ValueOf(b))
<1> DEFINE N == Words(a)
           V == Carrying(n)
           Step(q, i) == LET o == a[i] + b[i]
                             t == (o % Base) + q.carry
                         IN  [n |-> [q.n EXCEPT ![i] = t % Base],
                              carry |-> o \div Base + t \div Base]
           start == [n |-> Of(N, 0), carry |-> 0]
           F[i \in 0 .. N] == IF i = 0 THEN start ELSE Step(F[i - 1], i - 1)
<1>1. r = [n |-> F[N].n, over |-> F[N].carry > 0]
  BY DEF OverflowingAdd, Loop
<1>2. N = n
  BY WordsOf DEF Numbers
<1>3. 0 \in Word /\ Base \in Nat \ {0} /\ Word \subseteq Int
  BY Bases DEF Word
<1>4. start \in V
  BY <1>2, <1>3 DEF Of, Numbers, Carrying
<1>5. ASSUME NEW q \in V, NEW i \in 0 .. n - 1
      PROVE  /\ Step(q, i) \in V
             /\ Step(q, i).n = [q.n EXCEPT ![i] = Step(q, i).n[i]]
             /\ Step(q, i).n[i] + (Step(q, i).carry) * Base = (a[i] + b[i]) + (q.carry)
  <2> DEFINE o == a[i] + b[i]
             t == (o % Base) + q.carry
  <2>1. q.n \in Numbers(n) /\ q.carry \in 0 .. 1
    BY DEF Carrying
  <2>2. a[i] \in Word /\ b[i] \in Word
    BY DEF Numbers
  <2>3. /\ t % Base \in Word /\ o \div Base + t \div Base \in 0 .. 1
        /\ (t % Base) + (o \div Base + t \div Base) * Base = a[i] + b[i] + q.carry
    BY <2>1, <2>2, Carried
  <2>4. Step(q, i).n = [q.n EXCEPT ![i] = t % Base] /\ Step(q, i).carry = o \div Base + t \div Base
    OBVIOUS
  <2>5. Step(q, i) = [n |-> Step(q, i).n, carry |-> Step(q, i).carry]
    OBVIOUS
  <2> HIDE DEF o, t, Step
  <2>6. [q.n EXCEPT ![i] = t % Base] \in Numbers(n) /\ [q.n EXCEPT ![i] = t % Base][i] = t % Base
    BY <2>1, <2>3 DEF Numbers
  <2> QED BY <2>3, <2>4, <2>5, <2>6 DEF Carrying
<1> HIDE DEF Step, start
<1>6. /\ F[0] = start
      /\ \A i \in 0 .. n - 1 : F[i + 1] = Step(F[i], i)
      /\ F \in [0 .. n -> V]
  <2> DEFINE step == [p \in V \X (0 .. n - 1) |-> Step(p[1], p[2])]
  <2>1. step \in [V \X (0 .. n - 1) -> V]
    BY <1>5
  <2>2. PICK f \in [0 .. n -> V] : Runs(f, n, start, step)
    <3> HIDE DEF step, V
    <3> QED BY <1>4, <2>1, Looping, Zenon
  <2> HIDE DEF F
  <2>3. f = [i \in 0 .. n |-> IF i = 0 THEN start ELSE Step(f[i - 1], i - 1)]
    <3>1. ASSUME NEW i \in 0 .. n, i # 0 PROVE step[<<f[i - 1], i - 1>>] = Step(f[i - 1], i - 1)
      <4>1. i - 1 \in 0 .. n /\ i - 1 \in 0 .. n - 1
        BY <3>1
      <4>2. f[i - 1] \in V
        BY <4>1
      <4> QED BY <4>1, <4>2
    <3> HIDE DEF step, V
    <3> QED BY <2>2, <3>1 DEF Runs
  <2>4. F = [i \in 0 .. n |-> IF i = 0 THEN start ELSE Step(F[i - 1], i - 1)]
    BY <1>2, <2>3 DEF F
  <2>5. F[0] = start /\ \A i \in 0 .. n - 1 : F[i + 1] = Step(F[i], i)
    BY <2>4
  <2>6. F = [i \in 0 .. n |-> F[i]]
    BY <2>4
  <2>7. ASSUME NEW i \in 0 .. n - 1, F[i] \in V PROVE F[i + 1] \in V
    BY <1>5, <2>5, <2>7
  <2> HIDE DEF V
  <2> QED BY <1>4, <2>5, <2>6, <2>7, LoopStays
<1> HIDE DEF F
<1> DEFINE x == [i \in 0 .. n |-> F[i].n]
           c == [i \in 0 .. n |-> F[i].carry]
           s == [i \in 0 .. n - 1 |-> a[i] + b[i]]
<1>7. x \in [0 .. n -> Numbers(n)] /\ c \in [0 .. n -> Int] /\ c[0] = 0
  <2>1. F[0].carry = 0 /\ \A i \in 0 .. n : F[i].n \in Numbers(n) /\ F[i].carry \in Int
    BY <1>3, <1>6 DEF start, Carrying
  <2> QED BY <2>1
<1>8. \A i \in 0 .. n - 1 : /\ x[i + 1] = [x[i] EXCEPT ![i] = x[i + 1][i]]
                            /\ x[i + 1][i] + c[i + 1] * Base = s[i] + c[i]
  <2>1. ASSUME NEW i \in 0 .. n - 1
        PROVE  /\ F[i + 1].n = [F[i].n EXCEPT ![i] = F[i + 1].n[i]]
               /\ F[i + 1].n[i] + (F[i + 1].carry) * Base = (a[i] + b[i]) + (F[i].carry)
    <3>1. F[i] \in V /\ F[i + 1] = Step(F[i], i)
      BY <1>6
    <3> HIDE DEF V
    <3> QED BY <1>5, <3>1
  <2>2. \A i \in 0 .. n - 1 : /\ x[i] = F[i].n /\ x[i + 1] = F[i + 1].n
                              /\ c[i] = F[i].carry /\ c[i + 1] = F[i + 1].carry
                              /\ s[i] = a[i] + b[i]
    OBVIOUS
  <2> HIDE DEF x, c, s
  <2> QED BY <2>1, <2>2
<1>9. Combines(s, n, 1, a, 1, b)
  BY ValueBelow DEF Combines
<1>10. r.n = x[n] /\ r.over = (c[n] # 0)
  <2>1. r.n = F[n].n /\ r.over = (F[n].carry > 0) /\ x[n] = F[n].n /\ c[n] = F[n].carry
    BY <1>1, <1>2
  <2>2. F[n].carry \in Nat
    BY <1>3, <1>6 DEF Carrying
  <2>3. (F[n].carry > 0) = (F[n].carry # 0)
    BY <2>2
  <2> QED BY <2>1, <2>3, Zenon
<1> HIDE DEF x, c, s
<1>11. Totalling(n, s, x, c)
  BY <1>7, <1>8, <1>9 DEF Totalling, Combines
<1>12. ValueOf(s) = ValueOf(a) + ValueOf(b)
  <2>1. ValueOf(s) = 1 * ValueOf(a) + 1 * ValueOf(b)
    BY <1>9, ValueCombined
  <2>2. ValueOf(a) \in Int /\ ValueOf(b) \in Int
    BY ValueBelow
  <2> QED BY <2>1, <2>2
<1> QED BY <1>10, <1>11, <1>12, Gathered

\* overflowing_sub: the difference, and whether it is negative.
THEOREM SubCorrect ==
    ASSUME HalfBase \in Nat \ {0}, NEW n \in Nat, NEW a \in Numbers(n), NEW b \in Numbers(n),
           NEW r, r = OverflowingSub(a, b)
    PROVE  Computes(r, n, ValueOf(a) - ValueOf(b))
<1> DEFINE N == Words(a)
           V == Carrying(n)
           Step(q, i) == LET o == a[i] - b[i]
                             t == (o % Base) - q.carry
                         IN  [n |-> [q.n EXCEPT ![i] = t % Base],
                              carry |-> (IF o < 0 THEN 1 ELSE 0) + (IF t < 0 THEN 1 ELSE 0)]
           start == [n |-> Of(N, 0), carry |-> 0]
           F[i \in 0 .. N] == IF i = 0 THEN start ELSE Step(F[i - 1], i - 1)
<1>1. r = [n |-> F[N].n, over |-> F[N].carry > 0]
  BY DEF OverflowingSub, Loop
<1>2. N = n
  BY WordsOf DEF Numbers
<1>3. 0 \in Word /\ Base \in Nat \ {0} /\ Word \subseteq Int
  BY Bases DEF Word
<1>4. start \in V
  BY <1>2, <1>3 DEF Of, Numbers, Carrying
<1>5. ASSUME NEW q \in V, NEW i \in 0 .. n - 1
      PROVE  /\ Step(q, i) \in V
             /\ Step(q, i).n = [q.n EXCEPT ![i] = Step(q, i).n[i]]
             /\ Step(q, i).n[i] + (-Step(q, i).carry) * Base = (a[i] - b[i]) + (-q.carry)
  <2> DEFINE o == a[i] - b[i]
             t == (o % Base) - q.carry
             d == (IF o < 0 THEN 1 ELSE 0) + (IF t < 0 THEN 1 ELSE 0)
  <2>1. q.n \in Numbers(n) /\ q.carry \in 0 .. 1
    BY DEF Carrying
  <2>2. a[i] \in Word /\ b[i] \in Word
    BY DEF Numbers
  <2>3. t % Base \in Word /\ d \in 0 .. 1 /\ (t % Base) - d * Base = a[i] - b[i] - q.carry
    BY <2>1, <2>2, Borrowed
  <2>4. Step(q, i).n = [q.n EXCEPT ![i] = t % Base] /\ Step(q, i).carry = d
    OBVIOUS
  <2>5. Step(q, i) = [n |-> Step(q, i).n, carry |-> Step(q, i).carry]
    OBVIOUS
  <2>6. a[i] \in Int /\ b[i] \in Int /\ t % Base \in Int
    BY <1>3, <2>2, <2>3
  <2> HIDE DEF o, t, d, Step
  <2>7. [q.n EXCEPT ![i] = t % Base] \in Numbers(n) /\ [q.n EXCEPT ![i] = t % Base][i] = t % Base
    BY <2>1, <2>3 DEF Numbers
  <2>8. (t % Base) + (-d) * Base = (a[i] - b[i]) + (-q.carry)
    BY <1>3, <2>1, <2>3, <2>6
  <2> QED BY <2>3, <2>4, <2>5, <2>7, <2>8 DEF Carrying
<1> HIDE DEF Step, start
<1>6. /\ F[0] = start
      /\ \A i \in 0 .. n - 1 : F[i + 1] = Step(F[i], i)
      /\ F \in [0 .. n -> V]
  <2> DEFINE step == [p \in V \X (0 .. n - 1) |-> Step(p[1], p[2])]
  <2>1. step \in [V \X (0 .. n - 1) -> V]
    BY <1>5
  <2>2. PICK f \in [0 .. n -> V] : Runs(f, n, start, step)
    <3> HIDE DEF step, V
    <3> QED BY <1>4, <2>1, Looping, Zenon
  <2> HIDE DEF F
  <2>3. f = [i \in 0 .. n |-> IF i = 0 THEN start ELSE Step(f[i - 1], i - 1)]
    <3>1. ASSUME NEW i \in 0 .. n, i # 0 PROVE step[<<f[i - 1], i - 1>>] = Step(f[i - 1], i - 1)
      <4>1. i - 1 \in 0 .. n /\ i - 1 \in 0 .. n - 1
        BY <3>1
      <4>2. f[i - 1] \in V
        BY <4>1
      <4> QED BY <4>1, <4>2
    <3> HIDE DEF step, V
    <3> QED BY <2>2, <3>1 DEF Runs
  <2>4. F = [i \in 0 .. n |-> IF i = 0 THEN start ELSE Step(F[i - 1], i - 1)]
    BY <1>2, <2>3 DEF F
  <2>5. F[0] = start /\ \A i \in 0 .. n - 1 : F[i + 1] = Step(F[i], i)
    BY <2>4
  <2>6. F = [i \in 0 .. n |-> F[i]]
    BY <2>4
  <2>7. ASSUME NEW i \in 0 .. n - 1, F[i] \in V PROVE F[i + 1] \in V
    BY <1>5, <2>5, <2>7
  <2> HIDE DEF V
  <2> QED BY <1>4, <2>5, <2>6, <2>7, LoopStays
<1> HIDE DEF F
<1> DEFINE x == [i \in 0 .. n |-> F[i].n]
           c == [i \in 0 .. n |-> -F[i].carry]
           s == [i \in 0 .. n - 1 |-> a[i] - b[i]]
<1>7. x \in [0 .. n -> Numbers(n)] /\ c \in [0 .. n -> Int] /\ c[0] = 0
  <2>1. F[0].carry = 0 /\ \A i \in 0 .. n : F[i].n \in Numbers(n) /\ F[i].carry \in Int
    BY <1>3, <1>6 DEF start, Carrying
  <2> QED BY <2>1
<1>8. \A i \in 0 .. n - 1 : /\ x[i + 1] = [x[i] EXCEPT ![i] = x[i + 1][i]]
                            /\ x[i + 1][i] + c[i + 1] * Base = s[i] + c[i]
  <2>1. ASSUME NEW i \in 0 .. n - 1
        PROVE  /\ F[i + 1].n = [F[i].n EXCEPT ![i] = F[i + 1].n[i]]
               /\ F[i + 1].n[i] + (-F[i + 1].carry) * Base = (a[i] - b[i]) + (-F[i].carry)
    <3>1. F[i] \in V /\ F[i + 1] = Step(F[i], i)
      BY <1>6
    <3> HIDE DEF V
    <3> QED BY <1>5, <3>1
  <2>2. \A i \in 0 .. n - 1 : /\ x[i] = F[i].n /\ x[i + 1] = F[i + 1].n
                              /\ c[i] = -F[i].carry /\ c[i + 1] = -F[i + 1].carry
                              /\ s[i] = a[i] - b[i]
    OBVIOUS
  <2> HIDE DEF x, c, s
  <2> QED BY <2>1, <2>2
<1>9. Combines(s, n, 1, a, -1, b)
  BY ValueBelow DEF Combines
<1>10. r.n = x[n] /\ r.over = (c[n] # 0)
  <2>1. r.n = F[n].n /\ r.over = (F[n].carry > 0) /\ x[n] = F[n].n /\ c[n] = -F[n].carry
    BY <1>1, <1>2
  <2>2. F[n].carry \in Nat
    BY <1>3, <1>6 DEF Carrying
  <2>3. (F[n].carry > 0) = (-F[n].carry # 0)
    BY <2>2
  <2> QED BY <2>1, <2>3, Zenon
<1> HIDE DEF x, c, s
<1>11. Totalling(n, s, x, c)
  BY <1>7, <1>8, <1>9 DEF Totalling, Combines
<1>12. ValueOf(s) = ValueOf(a) - ValueOf(b)
  <2>1. ValueOf(s) = 1 * ValueOf(a) + (-1) * ValueOf(b)
    BY <1>9, ValueCombined
  <2>2. ValueOf(a) \in Int /\ ValueOf(b) \in Int
    BY ValueBelow
  <2> QED BY <2>1, <2>2
<1> QED BY <1>10, <1>11, <1>12, Gathered

\* overflowing_mul_u32: the product with a half of a word.
THEOREM MulHalfCorrect ==
    ASSUME HalfBase \in Nat \ {0}, NEW n \in Nat, NEW a \in Numbers(n), NEW half \in 0 .. HalfBase - 1,
           NEW r, r = OverflowingMulU32(a, half)
    PROVE  Computes(r, n, ValueOf(a) * half)
<1> DEFINE N == Words(a)
           V == [n : Numbers(n), carry : 0 .. HalfBase - 1]
           Step(q, i) == LET p == MulU32(a[i], half, q.carry)
                         IN  [n |-> [q.n EXCEPT ![i] = p[1]], carry |-> p[2]]
           start == [n |-> Of(N, 0), carry |-> 0]
           F[i \in 0 .. N] == IF i = 0 THEN start ELSE Step(F[i - 1], i - 1)
<1>1. r = [n |-> F[N].n, over |-> F[N].carry > 0]
  BY DEF OverflowingMulU32, Loop
<1>2. N = n
  BY WordsOf DEF Numbers
<1>3. 0 \in Word /\ Base \in Nat \ {0} /\ Word \subseteq Int
  BY Bases DEF Word
<1>4. start \in V
  BY <1>2, <1>3 DEF Of, Numbers, Carrying
<1>5. ASSUME NEW q \in V, NEW i \in 0 .. n - 1
      PROVE  /\ Step(q, i) \in V
             /\ Step(q, i).n = [q.n EXCEPT ![i] = Step(q, i).n[i]]
             /\ Step(q, i).n[i] + (Step(q, i).carry) * Base = (a[i] * half) + (q.carry)
  <2> DEFINE p == MulU32(a[i], half, q.carry)
  <2>1. q.n \in Numbers(n) /\ q.carry \in 0 .. HalfBase - 1
    OBVIOUS
  <2>2. a[i] \in Word /\ q.carry \in Word
    <3>1. HalfBase - 1 <= Base - 1 /\ Base \in Nat
      BY Bases
    <3>2. \A y \in 0 .. HalfBase - 1 : y \in Word
      BY <3>1 DEF Word
    <3> QED BY <2>1, <3>2 DEF Numbers
  <2>3. p[1] \in Word /\ p[2] \in 0 .. HalfBase - 1 /\ p[1] + p[2] * Base = a[i] * half + q.carry
    BY <2>2, MulU32Correct
  <2>4. Step(q, i).n = [q.n EXCEPT ![i] = p[1]] /\ Step(q, i).carry = p[2]
    OBVIOUS
  <2>5. Step(q, i) = [n |-> Step(q, i).n, carry |-> Step(q, i).carry]
    OBVIOUS
  <2> HIDE DEF p, Step
  <2>6. [q.n EXCEPT ![i] = p[1]] \in Numbers(n) /\ [q.n EXCEPT ![i] = p[1]][i] = p[1]
    BY <2>1, <2>3 DEF Numbers
  <2> QED BY <2>3, <2>4, <2>5, <2>6
<1> HIDE DEF Step, start
<1>6. /\ F[0] = start
      /\ \A i \in 0 .. n - 1 : F[i + 1] = Step(F[i], i)
      /\ F \in [0 .. n -> V]
  <2> DEFINE step == [p \in V \X (0 .. n - 1) |-> Step(p[1], p[2])]
  <2>1. step \in [V \X (0 .. n - 1) -> V]
    BY <1>5
  <2>2. PICK f \in [0 .. n -> V] : Runs(f, n, start, step)
    <3> HIDE DEF step, V
    <3> QED BY <1>4, <2>1, Looping, Zenon
  <2> HIDE DEF F
  <2>3. f = [i \in 0 .. n |-> IF i = 0 THEN start ELSE Step(f[i - 1], i - 1)]
    <3>1. ASSUME NEW i \in 0 .. n, i # 0 PROVE step[<<f[i - 1], i - 1>>] = Step(f[i - 1], i - 1)
      <4>1. i - 1 \in 0 .. n /\ i - 1 \in 0 .. n - 1
        BY <3>1
      <4>2. f[i - 1] \in V
        BY <4>1
      <4> QED BY <4>1, <4>2
    <3> HIDE DEF step, V
    <3> QED BY <2>2, <3>1 DEF Runs
  <2>4. F = [i \in 0 .. n |-> IF i = 0 THEN start ELSE Step(F[i - 1], i - 1)]
    BY <1>2, <2>3 DEF F
  <2>5. F[0] = start /\ \A i \in 0 .. n - 1 : F[i + 1] = Step(F[i], i)
    BY <2>4
  <2>6. F = [i \in 0 .. n |-> F[i]]
    BY <2>4
  <2>7. ASSUME NEW i \in 0 .. n - 1, F[i] \in V PROVE F[i + 1] \in V
    BY <1>5, <2>5, <2>7
  <2> HIDE DEF V
  <2> QED BY <1>4, <2>5, <2>6, <2>7, LoopStays
<1> HIDE DEF F
<1> DEFINE x == [i \in 0 .. n |-> F[i].n]
           c == [i \in 0 .. n |-> F[i].carry]
           s == [i \in 0 .. n - 1 |-> a[i] * half]
<1>7. x \in [0 .. n -> Numbers(n)] /\ c \in [0 .. n -> Int] /\ c[0] = 0
  <2>1. F[0].carry = 0 /\ \A i \in 0 .. n : F[i].n \in Numbers(n) /\ F[i].carry \in Int
    BY <1>3, <1>6 DEF start, Carrying
  <2> QED BY <2>1
<1>8. \A i \in 0 .. n - 1 : /\ x[i + 1] = [x[i] EXCEPT ![i] = x[i + 1][i]]
                            /\ x[i + 1][i] + c[i + 1] * Base = s[i] + c[i]
  <2>1. ASSUME NEW i \in 0 .. n - 1
        PROVE  /\ F[i + 1].n = [F[i].n EXCEPT ![i] = F[i + 1].n[i]]
               /\ F[i + 1].n[i] + (F[i + 1].carry) * Base = (a[i] * half) + (F[i].carry)
    <3>1. F[i] \in V /\ F[i + 1] = Step(F[i], i)
      BY <1>6
    <3> HIDE DEF V
    <3> QED BY <1>5, <3>1
  <2>2. \A i \in 0 .. n - 1 : /\ x[i] = F[i].n /\ x[i + 1] = F[i + 1].n
                              /\ c[i] = F[i].carry /\ c[i + 1] = F[i + 1].carry
                              /\ s[i] = a[i] * half
    OBVIOUS
  <2> HIDE DEF x, c, s
  <2> QED BY <2>1, <2>2
<1>9. Combines(s, n, half, a, 0, a)
  BY ValueBelow DEF Combines
<1>10. r.n = x[n] /\ r.over = (c[n] # 0)
  <2>1. r.n = F[n].n /\ r.over = (F[n].carry > 0) /\ x[n] = F[n].n /\ c[n] = F[n].carry
    BY <1>1, <1>2
  <2>2. F[n].carry \in Nat
    BY <1>3, <1>6 DEF Carrying
  <2>3. (F[n].carry > 0) = (F[n].carry # 0)
    BY <2>2
  <2> QED BY <2>1, <2>3, Zenon
<1> HIDE DEF x, c, s
<1>11. Totalling(n, s, x, c)
  BY <1>7, <1>8, <1>9 DEF Totalling, Combines
<1>12. ValueOf(s) = ValueOf(a) * half
  <2>1. ValueOf(s) = half * ValueOf(a) + 0 * ValueOf(a)
    BY <1>9, ValueCombined
  <2>2. ValueOf(a) \in Int
    BY ValueBelow
  <2> QED BY <2>1, <2>2
<1> QED BY <1>10, <1>11, <1>12, Gathered

-----------------------------------------------------------------------------
(* Comparison                                                                *)

\* Of two numbers, the one that is greater in the last word they differ in is
\* greater.
LEMMA LessIsLess ==
    ASSUME HalfBase \in Nat \ {0}, NEW n \in Nat, NEW a \in Numbers(n), NEW b \in Numbers(n), Less(a, b)
    PROVE  ValueOf(a) < ValueOf(b)
<1> DEFINE W == Weights(n)
           ua == Upto(a)
           ub == Upto(b)
<1>1. a \in [0 .. n - 1 -> Int] /\ b \in [0 .. n - 1 -> Int] /\ DOMAIN a = 0 .. n - 1
  BY ValueBelow
<1>2. PICK i \in 0 .. n - 1 : a[i] < b[i] /\ \A j \in 0 .. n - 1 : j > i => a[j] = b[j]
  BY <1>1 DEF Less
<1>3. /\ ua \in [0 .. n -> Int] /\ ua[0] = 0 /\ \A j \in 0 .. n - 1 : ua[j + 1] = ua[j] + a[j] * W[j]
      /\ ub \in [0 .. n -> Int] /\ ub[0] = 0 /\ \A j \in 0 .. n - 1 : ub[j + 1] = ub[j] + b[j] * W[j]
      /\ ValueOf(a) = ua[n] /\ ValueOf(b) = ub[n]
  BY <1>1, UptoDef
<1>4. W \in [0 .. n -> Nat \ {0}]
  BY WeightsDef
<1>5. ua[i] \in 0 .. W[i] - 1 /\ ub[i] \in Nat
  <2>1. i \in 0 .. n
    OBVIOUS
  <2>2. ub[i] \in 0 .. W[i] - 1 /\ ua[i] \in 0 .. W[i] - 1
    BY <2>1, UptoBelow
  <2> QED BY <2>2
<1> HIDE DEF W, ua, ub
<1>6. ua[i + 1] < ub[i + 1]
  <2>1. i \in 0 .. n /\ W[i] \in Nat /\ a[i] \in Int /\ b[i] \in Int
    BY <1>1, <1>4
  <2>2. (a[i] + 1) * W[i] <= b[i] * W[i]
    BY <1>2, <2>1, Scaling
  <2>3. (a[i] + 1) * W[i] = a[i] * W[i] + W[i] /\ a[i] * W[i] \in Int /\ b[i] * W[i] \in Int
    <3>1. \A x, y, z \in Int : (x + 1) * y = x * y + y /\ x * y \in Int /\ z * y \in Int
      OBVIOUS
    <3>2. W[i] \in Int
      BY <2>1
    <3> QED BY <2>1, <3>1, <3>2, Zenon
  <2>4. ua[i + 1] = ua[i] + a[i] * W[i] /\ ub[i + 1] = ub[i] + b[i] * W[i]
    BY <1>3
  <2> QED BY <1>5, <2>1, <2>2, <2>3, <2>4
<1> DEFINE S == {j \in 0 .. n : j <= i \/ ua[j] < ub[j]}
<1>7. 0 \in S
  OBVIOUS
<1>8. ASSUME NEW j \in 0 .. n - 1, j \in S PROVE j + 1 \in S
  <2>1. j + 1 \in 0 .. n /\ j \in 0 .. n
    OBVIOUS
  <2>2. CASE j < i
    BY <2>1, <2>2
  <2>3. CASE j = i
    BY <1>6, <2>1, <2>3
  <2>4. CASE j > i
    <3>1. ua[j] < ub[j] /\ a[j] = b[j]
      BY <1>2, <1>8, <2>4
    <3>2. PICK p \in Int : p = a[j] * W[j]
      <4>1. a[j] \in Int /\ W[j] \in Int
        BY <1>1, <1>4, <2>1
      <4> QED BY <4>1
    <3>3. ua[j + 1] = ua[j] + p /\ ub[j + 1] = ub[j] + p
      BY <1>3, <3>1, <3>2
    <3>4. ua[j] \in Int /\ ub[j] \in Int
      BY <1>3, <2>1
    <3> QED BY <2>1, <3>1, <3>3, <3>4
  <2> QED BY <2>2, <2>3, <2>4
<1> HIDE DEF S
<1>9. n \in S
  <2>1. \A j \in 0 .. n : j \in S
    BY <1>7, <1>8, Upwards
  <2> QED BY <2>1
<1>10. ua[n] < ub[n]
  BY <1>9 DEF S
<1> QED BY <1>3, <1>10

\* Two numbers that differ do so in a last word.
LEMMA LastDifference ==
    ASSUME NEW n \in Nat, NEW a \in Numbers(n), NEW b \in Numbers(n), a # b
    PROVE  \E i \in 0 .. n - 1 : a[i] # b[i] /\ \A j \in 0 .. n - 1 : j > i => a[j] = b[j]
<1> DEFINE Equal(k) == \A i \in 0 .. k - 1 : a[i] = b[i]
           Finals(k) == \E i \in 0 .. k - 1 : a[i] # b[i] /\ \A j \in 0 .. k - 1 : j > i => a[j] = b[j]
           S == {k \in 0 .. n : Equal(k) \/ Finals(k)}
<1>1. 0 \in S
  OBVIOUS
<1>2. ASSUME NEW k \in 0 .. n - 1, k \in S PROVE k + 1 \in S
  <2>1. k + 1 \in 0 .. n
    OBVIOUS
  <2>2. CASE a[k] # b[k]
    <3>1. Finals(k + 1)
      <4>1. k \in 0 .. (k + 1) - 1 /\ \A j \in 0 .. (k + 1) - 1 : ~(j > k)
        OBVIOUS
      <4> QED BY <2>2, <4>1
    <3> QED BY <2>1, <3>1
  <2>3. CASE a[k] = b[k] /\ Equal(k)
    <3>1. Equal(k + 1)
      BY <2>3
    <3> QED BY <2>1, <3>1
  <2>4. CASE a[k] = b[k] /\ Finals(k)
    <3>1. PICK i \in 0 .. k - 1 : a[i] # b[i] /\ \A j \in 0 .. k - 1 : j > i => a[j] = b[j]
      BY <2>4
    <3>2. i \in 0 .. (k + 1) - 1
      OBVIOUS
    <3>3. \A j \in 0 .. (k + 1) - 1 : j > i => a[j] = b[j]
      BY <2>4, <3>1
    <3>4. Finals(k + 1)
      BY <3>1, <3>2, <3>3
    <3> QED BY <2>1, <3>4
  <2> QED BY <1>2, <2>2, <2>3, <2>4
<1> HIDE DEF S
<1>3. n \in S
  <2>1. \A k \in 0 .. n : k \in S
    BY <1>1, <1>2, Upwards
  <2> QED BY <2>1
<1>4. ~Equal(n)
  BY DEF Numbers
<1> QED BY <1>3, <1>4 DEF S

\* The order of numbers, word by word from the last, is that of what they stand
\* for; and numbers are equal if they stand for the same.
THEOREM OrderCorrect ==
    ASSUME HalfBase \in Nat \ {0}, NEW n \in Nat, NEW a \in Numbers(n), NEW b \in Numbers(n)
    PROVE  /\ Less(a, b) <=> ValueOf(a) < ValueOf(b)
           /\ a = b <=> ValueOf(a) = ValueOf(b)
<1>1. ValueOf(a) \in Int /\ ValueOf(b) \in Int /\ DOMAIN a = 0 .. n - 1 /\ DOMAIN b = 0 .. n - 1
      /\ a \in [0 .. n - 1 -> Int] /\ b \in [0 .. n - 1 -> Int]
  BY ValueBelow
<1>2. Less(a, b) => ValueOf(a) < ValueOf(b)
  BY LessIsLess
<1>3. Less(b, a) => ValueOf(b) < ValueOf(a)
  BY LessIsLess
<1>4. a # b => Less(a, b) \/ Less(b, a)
  <2> SUFFICES ASSUME a # b PROVE Less(a, b) \/ Less(b, a)
    OBVIOUS
  <2>1. PICK i \in 0 .. n - 1 : a[i] # b[i] /\ \A j \in 0 .. n - 1 : j > i => a[j] = b[j]
    BY LastDifference
  <2>2. a[i] < b[i] \/ b[i] < a[i]
    BY <1>1, <2>1
  <2> QED BY <1>1, <2>1, <2>2 DEF Less
<1> QED BY <1>1, <1>2, <1>3, <1>4

-----------------------------------------------------------------------------
(* Products                                                                  *)

\* The weights of more words begin with those of fewer.
LEMMA WeightsSame ==
    ASSUME HalfBase \in Nat \ {0}, NEW n \in Nat, NEW m \in Nat, n <= m
    PROVE  \A i \in 0 .. n : Weights(m)[i] = Weights(n)[i]
<1> DEFINE S == {i \in 0 .. n : Weights(m)[i] = Weights(n)[i]}
<1>1. 0 \in S
  <2>1. Weights(n)[0] = 1 /\ Weights(m)[0] = 1 /\ 0 \in 0 .. n
    BY WeightsDef
  <2> QED BY <2>1
<1>2. ASSUME NEW i \in 0 .. n - 1, i \in S PROVE i + 1 \in S
  <2>1. Weights(m)[i + 1] = Base * Weights(m)[i]
    <3>1. i \in 0 .. m - 1
      OBVIOUS
    <3> QED BY <3>1, WeightsDef
  <2>2. Weights(n)[i + 1] = Base * Weights(n)[i]
    BY WeightsDef
  <2>3. Weights(m)[i] = Weights(n)[i] /\ i + 1 \in 0 .. n
    BY <1>2
  <2> QED BY <2>1, <2>2, <2>3
<1> HIDE DEF S
<1>3. \A i \in 0 .. n : i \in S
  BY <1>1, <1>2, Upwards
<1> QED BY <1>3 DEF S

\* The weights of two places multiply.
LEMMA WeightsProduct ==
    ASSUME HalfBase \in Nat \ {0}, NEW n \in Nat, NEW i \in 0 .. n
    PROVE  \A j \in 0 .. n - i : Weights(n)[i + j] = Weights(n)[i] * Weights(n)[j]
<1> DEFINE W == Weights(n)
           S == {j \in 0 .. n - i : W[i + j] = W[i] * W[j]}
<1>1. W \in [0 .. n -> Int] /\ W[0] = 1 /\ \A j \in 0 .. n - 1 : W[j + 1] = Base * W[j]
  BY WeightsDef
<1>2. Base \in Int /\ W[i] \in Int /\ n - i \in Nat
  BY <1>1, Bases
<1> HIDE DEF W
<1>3. 0 \in S
  BY <1>1, <1>2
<1>4. ASSUME NEW j \in 0 .. (n - i) - 1, j \in S PROVE j + 1 \in S
  <2>1. i + j \in 0 .. n - 1 /\ j \in 0 .. n - 1 /\ j \in 0 .. n /\ (i + j) + 1 = i + (j + 1)
        /\ j + 1 \in 0 .. n - i
    BY <1>2
  <2>2. W[i + (j + 1)] = Base * W[i + j]
    <3>1. W[(i + j) + 1] = Base * W[i + j]
      BY <1>1, <2>1
    <3> QED BY <2>1, <3>1
  <2>3. W[j + 1] = Base * W[j]
    BY <1>1, <2>1
  <2>4. W[i + j] = W[i] * W[j]
    BY <1>4
  <2>5. Base * (W[i] * W[j]) = W[i] * (Base * W[j])
    <3>1. \A x, y, z \in Int : x * (y * z) = y * (x * z)
      OBVIOUS
    <3>2. W[j] \in Int
      BY <1>1, <2>1
    <3> QED BY <1>2, <3>1, <3>2, Zenon
  <2>6. W[i + (j + 1)] = W[i] * W[j + 1]
    BY <2>2, <2>3, <2>4, <2>5, Zenon
  <2> QED BY <2>1, <2>6
<1> HIDE DEF S
<1>5. \A j \in 0 .. n - i : j \in S
  BY <1>2, <1>3, <1>4, Upwards
<1> QED BY <1>5 DEF S, W

\* The carry of two additions, of which the first cannot fill the word and have
\* the second overflow as well.
TwoSums(B, p, c, x, t, u, d) ==
  /\ B \in Nat \ {0} /\ p \in 0 .. B - 1 /\ c \in 0 .. 1 /\ x \in 0 .. B - 1
  /\ t = (p % B) + c /\ u = (t % B) + x
  /\ d = IF p \div B + t \div B + u \div B > 0 THEN 1 ELSE 0

\* Nothing is lost in the carry: it is at most one.
LEMMA TwoCarries ==
    ASSUME NEW B, NEW p, NEW c, NEW x, NEW t, NEW u, NEW d, TwoSums(B, p, c, x, t, u, d)
    PROVE  u % B \in 0 .. B - 1 /\ d \in 0 .. 1 /\ (u % B) + d * B = x + c + p
<1> USE DEF TwoSums
<1>1. p \div B = 0 /\ p % B = p /\ 0 * B = 0 /\ 1 * B = B
  OBVIOUS
<1>2. t = p + c
  BY <1>1
<1>3. CASE t = B
  <2>1. t \div B = 1 /\ t % B = 0
    BY <1>3
  <2>2. u = x /\ u \div B = 0 /\ u % B = x
    BY <2>1
  <2>3. d = 1
    BY <1>1, <2>1, <2>2
  <2> QED BY <1>1, <1>2, <1>3, <2>2, <2>3
<1>4. CASE t < B
  <2>1. t \div B = 0 /\ t % B = t /\ u = t + x
    <3>1. t \in 0 .. B - 1 /\ B \in Nat \ {0}
      BY <1>2, <1>4
    <3>2. t \div B = 0 /\ t % B = t
      <4> HIDE DEF TwoSums
      <4> QED BY <3>1
    <3> QED BY <3>2
  <2>2. CASE u < B
    <3>1. u \div B = 0 /\ u % B = u
      BY <1>2, <2>1, <2>2
    <3>2. d = 0
      BY <1>1, <2>1, <3>1
    <3> QED BY <1>1, <1>2, <2>1, <2>2, <3>1, <3>2
  <2>3. CASE u >= B
    <3>1. u - B \in 0 .. B - 1 /\ u = 1 * B + (u - B)
      BY <1>1, <1>2, <1>4, <2>1, <2>3
    <3>2. u \div B = 1 /\ u % B = u - B
      <4>1. PICK e \in 0 .. B - 1 : e = u - B
        BY <3>1
      <4>2. (1 * B + e) \div B = 1 /\ (1 * B + e) % B = e
        <5>1. B \in Nat \ {0} /\ 1 \in Int
          OBVIOUS
        <5> HIDE DEF TwoSums
        <5> QED BY <5>1, Divided, Zenon
      <4> QED BY <3>1, <4>1, <4>2
    <3>3. d = 1
      BY <1>1, <2>1, <3>2
    <3> QED BY <1>1, <1>2, <2>1, <3>1, <3>2, <3>3
  <2> QED BY <1>2, <2>1, <2>2, <2>3
<1> QED BY <1>2, <1>3, <1>4

\* What becomes of two words, and of the carry, when a product is put there.
Put(m) == [ret : Numbers(m), carry : 0 .. 1]

CanPut(m, s, k, p) ==
  m \in Nat /\ s \in Put(m) /\ k \in 0 .. m - 2 /\ p[1] \in Word /\ p[2] \in Word

\* A product is put into two words: what they lose is in the carry.
LEMMA PutCorrect ==
    ASSUME HalfBase \in Nat \ {0}, NEW m, NEW s, NEW k, NEW p, CanPut(m, s, k, p),
           NEW s1, s1 = PutProduct(s, k, p)
    PROVE  /\ s1 \in Put(m)
           /\ s1.ret[k] = p[1]
           /\ s1.ret[k + 1] + s1.carry * Base = s.ret[k + 1] + s.carry + p[2]
           /\ \A i \in 0 .. m - 1 : i \notin {k, k + 1} => s1.ret[i] = s.ret[i]
<1>0. m \in Nat /\ s \in Put(m) /\ k \in 0 .. m - 2 /\ p[1] \in Word /\ p[2] \in Word
  BY DEF CanPut
<1> USE <1>0
<1> DEFINE t == (p[2] % Base) + s.carry
           u == (t % Base) + s.ret[k + 1]
           d == IF p[2] \div Base + t \div Base + u \div Base > 0 THEN 1 ELSE 0
<1>1. s1 = [ret |-> [s.ret EXCEPT ![k] = p[1], ![k + 1] = u % Base], carry |-> d]
  BY DEF PutProduct
<1>2. k \in 0 .. m - 1 /\ k + 1 \in 0 .. m - 1 /\ k # k + 1
  OBVIOUS
<1>3. s.ret \in Numbers(m) /\ s.carry \in 0 .. 1 /\ s.ret[k + 1] \in Word
  BY <1>2 DEF Put, Numbers
<1>4. u % Base \in Word /\ d \in 0 .. 1
      /\ (u % Base) + d * Base = s.ret[k + 1] + s.carry + p[2]
  <2>1. Base \in Nat \ {0} /\ p[2] \in 0 .. Base - 1 /\ s.ret[k + 1] \in 0 .. Base - 1
    BY <1>3, Bases DEF Word
  <2>2. TwoSums(Base, p[2], s.carry, s.ret[k + 1], t, u, d)
    BY <1>3, <2>1 DEF TwoSums
  <2> HIDE DEF t, u, d
  <2> QED BY <2>2, TwoCarries DEF Word
<1> HIDE DEF t, u, d
<1>5. DOMAIN s.ret = 0 .. m - 1
  BY <1>3 DEF Numbers
<1>6. s1.ret = [s.ret EXCEPT ![k] = p[1], ![k + 1] = u % Base] /\ s1.carry = d
  BY <1>1
<1>7. s1.ret \in Numbers(m) /\ s1.ret[k] = p[1] /\ s1.ret[k + 1] = u % Base
      /\ \A i \in 0 .. m - 1 : i \notin {k, k + 1} => s1.ret[i] = s.ret[i]
  BY <1>2, <1>3, <1>4, <1>5, <1>6 DEF Numbers
<1>8. s1 \in Put(m)
  BY <1>1, <1>4, <1>6, <1>7 DEF Put
<1> QED BY <1>4, <1>6, <1>7, <1>8

\* What the two words and the carry amount to, from the weight w of the first on.
TwoPlaces(B, w, p1, p2, x1, c1, x, c, v, y) ==
  /\ B \in Int /\ w \in Int /\ p1 \in Int /\ p2 \in Int /\ x1 \in Int /\ c1 \in Int
  /\ x \in Int /\ c \in Int /\ v \in Int /\ y \in Int
  /\ x1 + c1 * B = x + c + p2 /\ p1 + p2 * B = v + y

\* The two words and the carry have grown by v.
LEMMA TwoPlacesAdd ==
    ASSUME NEW B, NEW w, NEW p1, NEW p2, NEW x1, NEW c1, NEW x, NEW c, NEW v, NEW y,
           TwoPlaces(B, w, p1, p2, x1, c1, x, c, v, y)
    PROVE  (p1 * w + x1 * (B * w)) + c1 * (B * (B * w))
             = (y * w + x * (B * w)) + c * (B * w) + v * w
<1> DEFINE b == B * w
<1>1. /\ B \in Int /\ w \in Int /\ p1 \in Int /\ p2 \in Int /\ x1 \in Int /\ c1 \in Int
      /\ x \in Int /\ c \in Int /\ v \in Int /\ y \in Int /\ b \in Int
  BY DEF TwoPlaces
<1>2. x1 + c1 * B = x + c + p2 /\ p1 + p2 * B = v + y
  BY DEF TwoPlaces
<1>3. p2 * b = (p2 * B) * w /\ c1 * (B * b) = (c1 * B) * b
  BY <1>1
<1> HIDE DEF b
<1>4. (x1 + c1 * B) * b = x1 * b + (c1 * B) * b
  BY <1>1
<1>5. (x + c + p2) * b = x * b + c * b + p2 * b
  BY <1>1
<1>6. (p1 + p2 * B) * w = p1 * w + (p2 * B) * w
  BY <1>1
<1>7. (v + y) * w = v * w + y * w
  BY <1>1
<1>8. PICK z1 \in Int, z2 \in Int, z3 \in Int, z4 \in Int :
        z1 = p1 * w /\ z2 = x1 * b /\ z3 = c1 * (B * b) /\ z4 = y * w
  <2>1. p1 * w \in Int /\ x1 * b \in Int /\ c1 * (B * b) \in Int /\ y * w \in Int
    BY <1>1
  <2> QED BY <2>1, Zenon
<1>9. PICK z5 \in Int, z6 \in Int, z7 \in Int, z8 \in Int :
        z5 = x * b /\ z6 = c * b /\ z7 = v * w /\ z8 = p2 * b
  <2>1. x * b \in Int /\ c * b \in Int /\ v * w \in Int /\ p2 * b \in Int
    BY <1>1
  <2> QED BY <2>1, Zenon
<1>10. z2 + z3 = z5 + z6 + z8
  BY <1>2, <1>3, <1>4, <1>5, <1>8, <1>9, Zenon
<1>11. z1 + z8 = z7 + z4
  BY <1>2, <1>3, <1>6, <1>7, <1>8, <1>9, Zenon
<1>12. (z1 + z2) + z3 = (z4 + z5) + z6 + z7
  BY <1>10, <1>11
<1> QED BY <1>8, <1>9, <1>12, Zenon DEF b

\* A product that is put from word k on is added in its weight.
LEMMA PutTotal ==
    ASSUME HalfBase \in Nat \ {0}, NEW m \in Nat, NEW s \in Put(m), NEW k \in 0 .. m - 2, NEW p,
           p[1] \in Word, p[2] \in Word, NEW v \in Int, p[1] + p[2] * Base = v + s.ret[k],
           NEW s1, s1 = PutProduct(s, k, p)
    PROVE  Upto(s1.ret)[k + 2] + s1.carry * Weights(m)[k + 2]
             = Upto(s.ret)[k + 2] + s.carry * Weights(m)[k + 1] + v * Weights(m)[k]
<1> DEFINE W == Weights(m)
           r == s.ret
           r1 == s1.ret
           U == Upto(r)
           U1 == Upto(r1)
<1>1. k \in 0 .. m - 1 /\ k + 1 \in 0 .. m - 1 /\ k \in 0 .. m /\ k + 1 \in 0 .. m
      /\ (k + 1) + 1 = k + 2
  OBVIOUS
<1>2. /\ s1 \in Put(m) /\ r1[k] = p[1]
      /\ r1[k + 1] + s1.carry * Base = r[k + 1] + s.carry + p[2]
      /\ \A i \in 0 .. m - 1 : i \notin {k, k + 1} => r1[i] = r[i]
  <2>1. CanPut(m, s, k, p)
    BY DEF CanPut
  <2> QED BY <2>1, PutCorrect
<1>3. r \in Numbers(m) /\ r1 \in Numbers(m) /\ s.carry \in Int /\ s1.carry \in Int
  BY <1>2 DEF Put
<1>4. r \in [0 .. m - 1 -> Int] /\ r1 \in [0 .. m - 1 -> Int]
  BY <1>3, ValueBelow
<1>5. W \in [0 .. m -> Int] /\ W[k + 1] = Base * W[k] /\ W[(k + 1) + 1] = Base * W[k + 1]
  <2>1. W \in [0 .. m -> Nat \ {0}] /\ \A i \in 0 .. m - 1 : W[i + 1] = Base * W[i]
    BY WeightsDef, Zenon
  <2> HIDE DEF W
  <2>2. W \in [0 .. m -> Int]
    BY <2>1
  <2> QED BY <1>1, <2>1, <2>2, Zenon
<1>6. Base \in Int /\ p[1] \in Int /\ p[2] \in Int
  BY Bases DEF Word
<1>7. U1[k] = U[k]
  <2>1. \A i \in 0 .. k - 1 : r1[i] = r[i]
    BY <1>2
  <2> HIDE DEF r, r1
  <2> QED BY <1>1, <1>4, <2>1, UptoSame
<1>8. /\ U1[k + 1] = U1[k] + r1[k] * W[k] /\ U1[(k + 1) + 1] = U1[k + 1] + r1[k + 1] * W[k + 1]
      /\ U[k + 1] = U[k] + r[k] * W[k] /\ U[(k + 1) + 1] = U[k + 1] + r[k + 1] * W[k + 1]
      /\ U[k] \in Int
  <2> HIDE DEF r, r1
  <2>1. /\ \A i \in 0 .. m - 1 : U1[i + 1] = U1[i] + r1[i] * W[i]
        /\ \A i \in 0 .. m - 1 : U[i + 1] = U[i] + r[i] * W[i]
        /\ U \in [0 .. m -> Int]
    BY <1>4, UptoDef, Zenon
  <2> QED BY <1>1, <2>1, Zenon
<1> HIDE DEF W, U, U1, r, r1
<1>9. (p[1] * W[k] + r1[k + 1] * (Base * W[k])) + s1.carry * (Base * (Base * W[k]))
        = (r[k] * W[k] + r[k + 1] * (Base * W[k])) + s.carry * (Base * W[k]) + v * W[k]
  <2>1. r1[k + 1] \in Int /\ r[k + 1] \in Int /\ r[k] \in Int /\ W[k] \in Int
    BY <1>1, <1>4, <1>5
  <2>2. p[1] + p[2] * Base = v + r[k]
    BY DEF r
  <2>3. TwoPlaces(Base, W[k], p[1], p[2], r1[k + 1], s1.carry, r[k + 1], s.carry, v, r[k])
    BY <1>2, <1>3, <1>6, <2>1, <2>2 DEF TwoPlaces
  <2> QED BY <2>3, TwoPlacesAdd
<1>10. PICK z1 \in Int, z2 \in Int, z3 \in Int, z4 \in Int, z5 \in Int, z6 \in Int, z7 \in Int :
         /\ z1 = p[1] * W[k] /\ z2 = r1[k + 1] * (Base * W[k])
         /\ z3 = s1.carry * (Base * (Base * W[k])) /\ z4 = r[k] * W[k]
         /\ z5 = r[k + 1] * (Base * W[k]) /\ z6 = s.carry * (Base * W[k]) /\ z7 = v * W[k]
  <2>1. r1[k + 1] \in Int /\ r[k + 1] \in Int /\ r[k] \in Int /\ W[k] \in Int
    BY <1>1, <1>4, <1>5
  <2>2. Base * W[k] \in Int /\ Base * (Base * W[k]) \in Int
    BY <1>6, <2>1
  <2>3. /\ p[1] * W[k] \in Int /\ r1[k + 1] * (Base * W[k]) \in Int
        /\ s1.carry * (Base * (Base * W[k])) \in Int /\ r[k] * W[k] \in Int
        /\ r[k + 1] * (Base * W[k]) \in Int /\ s.carry * (Base * W[k]) \in Int /\ v * W[k] \in Int
    BY <1>3, <1>6, <2>1, <2>2
  <2> QED BY <2>3, Zenon
<1>11. (z1 + z2) + z3 = (z4 + z5) + z6 + z7
  BY <1>9, <1>10, Zenon
<1>12. PICK z \in Int : z = U[k]
  BY <1>8
<1>13. U1[(k + 1) + 1] = (z + z1) + z2 /\ U[(k + 1) + 1] = (z + z4) + z5
  BY <1>2, <1>5, <1>7, <1>8, <1>10, <1>12, Zenon
<1>14. s1.carry * W[(k + 1) + 1] = z3 /\ s.carry * W[k + 1] = z6
  BY <1>5, <1>10, Zenon
<1>15. ((z + z1) + z2) + z3 = ((z + z4) + z5) + z6 + z7
  BY <1>11
<1>16. U1[(k + 1) + 1] + s1.carry * W[(k + 1) + 1] = U[(k + 1) + 1] + s.carry * W[k + 1] + v * W[k]
  BY <1>10, <1>13, <1>14, <1>15, Zenon
<1> QED BY <1>1, <1>16 DEF U, U1, W, r, r1

\* What ret holds when the products with the first i words of b have been added:
\* zeros where nothing has been put, and the product so far.
Accumulated(n, a, b, ret, i) ==
  /\ ret \in Numbers(2 * n)
  /\ \A h \in 0 .. 2 * n - 1 : h >= i + n => ret[h] = 0
  /\ Upto(ret)[i + n] = ValueOf(a) * Upto(b)[i]

\* One product is added: what a row does with a word of a.
Added(s, k, x, y) ==
  IF x = 0 /\ s.carry = 0 THEN s ELSE PutProduct(s, k, MulWords(x, y, s.ret[k]))

CanAdd(m, s, k, x, y) ==
  m \in Nat /\ s \in Put(m) /\ k \in 0 .. m - 2 /\ x \in Word /\ y \in Word

\* The round of a row: the product of its two words is added.
LEMMA ProductAdded ==
    ASSUME HalfBase \in Nat \ {0}, NEW m, NEW s, NEW k, NEW x, NEW y, CanAdd(m, s, k, x, y),
           NEW s1, s1 = Added(s, k, x, y)
    PROVE  /\ s1 \in Put(m)
           /\ \A h \in 0 .. m - 1 : h > k + 1 => s1.ret[h] = s.ret[h]
           /\ Upto(s1.ret)[k + 2] + s1.carry * Weights(m)[k + 2]
                = Upto(s.ret)[k + 2] + s.carry * Weights(m)[k + 1] + (x * y) * Weights(m)[k]
<1>0. m \in Nat /\ s \in Put(m) /\ k \in 0 .. m - 2 /\ x \in Word /\ y \in Word
  BY DEF CanAdd
<1> USE <1>0
<1>1. x \in Int /\ y \in Int
  BY Bases DEF Word
<1>2. s.ret \in Numbers(m) /\ s.carry \in 0 .. 1
  BY DEF Put
<1>3. k \in 0 .. m /\ k + 1 \in 0 .. m /\ k + 2 \in 0 .. m /\ k \in 0 .. m - 1
  OBVIOUS
<1>4. Weights(m)[k] \in Int /\ Weights(m)[k + 1] \in Int /\ Weights(m)[k + 2] \in Int
  <2>1. Weights(m) \in [0 .. m -> Nat \ {0}]
    BY WeightsDef
  <2>2. \A j \in 0 .. m : Weights(m)[j] \in Int
    BY <2>1
  <2> QED BY <1>3, <2>2
<1>5. CASE x = 0 /\ s.carry = 0
  <2>1. s1 = s
    BY <1>5 DEF Added
  <2>2. Upto(s.ret)[k + 2] \in Int
    <3>1. s.ret \in [0 .. m - 1 -> Int]
      BY <1>2, ValueBelow
    <3>2. Upto(s.ret) \in [0 .. m -> Int]
      BY <3>1, UptoDef
    <3> QED BY <1>3, <3>2
  <2>3. (x * y) * Weights(m)[k] = 0
    BY <1>1, <1>4, <1>5
  <2>4. s.carry * Weights(m)[k + 2] = 0 /\ s.carry * Weights(m)[k + 1] = 0
    BY <1>4, <1>5
  <2> QED BY <2>1, <2>2, <2>3, <2>4
<1>6. CASE ~(x = 0 /\ s.carry = 0)
  <2> DEFINE p == MulWords(x, y, s.ret[k])
             v == x * y
  <2>1. s.ret[k] \in Word
    BY <1>2, <1>3 DEF Numbers
  <2>2. p[1] \in Word /\ p[2] \in Word /\ p[1] + p[2] * Base = v + s.ret[k]
    BY <2>1, MulWordsCorrect
  <2>3. v \in Int
    BY <1>1
  <2>4. s1 = PutProduct(s, k, p)
    BY <1>6 DEF Added
  <2> HIDE DEF p, v
  <2>5. s1 \in Put(m) /\ \A h \in 0 .. m - 1 : h \notin {k, k + 1} => s1.ret[h] = s.ret[h]
    <3>1. CanPut(m, s, k, p)
      BY <2>2 DEF CanPut
    <3> QED BY <2>4, <3>1, PutCorrect
  <2>6. Upto(s1.ret)[k + 2] + s1.carry * Weights(m)[k + 2]
          = Upto(s.ret)[k + 2] + s.carry * Weights(m)[k + 1] + v * Weights(m)[k]
    BY <2>2, <2>3, <2>4, PutTotal
  <2>7. \A h \in 0 .. m - 1 : h > k + 1 => s1.ret[h] = s.ret[h]
    BY <2>5
  <2> QED BY <2>5, <2>6, <2>7 DEF v
<1> QED BY <1>5, <1>6

FiveIntegers(v, w, x, y, z) ==
  v \in Int /\ w \in Int /\ x \in Int /\ y \in Int /\ z \in Int

\* A row's round, in products.
LEMMA RoundOfRow ==
    ASSUME NEW aj, NEW bi, NEW wi, NEW wj, NEW ua, FiveIntegers(aj, bi, wi, wj, ua)
    PROVE  (bi * wi) * ua + (aj * bi) * (wi * wj) = (bi * wi) * (ua + aj * wj)
<1> USE DEF FiveIntegers
<1>1. (bi * wi) * (ua + aj * wj) = (bi * wi) * ua + (bi * wi) * (aj * wj)
  OBVIOUS
<1>2. (bi * wi) * (aj * wj) = (aj * bi) * (wi * wj)
  OBVIOUS
<1> QED BY <1>1, <1>2

\* A row adds the products of the words of a with one word of b.
LEMMA RowCorrect ==
    ASSUME HalfBase \in Nat \ {0}, NEW n \in Nat, NEW a \in Numbers(n), NEW b \in Numbers(n),
           NEW i \in 0 .. n - 1, NEW ret, Accumulated(n, a, b, ret, i)
    PROVE  Accumulated(n, a, b, Row(a, b, ret, i), i + 1)
<1> DEFINE m == 2 * n
           W == Weights(m)
           A == ValueOf(a)
           Ua == Upto(a)
           Ub == Upto(b)
           U == Upto(ret)
           bi == b[i]
           wi == W[i]
<1>1. m \in Nat /\ i \in 0 .. n /\ i + 1 \in 0 .. n /\ i + n \in 0 .. m - 1 /\ i + n \in 0 .. m
      /\ i \in 0 .. m /\ n \in 0 .. n /\ n \in 0 .. m - i
  OBVIOUS
<1>2. ret \in Numbers(m) /\ U[i + n] = A * Ub[i] /\ \A h \in 0 .. m - 1 : h >= i + n => ret[h] = 0
  BY DEF Accumulated
<1>3. /\ a \in [0 .. n - 1 -> Int] /\ b \in [0 .. n - 1 -> Int] /\ ret \in [0 .. m - 1 -> Int]
  BY <1>1, <1>2, ValueBelow
<1>4. W \in [0 .. m -> Nat \ {0}] /\ \A j \in 0 .. n : Weights(n)[j] = W[j]
  <2>1. W \in [0 .. m -> Nat \ {0}]
    BY <1>1, WeightsDef
  <2>2. n <= m
    OBVIOUS
  <2>3. \A j \in 0 .. n : Weights(m)[j] = Weights(n)[j]
    <3> HIDE DEF m
    <3> QED BY <1>1, <2>2, WeightsSame
  <2> QED BY <2>1, <2>3
<1>5. /\ Ua \in [0 .. n -> Int] /\ Ua[0] = 0 /\ A = Ua[n]
      /\ \A j \in 0 .. n - 1 : Ua[j + 1] = Ua[j] + a[j] * W[j]
  <2>1. /\ Ua \in [0 .. n -> Int] /\ Ua[0] = 0 /\ A = Ua[n]
        /\ \A j \in 0 .. n - 1 : Ua[j + 1] = Ua[j] + a[j] * Weights(n)[j]
    BY <1>3, UptoDef, Zenon
  <2>2. \A j \in 0 .. n - 1 : j \in 0 .. n
    OBVIOUS
  <2> HIDE DEF W, Ua, A
  <2> QED BY <1>4, <2>1, <2>2
<1>6. /\ Ub \in [0 .. n -> Int] /\ Ub[i + 1] = Ub[i] + bi * wi
  <2>1. Ub \in [0 .. n -> Int] /\ \A j \in 0 .. n - 1 : Ub[j + 1] = Ub[j] + b[j] * Weights(n)[j]
    BY <1>3, UptoDef, Zenon
  <2>2. Weights(n)[i] = W[i]
    BY <1>1, <1>4
  <2> QED BY <2>1, <2>2
<1>7. /\ U \in [0 .. m -> Int] /\ \A j \in 0 .. m - 1 : U[j + 1] = U[j] + ret[j] * W[j]
  <2> HIDE DEF m
  <2> QED BY <1>1, <1>3, UptoDef, Zenon
<1>8. bi \in Word /\ bi \in Int /\ wi \in Int /\ A \in Int /\ \A j \in 0 .. n - 1 : a[j] \in Word
  <2>1. bi \in Word /\ \A j \in 0 .. n - 1 : a[j] \in Word
    BY DEF Numbers
  <2>2. wi \in Int /\ bi \in Int
    BY <1>1, <1>3, <1>4
  <2>3. A \in Int
    BY <1>1, <1>5
  <2> QED BY <2>1, <2>2, <2>3
<1> HIDE DEF m, W, A, Ua, Ub, U, bi, wi
<1>9. U[i + n + 1] = U[i + n] /\ U[i + n] \in Int
  <2>1. ret[i + n] = 0
    BY <1>1, <1>2
  <2>2. W[i + n] \in Int /\ U[i + n] \in Int
    BY <1>1, <1>4, <1>7
  <2>3. U[(i + n) + 1] = U[i + n] + ret[i + n] * W[i + n]
    BY <1>1, <1>7
  <2>4. ret[i + n] * W[i + n] = 0
    BY <2>1, <2>2
  <2> QED BY <2>2, <2>3, <2>4
<1>10. A * Ub[i + 1] = A * Ub[i] + (bi * wi) * A
  <2>1. Ub[i] \in Int /\ bi * wi \in Int /\ A \in Int
    BY <1>1, <1>6, <1>8
  <2>2. PICK x \in Int, y \in Int, z \in Int : x = A /\ y = Ub[i] /\ z = bi * wi
    BY <2>1, Zenon
  <2>3. x * (y + z) = x * y + z * x
    OBVIOUS
  <2>4. Ub[i + 1] = y + z
    BY <1>6, <2>2, Zenon
  <2> QED BY <2>2, <2>3, <2>4, Zenon
<1>11. ASSUME NEW row \in Numbers(m), \A h \in 0 .. m - 1 : h > i + n => row[h] = ret[h],
              Upto(row)[i + n + 1] = A * Ub[i + 1]
       PROVE  Accumulated(n, a, b, row, i + 1)
  <2>1. \A h \in 0 .. m - 1 : h >= (i + 1) + n => row[h] = 0
    BY <1>1, <1>2, <1>11
  <2>2. Upto(row)[(i + 1) + n] = A * Ub[i + 1]
    BY <1>11
  <2> QED BY <1>11, <2>1, <2>2 DEF Accumulated, A, Ub, m
<1>12. CASE b[i] = 0
  <2>1. Row(a, b, ret, i) = ret
    BY <1>12 DEF Row
  <2>2. (bi * wi) * A = 0
    BY <1>8, <1>12 DEF bi
  <2>3. A * Ub[i] \in Int
    BY <1>1, <1>6, <1>8
  <2>4. U[i + n + 1] = A * Ub[i + 1]
    BY <1>2, <1>9, <1>10, <2>2, <2>3
  <2> QED BY <1>2, <1>11, <2>1, <2>4 DEF U
<1>13. CASE b[i] # 0
  <2> DEFINE N == Words(a)
             V == Put(m)
             Step(s, j) == IF a[j] = 0 /\ s.carry = 0 THEN s
                           ELSE PutProduct(s, i + j, MulWords(a[j], b[i], s.ret[i + j]))
             start == [ret |-> ret, carry |-> 0]
             F[j \in 0 .. N] == IF j = 0 THEN start ELSE Step(F[j - 1], j - 1)
  <2>1. Row(a, b, ret, i) = F[N].ret
    BY <1>13 DEF Row, Loop
  <2>2. N = n
    BY WordsOf DEF Numbers
  <2>3. start \in V
    BY <1>2 DEF Put
  <2>4. ASSUME NEW s \in V, NEW j \in 0 .. n - 1
        PROVE  /\ Step(s, j) \in V
               /\ \A h \in 0 .. m - 1 : h > i + j + 1 => Step(s, j).ret[h] = s.ret[h]
               /\ Upto(Step(s, j).ret)[i + j + 2] + Step(s, j).carry * W[i + j + 2]
                    = Upto(s.ret)[i + j + 2] + s.carry * W[i + j + 1] + (a[j] * bi) * W[i + j]
    <3> DEFINE k == i + j
    <3>1. k \in 0 .. m - 2
      BY DEF m
    <3>2. a[j] \in Word
      BY <1>8
    <3>3. Step(s, j) = Added(s, k, a[j], bi)
      BY DEF bi, Added
    <3> HIDE DEF k, Step, F, start, N
    <3>4. /\ Step(s, j) \in V
          /\ \A h \in 0 .. m - 1 : h > k + 1 => Step(s, j).ret[h] = s.ret[h]
          /\ Upto(Step(s, j).ret)[k + 2] + Step(s, j).carry * W[k + 2]
               = Upto(s.ret)[k + 2] + s.carry * W[k + 1] + (a[j] * bi) * W[k]
      <4>1. CanAdd(m, s, k, a[j], bi)
        BY <1>1, <1>8, <3>1, <3>2 DEF CanAdd
      <4> QED BY <3>3, <4>1, ProductAdded DEF W
    <3> QED BY <3>4 DEF k
  <2> HIDE DEF Step, start
  <2>5. /\ F[0] = start
        /\ \A j \in 0 .. n - 1 : F[j + 1] = Step(F[j], j)
        /\ F \in [0 .. n -> V]
    <3> DEFINE step == [p \in V \X (0 .. n - 1) |-> Step(p[1], p[2])]
    <3>1. step \in [V \X (0 .. n - 1) -> V]
      BY <2>4
    <3>2. PICK f \in [0 .. n -> V] : Runs(f, n, start, step)
      <4> HIDE DEF step, V
      <4> QED BY <2>3, <3>1, Looping, Zenon
    <3> HIDE DEF F
    <3>3. f = [j \in 0 .. n |-> IF j = 0 THEN start ELSE Step(f[j - 1], j - 1)]
      <4>1. ASSUME NEW j \in 0 .. n, j # 0 PROVE step[<<f[j - 1], j - 1>>] = Step(f[j - 1], j - 1)
        <5>1. j - 1 \in 0 .. n /\ j - 1 \in 0 .. n - 1
          BY <4>1
        <5>2. f[j - 1] \in V
          BY <5>1
        <5> QED BY <5>1, <5>2
      <4> HIDE DEF step, V
      <4> QED BY <3>2, <4>1 DEF Runs
    <3>4. F = [j \in 0 .. n |-> IF j = 0 THEN start ELSE Step(F[j - 1], j - 1)]
      BY <2>2, <3>3 DEF F
    <3>5. F[0] = start /\ \A j \in 0 .. n - 1 : F[j + 1] = Step(F[j], j)
      BY <3>4
    <3>6. F = [j \in 0 .. n |-> F[j]]
      BY <3>4
    <3>7. ASSUME NEW j \in 0 .. n - 1, F[j] \in V PROVE F[j + 1] \in V
      BY <2>4, <3>5, <3>7
    <3> HIDE DEF V
    <3> QED BY <2>3, <3>5, <3>6, <3>7, LoopStays
  <2> HIDE DEF F, V
  <2> DEFINE S == {j \in 0 .. n :
                     /\ \A h \in 0 .. m - 1 : h > i + j => F[j].ret[h] = ret[h]
                     /\ Upto(F[j].ret)[i + j + 1] + F[j].carry * W[i + j + 1]
                          = U[i + j + 1] + (bi * wi) * Ua[j]}
  <2>6. 0 \in S
    <3>1. F[0].ret = ret /\ F[0].carry = 0
      BY <2>5 DEF start
    <3>2. i + 0 + 1 = i + 1 /\ i + 1 \in 0 .. m
      BY DEF m
    <3>3. Upto(F[0].ret)[i + 0 + 1] = U[i + 0 + 1] /\ U[i + 1] \in Int /\ W[i + 1] \in Int
      BY <1>4, <1>7, <3>1, <3>2 DEF U
    <3>4. (bi * wi) * Ua[0] = 0 /\ F[0].carry * W[i + 1] = 0
      BY <1>5, <1>8, <3>1, <3>3
    <3>5. Upto(F[0].ret)[i + 0 + 1] + F[0].carry * W[i + 0 + 1] = U[i + 0 + 1] + (bi * wi) * Ua[0]
      BY <3>2, <3>3, <3>4
    <3>6. \A h \in 0 .. m - 1 : h > i + 0 => F[0].ret[h] = ret[h]
      BY <3>1
    <3> QED BY <3>5, <3>6
  <2>7. ASSUME NEW j \in 0 .. n - 1, j \in S PROVE j + 1 \in S
    <3> DEFINE k == i + j
               s == F[j]
               s1 == F[j + 1]
    <3>1. j \in 0 .. n /\ j + 1 \in 0 .. n /\ k \in 0 .. m - 2 /\ k + 1 \in 0 .. m - 1
          /\ k + 1 \in 0 .. m /\ k + 2 \in 0 .. m /\ k \in 0 .. m /\ (k + 1) + 1 = k + 2
          /\ i + (j + 1) = k + 1 /\ j \in 0 .. m - i
      BY DEF m
    <3>2. s \in V /\ s1 = Step(s, j) /\ s1 \in V
      BY <2>5, <3>1
    <3>3. /\ \A h \in 0 .. m - 1 : h > k + 1 => s1.ret[h] = s.ret[h]
          /\ Upto(s1.ret)[k + 2] + s1.carry * W[k + 2]
               = Upto(s.ret)[k + 2] + s.carry * W[k + 1] + (a[j] * bi) * W[k]
      BY <2>4, <3>2
    <3>4. /\ \A h \in 0 .. m - 1 : h > k => s.ret[h] = ret[h]
          /\ Upto(s.ret)[k + 1] + s.carry * W[k + 1] = U[k + 1] + (bi * wi) * Ua[j]
      BY <2>7
    <3> HIDE DEF s, s1, k
    <3>5. s.ret \in Numbers(m) /\ s1.ret \in Numbers(m) /\ s.carry \in Int /\ s1.carry \in Int
      BY <3>2 DEF V, Put
    <3>6. s.ret \in [0 .. m - 1 -> Int] /\ s1.ret \in [0 .. m - 1 -> Int]
      BY <1>1, <3>5, ValueBelow
    <3>7. Upto(s.ret)[k + 2] = Upto(s.ret)[k + 1] + ret[k + 1] * W[k + 1]
          /\ Upto(s.ret)[k + 1] \in Int
      <4>1. /\ Upto(s.ret) \in [0 .. m -> Int]
            /\ \A h \in 0 .. m - 1 : Upto(s.ret)[h + 1] = Upto(s.ret)[h] + s.ret[h] * W[h]
        BY <1>1, <3>6, UptoDef, Zenon DEF W
      <4>2. s.ret[k + 1] = ret[k + 1]
        BY <3>1, <3>4
      <4>3. Upto(s.ret)[(k + 1) + 1] = Upto(s.ret)[k + 1] + ret[k + 1] * W[k + 1]
        BY <3>1, <4>1, <4>2, Zenon
      <4> QED BY <3>1, <4>1, <4>3, Zenon
    <3>8. U[k + 2] = U[k + 1] + ret[k + 1] * W[k + 1] /\ U[k + 1] \in Int
      <4>1. U[(k + 1) + 1] = U[k + 1] + ret[k + 1] * W[k + 1]
        BY <1>7, <3>1, Zenon
      <4> QED BY <1>7, <3>1, <4>1, Zenon
    <3>9. W[k] = wi * W[j]
      <4>1. \A h \in 0 .. m - i : W[i + h] = W[i] * W[h]
        BY <1>1, WeightsProduct DEF W
      <4> QED BY <3>1, <4>1, Zenon DEF k, wi
    <3>10. a[j] \in Int /\ W[j] \in Int /\ Ua[j] \in Int /\ W[k + 1] \in Int /\ ret[k + 1] \in Int
      <4>1. j \in 0 .. m
        BY <1>1, <3>1 DEF m
      <4>2. a[j] \in Int
        BY <1>3
      <4>3. W[j] \in Int /\ W[k + 1] \in Int
        BY <1>4, <3>1, <4>1
      <4>4. Ua[j] \in Int
        BY <1>5, <3>1
      <4>5. ret[k + 1] \in Int
        BY <1>3, <3>1
      <4> QED BY <4>2, <4>3, <4>4, <4>5
    <3>11. (bi * wi) * Ua[j] + (a[j] * bi) * W[k] = (bi * wi) * Ua[j + 1]
      <4>1. (bi * wi) * Ua[j] + (a[j] * bi) * (wi * W[j]) = (bi * wi) * (Ua[j] + a[j] * W[j])
        <5>1. FiveIntegers(a[j], bi, wi, W[j], Ua[j])
          BY <1>8, <3>10 DEF FiveIntegers
        <5> QED BY <5>1, RoundOfRow
      <4>2. Ua[j + 1] = Ua[j] + a[j] * W[j]
        BY <1>5
      <4> QED BY <3>9, <4>1, <4>2, Zenon
    <3>12. PICK z1 \in Int, z2 \in Int, z3 \in Int, z4 \in Int, z5 \in Int, z6 \in Int :
             /\ z1 = ret[k + 1] * W[k + 1] /\ z2 = s.carry * W[k + 1] /\ z3 = (a[j] * bi) * W[k]
             /\ z4 = (bi * wi) * Ua[j] /\ z5 = Upto(s.ret)[k + 1] /\ z6 = U[k + 1]
      <4>1. bi * wi \in Int /\ a[j] * bi \in Int /\ W[k] \in Int
        BY <1>4, <1>8, <3>1, <3>10
      <4>2. ret[k + 1] * W[k + 1] \in Int /\ s.carry * W[k + 1] \in Int /\ (a[j] * bi) * W[k] \in Int
            /\ (bi * wi) * Ua[j] \in Int
        BY <3>5, <3>10, <4>1
      <4> QED BY <3>7, <3>8, <4>2, Zenon
    <3>13. z5 + z2 = z6 + z4
      BY <3>4, <3>12, Zenon
    <3>14. (z5 + z1) + z2 + z3 = (z6 + z1) + (z4 + z3)
      BY <3>13
    <3>15. Upto(s1.ret)[k + 2] + s1.carry * W[k + 2] = U[k + 2] + (bi * wi) * Ua[j + 1]
      BY <3>3, <3>7, <3>8, <3>11, <3>12, <3>14, Zenon
    <3>16. /\ i + (j + 1) = k + 1 /\ i + (j + 1) + 1 = k + 2
      BY <3>1 DEF k
    <3>17. \A h \in 0 .. m - 1 : h > i + (j + 1) => F[j + 1].ret[h] = ret[h]
      BY <1>1, <3>1, <3>3, <3>4, <3>16 DEF s1
    <3>18. Upto(F[j + 1].ret)[i + (j + 1) + 1] + F[j + 1].carry * W[i + (j + 1) + 1]
             = U[i + (j + 1) + 1] + (bi * wi) * Ua[j + 1]
      BY <3>15, <3>16, Zenon DEF s1
    <3> QED BY <3>1, <3>17, <3>18
  <2> HIDE DEF S
  <2>8. n \in S
    <3>1. \A j \in 0 .. n : j \in S
      BY <2>6, <2>7, Upwards
    <3> QED BY <1>1, <3>1
  <2> DEFINE row == F[n].ret
             c == F[n].carry
  <2>9. row \in Numbers(m) /\ c \in 0 .. 1
    BY <1>1, <2>5 DEF V, Put
  <2>10. /\ \A h \in 0 .. m - 1 : h > i + n => row[h] = ret[h]
         /\ Upto(row)[i + n + 1] + c * W[i + n + 1] = U[i + n + 1] + (bi * wi) * Ua[n]
    BY <2>8 DEF S
  <2> HIDE DEF row, c
  <2>11. Upto(row)[i + n + 1] + c * W[i + n + 1] = A * Ub[i + 1]
    <3>1. U[i + n + 1] = A * Ub[i] /\ Ua[n] = A
      BY <1>2, <1>5, <1>9
    <3> QED BY <1>10, <2>10, <3>1, Zenon
  <2>12. A * Ub[i + 1] < W[i + n + 1] /\ A * Ub[i + 1] \in Int /\ W[i + n + 1] \in Nat
    <3> DEFINE wn == W[n]
               wi1 == W[i + 1]
    <3>1. A \in 0 .. wn - 1 /\ Ub[i + 1] \in 0 .. wi1 - 1
      <4>1. Weights(n)[n] = wn /\ Weights(n)[i + 1] = wi1
        BY <1>1, <1>4
      <4>2. A \in 0 .. Weights(n)[n] - 1
        BY ValueBelow DEF A
      <4>3. Upto(b)[i + 1] \in 0 .. Weights(n)[i + 1] - 1
        BY <1>1, UptoBelow
      <4> QED BY <4>1, <4>2, <4>3 DEF Ub
    <3>2. wn \in Nat \ {0} /\ wi1 \in Nat \ {0}
      <4>1. n \in 0 .. m /\ i + 1 \in 0 .. m
        BY DEF m
      <4> QED BY <1>4, <4>1
    <3>3. W[i + n + 1] = wn * wi1
      <4>1. n \in 0 .. m /\ i + 1 \in 0 .. m - n /\ n + (i + 1) = i + n + 1
        BY DEF m
      <4>2. \A h \in 0 .. m - n : W[n + h] = W[n] * W[h]
        BY <1>1, <4>1, WeightsProduct DEF W
      <4>3. W[n + (i + 1)] = W[n] * W[i + 1]
        BY <4>1, <4>2, Zenon
      <4> QED BY <4>1, <4>3, Zenon
    <3> HIDE DEF wn, wi1
    <3>4. PICK x \in Nat : x = Ub[i + 1]
      BY <3>1, <3>2
    <3>5. A * x <= (wn - 1) * x
      BY <3>1, <3>2, Scaling
    <3>6. (wn - 1) * x = x * (wn - 1)
      BY <3>2
    <3>7. x * (wn - 1) <= (wi1 - 1) * (wn - 1)
      BY <3>1, <3>2, <3>4, Scaling
    <3>8. (wi1 - 1) * (wn - 1) = wn * wi1 - wn - wi1 + 1 /\ wn * wi1 \in Nat
      BY <3>2
    <3>9. A * x < wn * wi1 /\ A * x \in Int
      BY <1>8, <3>2, <3>5, <3>6, <3>7, <3>8
    <3> QED BY <3>3, <3>4, <3>8, <3>9
  <2>13. Upto(row)[i + n + 1] \in Nat
    <3>1. i + n + 1 \in 0 .. m
      BY DEF m
    <3>2. Upto(row)[i + n + 1] \in 0 .. Weights(m)[i + n + 1] - 1
      BY <1>1, <2>9, <3>1, UptoBelow
    <3> QED BY <3>2
  <2>14. c = 0
    <3>1. SUFFICES ASSUME c = 1 PROVE FALSE
      BY <2>9
    <3>2. c * W[i + n + 1] = W[i + n + 1]
      BY <2>12, <3>1
    <3> QED BY <2>11, <2>12, <2>13, <3>2
  <2>15. Upto(row)[i + n + 1] = A * Ub[i + 1]
    <3>1. c * W[i + n + 1] = 0
      BY <2>12, <2>14
    <3> QED BY <2>11, <2>13, <3>1
  <2>16. Row(a, b, ret, i) = row
    BY <2>1, <2>2 DEF row
  <2> QED BY <1>11, <2>9, <2>10, <2>15, <2>16
<1> QED BY <1>12, <1>13

-----------------------------------------------------------------------------
(* The product                                                               *)

\* After the rows of all words, what has been put is the product, in twice the
\* words.
THEOREM FullMulCorrect ==
    ASSUME HalfBase \in Nat \ {0}, NEW n \in Nat, NEW a \in Numbers(n), NEW b \in Numbers(n)
    PROVE  FullMul(a, b) \in Numbers(2 * n) /\ ValueOf(FullMul(a, b)) = ValueOf(a) * ValueOf(b)
<1> DEFINE m == 2 * n
           N == Words(a)
           V == Numbers(m)
           start == Of(2 * N, 0)
           step == [p \in V \X (0 .. n - 1) |-> IF Row(a, b, p[1], p[2]) \in V
                                                THEN Row(a, b, p[1], p[2]) ELSE start]
           F[j \in 0 .. N] == IF j = 0 THEN start ELSE Row(a, b, F[j - 1], j - 1)
<1>1. N = n /\ m \in Nat
  <2>1. N = n
    BY WordsOf DEF Numbers
  <2> QED BY <2>1
<1>2. FullMul(a, b) = F[N]
  BY DEF FullMul, Loop
<1>3. start \in V /\ \A h \in 0 .. m - 1 : start[h] = 0
  BY <1>1, Bases DEF Of, Numbers, Word
<1>4. step \in [V \X (0 .. n - 1) -> V]
  BY <1>3
<1>5. PICK f \in [0 .. n -> V] : Runs(f, n, start, step)
  <2> HIDE DEF step, V, start
  <2> QED BY <1>3, <1>4, Looping, Zenon
<1> DEFINE S == {j \in 0 .. n : Accumulated(n, a, b, f[j], j)}
<1>6. 0 \in S
  <2>1. f[0] = start
    BY <1>5 DEF Runs
  <2>2. Upto(b)[0] = 0 /\ ValueOf(a) \in Int
    <3>1. b \in [0 .. n - 1 -> Int] /\ ValueOf(a) \in 0 .. Weights(n)[n] - 1
      BY ValueBelow
    <3> QED BY <3>1, UptoDef
  <2> HIDE DEF start
  <2>3. Upto(start)[n] = 0
    <3> DEFINE U == Upto(start)
               T == {j \in 0 .. m : U[j] = 0}
    <3>1. start \in [0 .. m - 1 -> Int]
      BY <1>1, <1>3, ValueBelow
    <3>2. U[0] = 0 /\ \A j \in 0 .. m - 1 : U[j + 1] = U[j] + start[j] * Weights(m)[j]
      <4> HIDE DEF m
      <4> QED BY <1>1, <3>1, UptoDef
    <3>3. Weights(m) \in [0 .. m -> Nat \ {0}]
      <4> HIDE DEF m
      <4> QED BY <1>1, WeightsDef
    <3>4. ASSUME NEW j \in 0 .. m - 1, j \in T PROVE j + 1 \in T
      <4>1. Weights(m)[j] \in Int /\ start[j] = 0
        BY <1>3, <3>3
      <4>2. start[j] * Weights(m)[j] = 0
        BY <4>1
      <4> QED BY <3>2, <3>4, <4>2
    <3>5. 0 \in T
      BY <1>1, <3>2
    <3> HIDE DEF T, m
    <3>6. \A j \in 0 .. m : j \in T
      BY <1>1, <3>4, <3>5, Upwards
    <3> QED BY <3>6 DEF T, m
  <2>4. Accumulated(n, a, b, start, 0)
    BY <1>3, <2>2, <2>3 DEF Accumulated
  <2> QED BY <2>1, <2>4
<1>7. ASSUME NEW j \in 0 .. n - 1, j \in S
      PROVE  f[j + 1] = Row(a, b, f[j], j) /\ j + 1 \in S
  <2>1. f[j + 1] = step[<<f[j], j>>] /\ f[j] \in V
    <3>1. j \in 0 .. n /\ j + 1 \in 0 .. n /\ j + 1 # 0 /\ (j + 1) - 1 = j
      OBVIOUS
    <3>2. f[j] \in V
      BY <3>1
    <3> HIDE DEF step, start, V, S
    <3> QED BY <1>5, <3>1, <3>2 DEF Runs
  <2>2. Accumulated(n, a, b, Row(a, b, f[j], j), j + 1)
    BY <1>7, RowCorrect
  <2>3. Row(a, b, f[j], j) \in V
    BY <2>2 DEF Accumulated
  <2>4. f[j + 1] = Row(a, b, f[j], j)
    BY <2>1, <2>3
  <2> QED BY <2>2, <2>4
<1> HIDE DEF S
<1>8. \A j \in 0 .. n : j \in S
  BY <1>6, <1>7, Upwards
<1>9. F[N] = f[n]
  <2>1. f = [j \in 0 .. n |-> IF j = 0 THEN start ELSE Row(a, b, f[j - 1], j - 1)]
    <3>1. ASSUME NEW j \in 0 .. n, j # 0 PROVE f[j] = Row(a, b, f[j - 1], j - 1)
      <4>1. j - 1 \in 0 .. n - 1 /\ j - 1 \in S /\ (j - 1) + 1 = j
        BY <1>8, <3>1
      <4> QED BY <1>7, <4>1
    <3>2. f[0] = start
      BY <1>5 DEF Runs
    <3> HIDE DEF V, start
    <3> QED BY <3>1, <3>2
  <2>2. F = [j \in 0 .. n |-> IF j = 0 THEN start ELSE Row(a, b, F[j - 1], j - 1)]
    BY <1>1, <2>1
  <2> HIDE DEF F, start
  <2> DEFINE T == {j \in 0 .. n : F[j] = f[j]}
  <2>3. 0 \in T
    BY <2>1, <2>2
  <2>4. ASSUME NEW j \in 0 .. n - 1, j \in T PROVE j + 1 \in T
    <3>1. F[j + 1] = Row(a, b, F[j], j) /\ f[j + 1] = Row(a, b, f[j], j)
      <4>1. j + 1 \in 0 .. n /\ j + 1 # 0 /\ (j + 1) - 1 = j
        OBVIOUS
      <4> QED BY <2>1, <2>2, <4>1
    <3> QED BY <2>4, <3>1
  <2> HIDE DEF T
  <2>5. \A j \in 0 .. n : j \in T
    BY <2>3, <2>4, Upwards
  <2> QED BY <1>1, <2>5 DEF T
<1>10. Accumulated(n, a, b, f[n], n)
  BY <1>8 DEF S
<1>11. ValueOf(f[n]) = Upto(f[n])[n + n] /\ f[n] \in V
  <2>1. f[n] \in V /\ n + n = m
    BY <1>10 DEF Accumulated
  <2>2. f[n] \in [0 .. m - 1 -> Int]
    BY <1>1, <2>1, ValueBelow
  <2>3. ValueOf(f[n]) = Upto(f[n])[m]
    <3> HIDE DEF m
    <3> QED BY <1>1, <2>2, UptoDef
  <2> QED BY <2>1, <2>3
<1>12. ValueOf(b) = Upto(b)[n]
  <2>1. b \in [0 .. n - 1 -> Int]
    BY ValueBelow
  <2> QED BY <2>1, UptoDef
<1>13. Upto(f[n])[n + n] = ValueOf(a) * Upto(b)[n]
  BY <1>10 DEF Accumulated
<1> QED BY <1>2, <1>9, <1>11, <1>12, <1>13

\* The words of a number cut off are a multiple of the weight of the first of
\* them, which is zero when all of them are.
LEMMA CutOff ==
    ASSUME HalfBase \in Nat \ {0}, NEW n \in Nat, NEW m, m = 2 * n, NEW ret \in Numbers(m)
    PROVE  \E k \in Nat : /\ ValueOf(ret) = Upto(ret)[n] + k * Weights(m)[n]
                          /\ k # 0 <=> \E h \in n .. m - 1 : ret[h] # 0
<1> DEFINE W == Weights(m)
           U == Upto(ret)
           High(j, k) == /\ U[n + j] = U[n] + k * W[n]
                         /\ k # 0 <=> \E h \in n .. n + j - 1 : ret[h] # 0
           S == {j \in 0 .. n : \E k \in Nat : High(j, k)}
<1>1. m \in Nat /\ n \in 0 .. m /\ m - n = n /\ n + n = m
  OBVIOUS
<1>2. W \in [0 .. m -> Nat \ {0}] /\ \A j \in 0 .. m - n : W[n + j] = W[n] * W[j]
  <2>1. W \in [0 .. m -> Nat \ {0}]
    BY <1>1, WeightsDef
  <2>2. \A j \in 0 .. m - n : W[n + j] = W[n] * W[j]
    BY <1>1, WeightsProduct
  <2> QED BY <2>1, <2>2
<1>3. /\ U \in [0 .. m -> Int] /\ \A j \in 0 .. m - 1 : U[j + 1] = U[j] + ret[j] * W[j]
      /\ ValueOf(ret) = U[m]
  <2>1. ret \in [0 .. m - 1 -> Int]
    BY <1>1, ValueBelow
  <2> QED BY <1>1, <2>1, UptoDef, Zenon
<1>4. \A j \in 0 .. m - 1 : ret[j] \in Nat
  BY Bases DEF Numbers, Word
<1> HIDE DEF W, U
<1>5. 0 \in S
  <2>1. U[n] \in Int /\ W[n] \in Int
    BY <1>1, <1>2, <1>3
  <2>2. U[n + 0] = U[n] + 0 * W[n]
    BY <2>1
  <2>3. High(0, 0)
    BY <2>2
  <2> QED BY <2>3
<1>6. ASSUME NEW j \in 0 .. n - 1, j \in S PROVE j + 1 \in S
  <2> DEFINE c == n + j
  <2>1. PICK k \in Nat : High(j, k)
    BY <1>6
  <2>2. c \in 0 .. m - 1 /\ j \in 0 .. m - n /\ j \in 0 .. m /\ n + (j + 1) = c + 1
        /\ (n + (j + 1)) - 1 = c
    BY <1>1
  <2>3. PICK x \in Nat, w \in Nat \ {0} : x = ret[c] /\ w = W[j]
    BY <1>2, <1>4, <2>2
  <2>4. PICK v \in Nat \ {0}, u \in Int : v = W[n] /\ u = U[n]
    BY <1>1, <1>2, <1>3
  <2>5. U[c + 1] = U[c] + x * (v * w)
    <3>1. U[c + 1] = U[c] + ret[c] * W[c]
      BY <1>3, <2>2
    <3>2. W[c] = W[n] * W[j]
      BY <1>2, <2>2
    <3> QED BY <2>3, <2>4, <3>1, <3>2, Zenon
  <2>6. U[c] = u + k * v
    BY <2>1, <2>4
  <2>7. PICK q \in Nat : q = x * w /\ (q # 0 <=> x # 0)
    BY <2>3
  <2>8. U[c + 1] = u + (k + q) * v
    <3>1. x * (v * w) = q * v
      <4>1. x * (v * w) = (x * w) * v
        OBVIOUS
      <4> QED BY <2>7, <4>1, Zenon
    <3>2. (k + q) * v = k * v + q * v
      OBVIOUS
    <3>3. PICK y \in Int, z \in Int : y = k * v /\ z = q * v
      OBVIOUS
    <3>4. U[c + 1] = (u + y) + z
      BY <2>5, <2>6, <3>1, <3>3, Zenon
    <3>5. (k + q) * v = y + z
      BY <3>2, <3>3, Zenon
    <3>6. (u + y) + z = u + (y + z)
      OBVIOUS
    <3> QED BY <3>4, <3>5, <3>6, Zenon
  <2>9. k # 0 <=> \E h \in n .. c - 1 : ret[h] # 0
    BY <2>1
  <2>10. k + q # 0 <=> \E h \in n .. c : ret[h] # 0
    <3>1. n .. c = (n .. c - 1) \union {c}
      OBVIOUS
    <3>2. (\E h \in n .. c : ret[h] # 0) <=> k # 0 \/ ret[c] # 0
      BY <2>9, <3>1
    <3>3. k + q # 0 <=> k # 0 \/ x # 0
      BY <2>7
    <3> QED BY <2>3, <3>2, <3>3
  <2>11. High(j + 1, k + q)
    BY <2>2, <2>4, <2>8, <2>10
  <2> HIDE DEF High
  <2>12. k + q \in Nat /\ j + 1 \in 0 .. n
    OBVIOUS
  <2> QED BY <2>11, <2>12
<1> HIDE DEF S
<1>7. \A j \in 0 .. n : j \in S
  BY <1>5, <1>6, Upwards
<1>8. PICK k \in Nat : High(n, k)
  <2>1. n \in S
    BY <1>7
  <2> QED BY <2>1 DEF S
<1> QED BY <1>1, <1>3, <1>8 DEF U, W

\* overflowing_mul: a product is cut to the words of its factors, and overflows
\* when a word that is cut off is not zero.
THEOREM MulCorrect ==
    ASSUME HalfBase \in Nat \ {0}, NEW n \in Nat, NEW a \in Numbers(n), NEW b \in Numbers(n),
           NEW r, r = OverflowingMul(a, b)
    PROVE  Computes(r, n, ValueOf(a) * ValueOf(b))
<1> DEFINE m == 2 * n
           ret == FullMul(a, b)
           x == [i \in 0 .. n - 1 |-> ret[i]]
           U == Upto(ret)
           Ux == Upto(x)
<1>1. m \in Nat /\ n <= m
  OBVIOUS
<1>2. ret \in Numbers(m) /\ ValueOf(ret) = ValueOf(a) * ValueOf(b)
  BY FullMulCorrect
<1>3. r.n = x /\ r.over = (\E h \in n .. m - 1 : ret[h] # 0)
  <2>1. Words(a) = n
    BY WordsOf DEF Numbers
  <2>2. r = CutTo(n, ret)
    BY <2>1 DEF OverflowingMul
  <2> HIDE DEF ret
  <2> QED BY <2>2 DEF CutTo
<1> HIDE DEF ret
<1>4. x \in Numbers(n)
  BY <1>1, <1>2 DEF Numbers
<1>5. ret \in [0 .. m - 1 -> Int] /\ x \in [0 .. n - 1 -> Int]
  <2> HIDE DEF m, x
  <2> QED BY <1>1, <1>2, <1>4, ValueBelow
<1>6. /\ U[0] = 0 /\ \A j \in 0 .. m - 1 : U[j + 1] = U[j] + ret[j] * Weights(m)[j]
  <2> HIDE DEF m
  <2> QED BY <1>1, <1>5, UptoDef, Zenon
<1>7. /\ Ux[0] = 0 /\ \A j \in 0 .. n - 1 : Ux[j + 1] = Ux[j] + x[j] * Weights(n)[j]
      /\ ValueOf(x) = Ux[n]
  <2> HIDE DEF x
  <2> QED BY <1>5, UptoDef, Zenon
<1>8. \A j \in 0 .. n : Weights(m)[j] = Weights(n)[j]
  <2> HIDE DEF m
  <2> QED BY <1>1, WeightsSame
<1> DEFINE S == {j \in 0 .. n : U[j] = Ux[j]}
<1>9. 0 \in S
  BY <1>6, <1>7
<1>10. ASSUME NEW j \in 0 .. n - 1, j \in S PROVE j + 1 \in S
  <2>1. j \in 0 .. m - 1 /\ j \in 0 .. n /\ j + 1 \in 0 .. n
    BY <1>1
  <2>2. x[j] = ret[j] /\ Weights(m)[j] = Weights(n)[j] /\ U[j] = Ux[j]
    BY <1>8, <1>10, <2>1
  <2> HIDE DEF U, Ux, x, m
  <2>3. U[j + 1] = Ux[j + 1]
    BY <1>6, <1>7, <2>1, <2>2
  <2> QED BY <2>1, <2>3
<1> HIDE DEF S
<1>11. \A j \in 0 .. n : j \in S
  BY <1>9, <1>10, Upwards
<1>12. U[n] = ValueOf(x)
  <2>1. n \in S
    BY <1>11
  <2> QED BY <1>7, <2>1 DEF S
<1>13. PICK k \in Nat : /\ ValueOf(ret) = U[n] + k * Weights(m)[n]
                        /\ k # 0 <=> \E h \in n .. m - 1 : ret[h] # 0
  <2> HIDE DEF m
  <2>1. m = 2 * n
    BY DEF m
  <2> QED BY <1>2, <2>1, CutOff
<1>14. Weights(m)[n] = Weights(n)[n]
  BY <1>8
<1>15. ValueOf(a) * ValueOf(b) = ValueOf(r.n) + k * Weights(n)[n] /\ r.over = (k # 0)
  BY <1>2, <1>3, <1>12, <1>13, <1>14, Zenon
<1> HIDE DEF x, m
<1>16. r.n \in Numbers(n) /\ k \in Int
  BY <1>3, <1>4
<1> QED BY <1>15, <1>16, Fitting
=============================================================================
