--------------------------- MODULE BlockTreeFacts ---------------------------
(***************************************************************************)
(* The lemmas about block trees and the window of recent blocks that the   *)
(* proofs rest on: least and greatest elements of sets of heights,         *)
(* ancestors, parents and paths, and what goes into the window.            *)
(***************************************************************************)
EXTENDS HashCache, SequenceTheorems, WellFoundedInduction, TLAPS

-----------------------------------------------------------------------------
(* Least and greatest elements.                                            *)

\* A set of naturals that is not empty has a least element, and Min is it.
LEMMA MinOfNaturals ==
    ASSUME NEW S \in SUBSET Nat, S # {}
    PROVE  Min(S) \in S /\ \A y \in S : Min(S) <= y
<1> DEFINE Less == {xy \in Nat \X Nat : xy[1] < xy[2]}
<1>1. IsWellFoundedOn(Less, Nat)
  BY NatLessThanWellFounded DEF OpToRel
<1>2. PICK x \in S : \A y \in S : ~(<<y, x>> \in Less)
  BY <1>1, WFMin
<1>3. \A y \in S : x <= y
  <2> SUFFICES ASSUME NEW y \in S, y < x PROVE FALSE
    OBVIOUS
  <2>1. <<y, x>> \in Less
    OBVIOUS
  <2> QED BY <1>2, <2>1
<1> QED BY <1>3 DEF Min

\* A set of naturals with a bound has a greatest element, and Max is it.
LEMMA MaxOfNaturals ==
    ASSUME NEW n \in Nat, NEW S \in SUBSET (0 .. n), S # {}
    PROVE  Max(S) \in S /\ \A y \in S : Max(S) >= y
<1> DEFINE M == {n - x : x \in S}
<1>1. M \in SUBSET Nat /\ M # {}
  <2>1. \A x \in S : x \in 0 .. n /\ n - x \in Nat
    OBVIOUS
  <2> QED BY <2>1
<1>2. PICK x \in S : Min(M) = n - x
  BY <1>1, MinOfNaturals
<1>3. \A y \in S : n - x <= n - y
  BY <1>1, <1>2, MinOfNaturals
<1>4. \A y \in S : x >= y
  BY <1>3
<1> QED BY <1>4 DEF Max

-----------------------------------------------------------------------------
(* Paths.                                                                  *)

\* The ancestors of a block are blocks, at the heights they are asked for.
LEMMA AncestorFacts ==
    ASSUME NEW b \in Block, NEW k \in 0 .. Height(b)
    PROVE  /\ Height(b) \in Nat
           /\ Anc(b, k) \in Block
           /\ Height(Anc(b, k)) = k
           /\ \A j \in 0 .. k : Anc(Anc(b, k), j) = Anc(b, j)
<1>1. b \in Seq(Label) /\ Len(b) \in Nat
  BY BlockAssumption
<1>2. Anc(b, k) \in Block
  BY BlockAssumption DEF Anc, Height
<1>3. Height(Anc(b, k)) = k /\ \A i \in 1 .. k : Anc(b, k)[i] = b[i]
  BY <1>1, SubSeqProperties, ElementOfSeq DEF Anc, Height
<1>4. ASSUME NEW j \in 0 .. k PROVE Anc(Anc(b, k), j) = Anc(b, j)
  <2>1. Anc(b, j) \in Seq(Label) /\ Len(Anc(b, j)) = j
        /\ \A i \in 1 .. j : Anc(b, j)[i] = b[i]
    BY <1>1, SubSeqProperties, ElementOfSeq DEF Anc, Height
  <2>2. Anc(Anc(b, k), j) \in Seq(Label) /\ Len(Anc(Anc(b, k), j)) = j
        /\ \A i \in 1 .. j : Anc(Anc(b, k), j)[i] = Anc(b, k)[i]
    BY <1>2, <1>3, SubSeqProperties, ElementOfSeq, BlockAssumption DEF Anc, Height
  <2> QED BY <1>3, <2>1, <2>2, SeqEqual
<1> QED BY <1>1, <1>2, <1>3, <1>4 DEF Height

\* The path of a block begins with genesis and ends in the block.
LEMMA PathFacts ==
    ASSUME NEW b \in Block
    PROVE  /\ Anc(b, 0) = Genesis
           /\ Anc(b, Height(b)) = b
           /\ b \in Path(b) /\ Genesis \in Path(b)
           /\ Path(b) \subseteq Block
           /\ Height(b) = 0 <=> b = Genesis
           /\ Height(b) \in Nat
<1>1. b \in Seq(Label) /\ Len(b) \in Nat
  BY BlockAssumption
<1>2. Anc(b, 0) = Genesis
  BY <1>1, SubSeqEmpty DEF Anc, Genesis
<1>3. Anc(b, Height(b)) = b
  BY <1>1, SubSeqFull DEF Anc, Height
<1>4. Height(b) = 0 <=> b = Genesis
  BY <1>1, EmptySeq DEF Height, Genesis
<1>5. Path(b) \subseteq Block
  BY AncestorFacts DEF Path
<1> QED BY <1>1, <1>2, <1>3, <1>4, <1>5 DEF Path, Height

\* A block is reached from its parent by one step.
LEMMA ParentFacts ==
    ASSUME NEW b \in Block, b # Genesis
    PROVE  /\ Height(b) \in Nat \ {0}
           /\ Parent(b) \in Block
           /\ Height(Parent(b)) = Height(b) - 1
           /\ \A k \in 0 .. Height(b) - 1 : Anc(Parent(b), k) = Anc(b, k)
           /\ Path(b) = Path(Parent(b)) \union {b}
<1>1. Height(b) \in Nat \ {0}
  BY PathFacts
<1>2. /\ Parent(b) \in Block
      /\ Height(Parent(b)) = Height(b) - 1
      /\ \A k \in 0 .. Height(b) - 1 : Anc(Parent(b), k) = Anc(b, k)
  BY <1>1, AncestorFacts DEF Parent
<1>3. Path(b) = Path(Parent(b)) \union {b}
  <2>1. \A k \in 0 .. Height(b) : k = Height(b) \/ k \in 0 .. Height(b) - 1
    BY <1>1
  <2> QED BY <1>1, <1>2, <2>1, PathFacts DEF Path
<1> QED BY <1>1, <1>2, <1>3

\* The path of an ancestor is the lower part of the path.
LEMMA PathOfAncestor ==
    ASSUME NEW b \in Block, NEW k \in 0 .. Height(b)
    PROVE  Path(Anc(b, k)) = {Anc(b, j) : j \in 0 .. k}
BY AncestorFacts DEF Path

-----------------------------------------------------------------------------
(* The cache: what goes into it is what it held and what it was given.      *)

\* The lesser of two naturals.
LEMMA MinOfTwo ==
    ASSUME NEW x \in Nat, NEW y \in Nat
    PROVE  /\ Min({x, y}) \in Nat
           /\ Min({x, y}) <= x /\ Min({x, y}) <= y
           /\ Min({x, y}) = x \/ Min({x, y}) = y
<1>1. {x, y} \in SUBSET Nat /\ {x, y} # {}
  OBVIOUS
<1>2. Min({x, y}) \in {x, y} /\ \A z \in {x, y} : Min({x, y}) <= z
  BY <1>1, MinOfNaturals
<1> QED BY <1>2

\* A cache map of the right type.
HashesOK(hs) == DOMAIN hs \subseteq Tx /\ \A t \in DOMAIN hs : hs[t] \in Nat

\* A sequence of cache operations about blocks.
OpsOK(ops) == \E n \in Nat : DOMAIN ops = 1 .. n /\ \A i \in 1 .. n : ops[i].block \in Block

\* Operations about blocks keep the map well typed.
LEMMA AppliedType ==
    ASSUME NEW hs, HashesOK(hs), NEW ops, OpsOK(ops)
    PROVE  HashesOK(Applied(hs, ops))
<1> DEFINE last(t) == ops[Max(Touching(ops, t))]
           kept    == {t \in DOMAIN hs : Touching(ops, t) = {}}
           entered == {t \in Tx : Touching(ops, t) # {} /\ last(t).enters}
<1>1. PICK n \in Nat : DOMAIN ops = 1 .. n /\ \A i \in 1 .. n : ops[i].block \in Block
  BY DEF OpsOK
<1>2. ASSUME NEW t \in entered PROVE Height(last(t).block) \in Nat
  <2>1. Touching(ops, t) \in SUBSET (0 .. n) /\ Touching(ops, t) # {}
    BY <1>1, <1>2 DEF Touching
  <2>2. Max(Touching(ops, t)) \in Touching(ops, t)
    BY <2>1, MaxOfNaturals
  <2>3. last(t).block \in Block
    BY <1>1, <2>2 DEF Touching
  <2> QED BY <2>3, PathFacts
<1>3. Applied(hs, ops) = [t \in kept \union entered |->
                            IF t \in entered THEN Height(last(t).block) ELSE hs[t]]
  BY DEF Applied
<1>4. kept \union entered \subseteq Tx
  BY DEF HashesOK
<1> HIDE DEF kept, entered, last
<1>5. ASSUME NEW t \in kept \union entered
      PROVE  (IF t \in entered THEN Height(last(t).block) ELSE hs[t]) \in Nat
  BY <1>2, <1>5 DEF HashesOK, kept
<1> QED BY <1>3, <1>4, <1>5 DEF HashesOK

\* update_txs_cache: the queue keeps its length or grows, its entries are old
\* entries and the blocks it was given, and its operations are about blocks.
LEMMA UpdatedQueueType ==
    ASSUME NEW V \in SUBSET Block,
           NEW q \in Seq(V), q # << >>, NEW blocks \in Seq(V), NEW m \in Nat
    PROVE  /\ UpdatedQueue(q, blocks, m) \in Seq(V)
           /\ UpdatedQueue(q, blocks, m) # << >>
           /\ OpsOK(UpdateOps(q, blocks, m))
<1> DEFINE ext == Extended(q, blocks, m)
           A == Appends(q, blocks, m)
           P == Placed(blocks, m)
<1>1. Len(q) \in Nat \ {0} /\ Len(blocks) \in Nat
  BY EmptySeq, LenProperties
<1>2. P \in Nat /\ P <= Len(blocks) /\ P <= m
  BY <1>1, MinOfTwo DEF Placed
<1>3. A \in Nat /\ A <= Len(blocks)
  <2>1. CASE m > Len(q)
    <3>1. (m - Len(q)) \div 2 \in Nat
      BY <1>1, <2>1
    <3> QED BY <1>1, <2>1, <3>1, MinOfTwo DEF Appends
  <2> QED BY <1>1, <2>1 DEF Appends
<1>4. /\ SubSeq(blocks, 1, A) \in Seq(V)
      /\ Len(SubSeq(blocks, 1, A)) = A
  <2>1. \A i \in 1 .. A : blocks[i] \in V
    BY <1>1, <1>3, ElementOfSeq
  <2> QED BY <1>3, <2>1, SubSeqProperties
<1>5. ext \in Seq(V) /\ Len(ext) = Len(q) + A /\ Len(ext) \in Nat \ {0}
  BY <1>1, <1>3, <1>4, ConcatProperties DEF Extended
<1>6. \A x \in 1 .. Len(ext) : ext[x] \in V
  BY <1>5, ElementOfSeq
<1>7. \A x \in A + 1 .. P : blocks[x] \in V
  BY <1>1, <1>2, <1>3, ElementOfSeq
<1> HIDE DEF ext, A, P
<1>8. UpdatedQueue(q, blocks, m) =
         [x \in 1 .. Len(ext) |-> IF m + 1 - x \in A + 1 .. P
                                  THEN blocks[m + 1 - x] ELSE ext[x]]
  BY DEF UpdatedQueue, ext, A, P
<1>9. UpdatedQueue(q, blocks, m) \in Seq(V)
  BY <1>5, <1>6, <1>7, <1>8
<1>10. Len(UpdatedQueue(q, blocks, m)) = Len(ext)
  BY <1>5, <1>8
<1>11. \A j \in 1 .. P : Replaced(q, blocks, m, j) \in Block
  <2> SUFFICES ASSUME NEW j \in 1 .. P PROVE Replaced(q, blocks, m, j) \in Block
    OBVIOUS
  <2>1. CASE j <= A
    BY <2>1, BlockAssumption DEF Replaced, A
  <2>2. CASE j > A /\ m + 1 - j > Len(ext)
    <3>1. blocks[j] \in V
      BY <1>3, <1>7, <2>2
    <3> QED BY <1>3, <2>2, <3>1 DEF Replaced, A, ext
  <2>3. CASE j > A /\ ~(m + 1 - j > Len(ext))
    <3>1. m + 1 - j \in 1 .. Len(ext)
      BY <1>2, <1>5, <2>3
    <3>2. Replaced(q, blocks, m, j) = ext[m + 1 - j]
      BY <1>3, <2>3 DEF Replaced, A, ext
    <3> QED BY <1>6, <3>1, <3>2
  <2> QED BY <1>3, <2>1, <2>2, <2>3
<1>12. OpsOK(UpdateOps(q, blocks, m))
  <2>1. UpdateOps(q, blocks, m) =
           [x \in 1 .. 2 * P |-> IF x % 2 = 1
                THEN Leave(Replaced(q, blocks, m, (x + 1) \div 2))
                ELSE Enter(blocks[x \div 2])]
    BY DEF UpdateOps, P
  <2>2. 2 * P \in Nat /\ DOMAIN UpdateOps(q, blocks, m) = 1 .. 2 * P
    BY <1>2, <2>1
  <2>3. ASSUME NEW x \in 1 .. 2 * P PROVE UpdateOps(q, blocks, m)[x].block \in Block
    <3>1. CASE x % 2 = 1
      <4>1. (x + 1) \div 2 \in 1 .. P
        BY <1>2, <3>1
      <4> QED BY <1>11, <2>1, <3>1, <4>1 DEF Leave
    <3>2. CASE x % 2 # 1
      <4>1. x \div 2 \in 1 .. P
        BY <1>2, <3>2
      <4>2. blocks[x \div 2] \in Block
        BY <1>1, <1>2, <4>1, ElementOfSeq
      <4> QED BY <2>1, <3>2, <4>2 DEF Enter
    <3> QED BY <3>1, <3>2
  <2> QED BY <2>2, <2>3 DEF OpsOK
<1>13. UpdatedQueue(q, blocks, m) # << >>
  BY <1>5, <1>10, EmptySeq
<1> QED BY <1>9, <1>12, <1>13

\* tx_cache_roll_back: what is left is old entries and ancestors of the block
\* it is given, n of each.
LEMMA RolledBackType ==
    ASSUME NEW V \in SUBSET Block, \A v \in V : Path(v) \subseteq V,
           NEW q \in Seq(V), NEW hash \in V, NEW n \in Nat, n <= Len(q)
    PROVE  /\ RolledBack(q, hash, n) \in Seq(V)
           /\ Len(RolledBack(q, hash, n)) = 2 * n
           /\ OpsOK(RollBackOps(q, hash, n))
<1> DEFINE F == RolledFront(hash, n)
<1>1. Len(q) \in Nat /\ Height(hash) \in Nat
  BY LenProperties, PathFacts
<1>2. \A k \in 0 .. Height(hash) : Anc(hash, k) \in V
  BY <1>1 DEF Path
<1>3. F = [i \in 1 .. n |-> Anc(hash, IF n + 1 - i < Height(hash)
                                      THEN Height(hash) - (n + 1 - i) ELSE 0)]
  BY DEF RolledFront
<1>4. ASSUME NEW i \in 1 .. n PROVE F[i] \in V
  <2>1. (IF n + 1 - i < Height(hash) THEN Height(hash) - (n + 1 - i) ELSE 0)
           \in 0 .. Height(hash)
    BY <1>1
  <2> QED BY <1>2, <1>3, <2>1
<1> HIDE DEF F
<1>5. F \in Seq(V) /\ Len(F) = n
  BY <1>3, <1>4
<1>6. SubSeq(q, 1, n) \in Seq(V) /\ Len(SubSeq(q, 1, n)) = n
  <2>1. \A i \in 1 .. n : q[i] \in V
    BY <1>1, ElementOfSeq
  <2> QED BY <2>1, SubSeqProperties
<1>7. RolledBack(q, hash, n) \in Seq(V) /\ Len(RolledBack(q, hash, n)) = 2 * n
  <2> DEFINE kept == SubSeq(q, 1, n)
  <2>1. RolledBack(q, hash, n) = F \o kept
    BY DEF RolledBack, F
  <2>2. kept \in Seq(V) /\ Len(kept) = n
    BY <1>6
  <2> HIDE DEF kept
  <2>3. F \o kept \in Seq(V) /\ Len(F \o kept) = Len(F) + Len(kept)
    <3>1. F \in Seq(V) /\ kept \in Seq(V)
      BY <1>5, <2>2
    <3> QED BY ONLY <3>1, ConcatProperties
  <2> QED BY <1>5, <2>1, <2>2, <2>3
<1>8. OpsOK(RollBackOps(q, hash, n))
  <2> DEFINE Op == [enters : BOOLEAN, block : Block]
             L == [x \in 1 .. Len(q) - n |-> Leave(q[n + x])]
             E == [i \in 1 .. n |-> Enter(F[n + 1 - i])]
  <2>1. L \in Seq(Op)
    <3>1. \A x \in 1 .. Len(q) - n : q[n + x] \in Block
      BY <1>1, ElementOfSeq
    <3> QED BY <1>1, <3>1 DEF Leave
  <2>2. E \in Seq(Op)
    <3>1. \A x \in 1 .. n : F[n + 1 - x] \in Block
      BY <1>4
    <3> QED BY <3>1 DEF Enter
  <2>3. RollBackOps(q, hash, n) = L \o E
    BY DEF RollBackOps, F
  <2> HIDE DEF L, E
  <2>4. L \o E \in Seq(Op)
    BY <2>1, <2>2, ConcatProperties
  <2>5. /\ Len(L \o E) \in Nat /\ DOMAIN (L \o E) = 1 .. Len(L \o E)
        /\ \A i \in 1 .. Len(L \o E) : (L \o E)[i] \in Op
    BY <2>4, LenProperties, ElementOfSeq
  <2> QED BY <2>3, <2>5 DEF OpsOK
<1> QED BY <1>7, <1>8

\* One block at position Len(q): update_txs_cache puts it at the back, and the
\* entry that was there leaves the map before the block enters it.
LEMMA UpdatedByOne ==
    ASSUME NEW q \in Seq(Block), q # << >>, NEW b \in Block
    PROVE  /\ UpdatedQueue(q, <<b>>, Len(q)) =
                 [x \in 1 .. Len(q) |-> IF x = Len(q) THEN b ELSE q[x]]
           /\ UpdateOps(q, <<b>>, Len(q)) = <<Leave(q[Len(q)]), Enter(b)>>
<1> DEFINE n == Len(q)
           s == <<b>>
<1>1. n \in Nat \ {0} /\ DOMAIN q = 1 .. n
  BY EmptySeq, LenProperties
<1>2. Len(s) = 1 /\ s[1] = b /\ s \in Seq(Block)
  OBVIOUS
<1> HIDE DEF n, s
<1>3. Appends(q, s, n) = 0
  BY <1>1 DEF Appends, n
<1>4. Extended(q, s, n) = q
  <2>1. SubSeq(s, 1, 0) = << >>
    BY <1>2, SubSeqEmpty
  <2>2. q \o << >> = q
    BY ConcatEmptySeq
  <2> QED BY <1>3, <2>1, <2>2 DEF Extended
<1>5. Placed(s, n) = 1
  BY <1>1, <1>2, MinOfTwo DEF Placed
<1>6. UpdatedQueue(q, s, n) = [x \in 1 .. n |-> IF x = n THEN b ELSE q[x]]
  <2>1. UpdatedQueue(q, s, n) = [x \in 1 .. n |->
           IF n + 1 - x \in 1 .. 1 THEN s[n + 1 - x] ELSE q[x]]
    BY <1>3, <1>4, <1>5 DEF UpdatedQueue, n
  <2>2. \A x \in 1 .. n : (IF n + 1 - x \in 1 .. 1 THEN s[n + 1 - x] ELSE q[x])
                             = (IF x = n THEN b ELSE q[x])
    BY <1>1, <1>2
  <2> QED BY <2>1, <2>2
<1>7. Replaced(q, s, n, 1) = q[n]
  BY <1>1, <1>3, <1>4 DEF Replaced, n
<1>8. UpdateOps(q, s, n) = <<Leave(q[n]), Enter(b)>>
  <2>1. UpdateOps(q, s, n) = [x \in 1 .. 2 |->
           IF x % 2 = 1 THEN Leave(Replaced(q, s, n, (x + 1) \div 2)) ELSE Enter(s[x \div 2])]
    <3>1. 2 * 1 = 2
      OBVIOUS
    <3> QED BY <1>5, <3>1, Zenon DEF UpdateOps
  <2> DEFINE u == UpdateOps(q, s, n)
  <2>2. u[1] = Leave(q[n])
    <3>1. 1 % 2 = 1 /\ (1 + 1) \div 2 = 1 /\ 1 \in 1 .. 2
      OBVIOUS
    <3> QED BY <1>7, <2>1, <3>1
  <2>3. u[2] = Enter(b)
    <3>1. 2 % 2 = 0 /\ 2 \div 2 = 1 /\ 2 \in 1 .. 2
      OBVIOUS
    <3> QED BY <1>2, <2>1, <3>1
  <2>4. u \in Seq({Leave(q[n]), Enter(b)}) /\ Len(u) = 2
    <3>1. \A x \in 1 .. 2 : u[x] \in {Leave(q[n]), Enter(b)}
      BY <2>2, <2>3
    <3> QED BY <2>1, <3>1
  <2> HIDE DEF u
  <2>5. u = <<u[1], u[2]>>
    BY <2>4
  <2> QED BY <2>2, <2>3, <2>5 DEF u
<1> QED BY <1>6, <1>8 DEF n, s

\* A block leaves the map, then another enters it.
LEMMA AppliedExchange ==
    ASSUME NEW hs, HashesOK(hs), NEW o \in Block, NEW b \in Block
    PROVE  LET new == Applied(hs, <<Leave(o), Enter(b)>>)
           IN /\ DOMAIN new = (DOMAIN hs \ TxSet(o)) \union TxSet(b)
              /\ \A t \in DOMAIN new :
                    new[t] = IF t \in TxSet(b) THEN Height(b) ELSE hs[t]
<1> DEFINE ops == <<Leave(o), Enter(b)>>
           last(t) == ops[Max(Touching(ops, t))]
           kept    == {t \in DOMAIN hs : Touching(ops, t) = {}}
           entered == {t \in Tx : Touching(ops, t) # {} /\ last(t).enters}
<1>1. DOMAIN ops = 1 .. 2 /\ ops[1] = Leave(o) /\ ops[2] = Enter(b)
  OBVIOUS
<1>2. ops[1].block = o /\ ~ops[1].enters /\ ops[2].block = b /\ ops[2].enters
  BY DEF Enter, Leave
<1>3. TxSet(b) \subseteq Tx
  BY BodyAssumption, LenProperties, ElementOfSeq DEF TxSet
<1>4. Applied(hs, ops) = [t \in kept \union entered |->
                            IF t \in entered THEN Height(last(t).block) ELSE hs[t]]
  BY DEF Applied
<1> HIDE DEF ops
<1>5. \A t : Touching(ops, t) \in SUBSET (0 .. 2)
  BY <1>1 DEF Touching
<1>6. ASSUME NEW t, Touching(ops, t) # {}
      PROVE  /\ Max(Touching(ops, t)) \in Touching(ops, t)
             /\ \A y \in Touching(ops, t) : Max(Touching(ops, t)) >= y
  BY <1>5, <1>6, MaxOfNaturals
<1>7. ASSUME NEW t \in TxSet(b) PROVE Touching(ops, t) # {} /\ last(t) = ops[2]
  <2>1. 2 \in Touching(ops, t)
    BY <1>1, <1>2 DEF Touching
  <2>2. Max(Touching(ops, t)) = 2
    BY <1>5, <1>6, <2>1
  <2> QED BY <2>1, <2>2
<1>8. ASSUME NEW t, t \notin TxSet(b)
      PROVE  /\ Touching(ops, t) = {} <=> t \notin TxSet(o)
             /\ Touching(ops, t) # {} => last(t) = ops[1]
  <2>1. Touching(ops, t) \subseteq {1}
    BY <1>1, <1>2, <1>8 DEF Touching
  <2>2. 1 \in Touching(ops, t) <=> t \in TxSet(o)
    BY <1>1, <1>2 DEF Touching
  <2> QED BY <1>6, <2>1, <2>2
<1>9. entered = TxSet(b)
  BY <1>2, <1>3, <1>7, <1>8
<1>10. kept = DOMAIN hs \ (TxSet(o) \union TxSet(b))
  BY <1>7, <1>8
<1>11. \A t \in entered : Height(last(t).block) = Height(b)
  BY <1>2, <1>7, <1>9
<1> HIDE DEF entered, kept, last
<1> QED BY <1>4, <1>9, <1>10, <1>11 DEF ops

-----------------------------------------------------------------------------
(* The loops over the cache, one round at a time.                           *)

\* A map is a function.
IsMap(hs) == hs = [t \in DOMAIN hs |-> hs[t]]

\* No operation changes nothing.
LEMMA AppliedNone ==
    ASSUME NEW hs, IsMap(hs), NEW ops, DOMAIN ops = {}
    PROVE  Applied(hs, ops) = hs
<1>1. \A t : Touching(ops, t) = {}
  BY DEF Touching
<1> QED BY <1>1 DEF Applied, IsMap

\* The first n of a sequence of operations.
FirstOps(ops, n) == [x \in 1 .. n |-> ops[x]]

\* What one operation does to the map.
Done(hs, op) ==
    LET txs == TxSet(op.block)
    IN IF op.enters
       THEN [t \in DOMAIN hs \union txs |-> IF t \in txs THEN Height(op.block) ELSE hs[t]]
       ELSE [t \in DOMAIN hs \ txs |-> hs[t]]

\* One operation more is done to what the others have left.
LEMMA AppliedNext ==
    ASSUME NEW hs, NEW all, NEW n \in Nat,
           all[n + 1].enters => TxSet(all[n + 1].block) \subseteq Tx
    PROVE  Applied(hs, FirstOps(all, n + 1)) = Done(Applied(hs, FirstOps(all, n)), all[n + 1])
<1> DEFINE op   == all[n + 1]
           b    == op.block
           ops  == FirstOps(all, n)
           more == FirstOps(all, n + 1)
<1>1. /\ DOMAIN ops = 1 .. n /\ DOMAIN more = 1 .. n + 1
      /\ more[n + 1] = op /\ \A x \in 1 .. n : more[x] = ops[x]
      /\ op.block = b
  BY DEF FirstOps
<1>2. op.enters => TxSet(b) \subseteq Tx
  OBVIOUS
<1> HIDE DEF op, b, ops, more
<1> DEFINE last(o, t) == o[Max(Touching(o, t))]
           kept(o)    == {t \in DOMAIN hs : Touching(o, t) = {}}
           entered(o) == {t \in Tx : Touching(o, t) # {} /\ last(o, t).enters}
           val(o, t)  == IF t \in entered(o) THEN Height(last(o, t).block) ELSE hs[t]
<1>3. \A o : Applied(hs, o) = [t \in kept(o) \union entered(o) |-> val(o, t)]
  BY DEF Applied
<1>4. more[n + 1].block = b
  BY <1>1
<1>5. ASSUME NEW t \in TxSet(b)
      PROVE  Touching(more, t) # {} /\ last(more, t) = more[n + 1]
  <2>1. n + 1 \in Touching(more, t) /\ Touching(more, t) \in SUBSET (0 .. n + 1)
    BY <1>4, <1>1 DEF Touching
  <2>2. /\ Max(Touching(more, t)) \in Touching(more, t)
        /\ \A y \in Touching(more, t) : Max(Touching(more, t)) >= y
    <3>1. n + 1 \in Nat /\ Touching(more, t) # {}
      BY <2>1
    <3> QED BY <2>1, <3>1, MaxOfNaturals
  <2>3. Max(Touching(more, t)) = n + 1
    BY <2>1, <2>2
  <2> QED BY <2>1, <2>3
<1>6. ASSUME NEW t, t \notin TxSet(b)
      PROVE  /\ Touching(more, t) = Touching(ops, t)
             /\ Touching(ops, t) # {} => last(more, t) = last(ops, t)
  <2>1. \A x : x \in 1 .. n + 1 <=> x \in 1 .. n \/ x = n + 1
    OBVIOUS
  <2>2. Touching(more, t) = Touching(ops, t)
    BY <1>4, <1>6, <1>1, <2>1 DEF Touching
  <2>3. Touching(ops, t) \in SUBSET (0 .. n)
    BY <1>1 DEF Touching
  <2>4. ASSUME Touching(ops, t) # {} PROVE last(more, t) = last(ops, t)
    <3>1. Max(Touching(ops, t)) \in Touching(ops, t)
      BY <2>3, <2>4, MaxOfNaturals
    <3>2. Max(Touching(ops, t)) \in 1 .. n
      BY <1>1, <3>1 DEF Touching
    <3> QED BY <1>1, <2>2, <3>2
  <2> QED BY <2>2, <2>4
<1> HIDE DEF last
<1>7. \A t : t \notin TxSet(b) =>
         /\ t \in kept(more) <=> t \in kept(ops)
         /\ t \in entered(more) <=> t \in entered(ops)
         /\ val(more, t) = val(ops, t)
  <2> SUFFICES ASSUME NEW t, t \notin TxSet(b)
               PROVE  /\ t \in kept(more) <=> t \in kept(ops)
                      /\ t \in entered(more) <=> t \in entered(ops)
                      /\ val(more, t) = val(ops, t)
    OBVIOUS
  <2>1. (t \in kept(more) <=> t \in kept(ops))
        /\ (t \in entered(more) <=> t \in entered(ops))
    BY <1>6
  <2>2. t \in entered(ops) => last(more, t) = last(ops, t)
    BY <1>6
  <2> HIDE DEF entered
  <2> QED BY <2>1, <2>2
<1>8. \A t \in TxSet(b) : t \notin kept(more)
  BY <1>5
<1>9. ASSUME ~op.enters PROVE \A t \in TxSet(b) : t \notin entered(more)
  BY <1>1, <1>5, <1>9
<1>10. ASSUME op.enters
      PROVE  \A t \in TxSet(b) : t \in entered(more) /\ val(more, t) = Height(b)
  <2>1. \A t \in TxSet(b) : last(more, t).enters /\ last(more, t).block = b
    BY <1>1, <1>5, <1>10
  <2>2. TxSet(b) \subseteq Tx
    BY <1>2, <1>10
  <2>3. \A t \in TxSet(b) : t \in entered(more)
    BY <1>5, <2>1, <2>2
  <2> HIDE DEF entered
  <2> QED BY <2>1, <2>3
<1> HIDE DEF kept, entered, val
<1>11. DOMAIN Applied(hs, ops) = kept(ops) \union entered(ops)
      /\ \A t \in kept(ops) \union entered(ops) : Applied(hs, ops)[t] = val(ops, t)
  BY <1>3
<1>12. /\ DOMAIN Applied(hs, more) = kept(more) \union entered(more)
       /\ Applied(hs, more) = [t \in DOMAIN Applied(hs, more) |-> val(more, t)]
  BY <1>3
<1>13. CASE ~op.enters
  <2>1. DOMAIN Applied(hs, more) = DOMAIN Applied(hs, ops) \ TxSet(b)
    BY <1>7, <1>8, <1>9, <1>11, <1>12, <1>13
  <2>2. \A t \in DOMAIN Applied(hs, more) : val(more, t) = Applied(hs, ops)[t]
    BY <1>7, <1>11, <2>1
  <2>3. Done(Applied(hs, ops), op) =
           [t \in DOMAIN Applied(hs, ops) \ TxSet(b) |-> Applied(hs, ops)[t]]
    BY <1>1, <1>13 DEF Done
  <2> QED BY <1>12, <2>1, <2>2, <2>3 DEF op, ops, more
<1>14. CASE op.enters
  <2>1. DOMAIN Applied(hs, more) = DOMAIN Applied(hs, ops) \union TxSet(b)
    BY <1>7, <1>8, <1>10, <1>11, <1>12, <1>14
  <2>2. \A t \in DOMAIN Applied(hs, more) :
           val(more, t) = IF t \in TxSet(b) THEN Height(b) ELSE Applied(hs, ops)[t]
    BY <1>7, <1>10, <1>11, <1>14, <2>1
  <2>3. Done(Applied(hs, ops), op) =
           [t \in DOMAIN Applied(hs, ops) \union TxSet(b) |->
               IF t \in TxSet(b) THEN Height(b) ELSE Applied(hs, ops)[t]]
    BY <1>1, <1>14 DEF Done
  <2> QED BY <1>12, <2>1, <2>2, <2>3 DEF op, ops, more
<1> QED BY <1>13, <1>14

\* The queue after k rounds of update_txs_cache.
PartlyUpdated(q, blocks, m, k) ==
    LET A == Appends(q, blocks, m)
    IN [x \in 1 .. Len(q) + Min({k, A}) |->
            IF m + 1 - x \in A + 1 .. k THEN blocks[m + 1 - x]
            ELSE Extended(q, blocks, m)[x]]

\* The blocks that are appended, and the queue with them.
LEMMA ExtendedFacts ==
    ASSUME NEW q \in Seq(Block), q # << >>, NEW blocks \in Seq(Block), NEW m \in Nat
    PROVE  LET A == Appends(q, blocks, m)
               ext == Extended(q, blocks, m)
           IN /\ Len(q) \in Nat \ {0} /\ Len(blocks) \in Nat
              /\ A \in Nat /\ A <= Len(blocks) /\ A <= m
              /\ A > 0 => A <= (m - Len(q)) \div 2 /\ m > Len(q)
              /\ A < Len(blocks) /\ m > Len(q) => A = (m - Len(q)) \div 2
              /\ ext \in Seq(Block) /\ Len(ext) = Len(q) + A
              /\ \A x \in 1 .. Len(q) : ext[x] = q[x]
              /\ \A x \in 1 .. A : ext[Len(q) + x] = blocks[x]
<1> DEFINE A == Appends(q, blocks, m)
           half == (m - Len(q)) \div 2
<1>1. Len(q) \in Nat \ {0} /\ Len(blocks) \in Nat
  BY EmptySeq, LenProperties
<1>2. /\ A \in Nat /\ A <= Len(blocks) /\ A <= m
      /\ A > 0 => A <= half /\ m > Len(q)
      /\ A < Len(blocks) /\ m > Len(q) => A = half
  <2>1. CASE m > Len(q)
    <3>1. half \in Nat /\ half <= m
      BY <1>1, <2>1
    <3> HIDE DEF half
    <3>2. A = Min({Len(blocks), half})
      BY <2>1 DEF Appends, half
    <3> HIDE DEF A
    <3> QED BY <1>1, <2>1, <3>1, <3>2, MinOfTwo
  <2>2. CASE ~(m > Len(q))
    BY <1>1, <2>2 DEF Appends
  <2> QED BY <2>1, <2>2
<1> HIDE DEF A, half
<1>3. /\ SubSeq(blocks, 1, A) \in Seq(Block)
      /\ Len(SubSeq(blocks, 1, A)) = A
      /\ \A x \in 1 .. A : SubSeq(blocks, 1, A)[x] = blocks[x]
  <2>1. \A i \in 1 .. A : blocks[i] \in Block
    BY <1>1, <1>2, ElementOfSeq
  <2> QED BY <1>2, <2>1, SubSeqProperties
<1>4. Extended(q, blocks, m) = q \o SubSeq(blocks, 1, A)
  BY DEF Extended, A
<1> DEFINE s == SubSeq(blocks, 1, A)
<1> HIDE DEF s
<1>5. /\ q \o s \in Seq(Block) /\ Len(q \o s) = Len(q) + Len(s)
      /\ \A i \in 1 .. Len(q) + Len(s) : (q \o s)[i] = IF i <= Len(q) THEN q[i] ELSE s[i - Len(q)]
  <2>1. s \in Seq(Block)
    BY <1>3 DEF s
  <2> QED BY <2>1, ConcatProperties
<1>6. \A x \in 1 .. Len(q) : (q \o s)[x] = q[x]
  BY <1>1, <1>2, <1>3, <1>5 DEF s
<1>7. \A x \in 1 .. A : (q \o s)[Len(q) + x] = blocks[x]
  BY <1>1, <1>2, <1>3, <1>5 DEF s
<1>8. Len(q \o s) = Len(q) + A
  BY <1>3, <1>5 DEF s
<1> QED BY <1>1, <1>2, <1>4, <1>5, <1>6, <1>7, <1>8 DEF A, half, s

\* Before the first round the queue is the one the loop was given, after the
\* last it is UpdatedQueue.
LEMMA UpdateEnds ==
    ASSUME NEW q \in Seq(Block), q # << >>, NEW blocks \in Seq(Block), NEW m \in Nat
    PROVE  /\ PartlyUpdated(q, blocks, m, 0) = q
           /\ PartlyUpdated(q, blocks, m, Placed(blocks, m)) = UpdatedQueue(q, blocks, m)
           /\ Placed(blocks, m) \in Nat
           /\ Placed(blocks, m) <= Len(blocks) /\ Placed(blocks, m) <= m
           /\ Placed(blocks, m) = Len(blocks) \/ Placed(blocks, m) = m
<1> DEFINE A == Appends(q, blocks, m)
           ext == Extended(q, blocks, m)
           P == Placed(blocks, m)
<1>1. /\ Len(q) \in Nat \ {0} /\ Len(blocks) \in Nat
      /\ A \in Nat /\ A <= Len(blocks) /\ A <= m
      /\ Len(ext) = Len(q) + A
      /\ \A x \in 1 .. Len(q) : ext[x] = q[x]
  BY ExtendedFacts
<1>2. P \in Nat /\ P <= Len(blocks) /\ P <= m /\ (P = Len(blocks) \/ P = m)
  BY <1>1, MinOfTwo DEF Placed
<1> HIDE DEF A, ext, P
<1>3. Min({0, A}) = 0 /\ Min({P, A}) = A
  BY <1>1, <1>2, MinOfTwo
<1>4. \A k : PartlyUpdated(q, blocks, m, k) =
               [x \in 1 .. Len(q) + Min({k, A}) |->
                   IF m + 1 - x \in A + 1 .. k THEN blocks[m + 1 - x] ELSE ext[x]]
  BY DEF PartlyUpdated, A, ext
<1>5. PartlyUpdated(q, blocks, m, 0) = q
  <2>1. PartlyUpdated(q, blocks, m, 0) = [x \in 1 .. Len(q) |->
                   IF m + 1 - x \in A + 1 .. 0 THEN blocks[m + 1 - x] ELSE ext[x]]
    BY <1>1, <1>3, <1>4
  <2>2. \A x \in 1 .. Len(q) :
           (IF m + 1 - x \in A + 1 .. 0 THEN blocks[m + 1 - x] ELSE ext[x]) = q[x]
    BY <1>1
  <2>3. q = [x \in 1 .. Len(q) |-> q[x]]
    BY LenProperties
  <2> QED BY <2>1, <2>2, <2>3
<1>6. PartlyUpdated(q, blocks, m, P) = UpdatedQueue(q, blocks, m)
  <2>1. PartlyUpdated(q, blocks, m, P) = [x \in 1 .. Len(ext) |->
                   IF m + 1 - x \in A + 1 .. P THEN blocks[m + 1 - x] ELSE ext[x]]
    BY <1>1, <1>3, <1>4
  <2> QED BY <2>1 DEF UpdatedQueue, A, ext, P
<1> QED BY <1>2, <1>5, <1>6 DEF P

\* The next round puts block k + 1 at position p, counted from 0, of the queue,
\* or leaves it at the back when p is past it, and removes the block that was
\* there; just at the back, the block removes itself.
LEMMA UpdateRound ==
    ASSUME NEW q \in Seq(Block), q # << >>, NEW blocks \in Seq(Block), NEW m \in Nat,
           NEW k \in Nat, k < Len(blocks), k < m
    PROVE  LET p    == m - (k + 1)
               b    == blocks[k + 1]
               was  == PartlyUpdated(q, blocks, m, k)
               is   == PartlyUpdated(q, blocks, m, k + 1)
               out  == Replaced(q, blocks, m, k + 1)
           IN /\ was \in Seq(Block) /\ p \in Nat /\ b \in Block
              /\ p < Len(was) => is = [was EXCEPT ![p + 1] = b] /\ out = was[p + 1]
              /\ p = Len(was) => is = was /\ out = b
              /\ p > Len(was) => is = Append(was, b) /\ out = Genesis
<1> DEFINE A == Appends(q, blocks, m)
           ext == Extended(q, blocks, m)
           L == Len(q)
           p == m - (k + 1)
           b == blocks[k + 1]
           was == PartlyUpdated(q, blocks, m, k)
           is == PartlyUpdated(q, blocks, m, k + 1)
           out == Replaced(q, blocks, m, k + 1)
<1>1. /\ L \in Nat \ {0} /\ Len(blocks) \in Nat
      /\ A \in Nat /\ A <= Len(blocks) /\ A <= m
      /\ A > 0 => A <= (m - L) \div 2 /\ m > L
      /\ A < Len(blocks) /\ m > L => A = (m - L) \div 2
      /\ ext \in Seq(Block) /\ Len(ext) = L + A
      /\ \A x \in 1 .. A : ext[L + x] = blocks[x]
  BY ExtendedFacts
<1>2. p \in Nat /\ b \in Block
  BY <1>1, ElementOfSeq
<1>3. out = IF k + 1 <= A THEN Genesis
            ELSE IF m - k > L + A THEN b ELSE ext[m - k]
  <2>1. m + 1 - (k + 1) = m - k
    OBVIOUS
  <2> QED BY <1>1, <2>1 DEF Replaced
<1>4. \A x \in 1 .. L + A : ext[x] \in Block
  BY <1>1, ElementOfSeq
<1>5. \A j \in Nat : PartlyUpdated(q, blocks, m, j) =
               [x \in 1 .. L + Min({j, A}) |->
                   IF m + 1 - x \in A + 1 .. j THEN blocks[m + 1 - x] ELSE ext[x]]
  BY DEF PartlyUpdated
<1>6. \A x \in 1 .. Len(blocks) : blocks[x] \in Block
  BY ElementOfSeq
<1> HIDE DEF A, ext, L, was, is, out
<1>7. CASE k < A
  <2>1. Min({k, A}) = k /\ Min({k + 1, A}) = k + 1
    <3>1. k + 1 \in Nat /\ k <= A /\ k + 1 <= A
      BY <1>1, <1>7
    <3>2. Min({k, A}) = k
      BY <1>1, <3>1, MinOfTwo
    <3>3. Min({k + 1, A}) = k + 1
      <4> DEFINE y == k + 1
      <4>1. y \in Nat /\ y <= A
        BY <3>1
      <4> HIDE DEF y
      <4>2. Min({y, A}) \in Nat /\ Min({y, A}) <= y /\ (Min({y, A}) = y \/ Min({y, A}) = A)
        BY <1>1, <4>1, MinOfTwo
      <4>3. Min({y, A}) = y
        BY <1>1, <4>1, <4>2
      <4> QED BY <4>3 DEF y
    <3> QED BY <3>2, <3>3
  <2>2. was = [x \in 1 .. L + k |-> ext[x]]
    <3>1. was = [x \in 1 .. L + k |->
                   IF m + 1 - x \in A + 1 .. k THEN blocks[m + 1 - x] ELSE ext[x]]
      BY <1>5, <2>1 DEF was
    <3>2. \A y : y \notin A + 1 .. k
      BY <1>1, <1>7
    <3> QED BY <3>1, <3>2
  <2>3. is = [x \in 1 .. L + k + 1 |-> ext[x]]
    <3>1. is = [x \in 1 .. L + (k + 1) |->
                   IF m + 1 - x \in A + 1 .. k + 1 THEN blocks[m + 1 - x] ELSE ext[x]]
      <4>1. k + 1 \in Nat
        OBVIOUS
      <4> QED BY <1>5, <2>1, <4>1 DEF is
    <3>2. \A y : y \notin A + 1 .. k + 1
      BY <1>1, <1>7
    <3>3. L + (k + 1) = L + k + 1
      BY <1>1
    <3> QED BY <3>1, <3>2, <3>3
  <2>4. was \in Seq(Block) /\ Len(was) = L + k
    <3>1. \A x \in 1 .. L + k : ext[x] \in Block
      BY <1>1, <1>4, <1>7
    <3> QED BY <1>1, <2>2, <3>1
  <2>5. p > L + k
    BY <1>1, <1>7
  <2>6. is = Append(was, b)
    <3>1. ext[L + k + 1] = b
      <4>1. k + 1 \in 1 .. A /\ L + (k + 1) = L + k + 1
        BY <1>1, <1>7
      <4>2. ext[L + (k + 1)] = blocks[k + 1]
        BY ONLY <1>1, <4>1
      <4> QED BY ONLY <4>1, <4>2 DEF b
    <3> DEFINE z == L + k
    <3>2. /\ z \in Nat /\ b \in Block /\ was \in Seq(Block) /\ Len(was) = z
          /\ was = [x \in 1 .. z |-> ext[x]] /\ is = [x \in 1 .. z + 1 |-> ext[x]]
          /\ ext[z + 1] = b
      BY <1>1, <1>2, <2>2, <2>3, <2>4, <3>1
    <3> HIDE DEF z, b
    <3>3. /\ Append(was, b) \in Seq(Block) /\ Len(Append(was, b)) = z + 1
          /\ \A x \in 1 .. z : Append(was, b)[x] = ext[x]
          /\ Append(was, b)[z + 1] = ext[z + 1]
      BY ONLY <3>2, AppendProperties
    <3>4. Append(was, b) = [x \in 1 .. z + 1 |-> ext[x]]
      <4> DEFINE g == Append(was, b)
      <4>1. DOMAIN g = 1 .. z + 1 /\ g = [x \in DOMAIN g |-> g[x]]
        BY ONLY <3>3, LenProperties
      <4>2. \A x \in 1 .. z + 1 : x \in 1 .. z \/ x = z + 1
        BY ONLY <3>2
      <4>3. \A x \in 1 .. z + 1 : g[x] = ext[x]
        BY ONLY <3>3, <4>2
      <4> HIDE DEF g
      <4>4. g = [x \in 1 .. z + 1 |-> ext[x]]
        BY ONLY <4>1, <4>3, Zenon
      <4> QED BY <4>4 DEF g
    <3> QED BY ONLY <3>2, <3>4
  <2>7. out = Genesis
    BY <1>1, <1>3, <1>7
  <2> QED BY <1>1, <1>2, <2>4, <2>5, <2>6, <2>7 DEF was, is, out
<1>8. CASE k >= A
  <2>1. Min({k, A}) = A /\ Min({k + 1, A}) = A
    <3>1. k + 1 \in Nat /\ A <= k /\ A < k + 1
      BY <1>1, <1>8
    <3>2. Min({k, A}) = A
      BY <1>1, <3>1, MinOfTwo
    <3>3. Min({k + 1, A}) = A
      <4> DEFINE y == k + 1
      <4>1. y \in Nat /\ A < y
        BY <3>1
      <4> HIDE DEF y
      <4>2. Min({y, A}) \in Nat /\ Min({y, A}) <= A /\ (Min({y, A}) = y \/ Min({y, A}) = A)
        BY <1>1, <4>1, MinOfTwo
      <4>3. Min({y, A}) = A
        BY <1>1, <4>1, <4>2
      <4> QED BY <4>3 DEF y
    <3> QED BY <3>2, <3>3
  <2>2. p <= L + A
    <3>1. CASE m > L
      <4>1. A = (m - L) \div 2
        BY <1>1, <1>8, <3>1
      <4> QED BY <1>1, <1>8, <3>1, <4>1
    <3> QED BY <1>1, <1>8, <3>1
  <2>3. was = [x \in 1 .. L + A |->
                  IF m + 1 - x \in A + 1 .. k THEN blocks[m + 1 - x] ELSE ext[x]]
    BY <1>5, <2>1 DEF was
  <2>4. is = [x \in 1 .. L + A |->
                  IF m + 1 - x \in A + 1 .. k + 1 THEN blocks[m + 1 - x] ELSE ext[x]]
    <3>1. k + 1 \in Nat
      OBVIOUS
    <3> QED BY <1>5, <2>1, <3>1 DEF is
  <2>5. was \in Seq(Block) /\ Len(was) = L + A
    <3>1. \A x \in 1 .. L + A :
             (IF m + 1 - x \in A + 1 .. k THEN blocks[m + 1 - x] ELSE ext[x]) \in Block
      BY <1>1, <1>4, <1>6
    <3> QED BY <1>1, <2>3, <3>1
  <2>6. \A x \in 1 .. L + A : m + 1 - x \in A + 1 .. k + 1
           <=> m + 1 - x \in A + 1 .. k \/ x = m - k
    BY <1>1, <1>8
  <2>7. CASE p < L + A
    <3>1. p + 1 = m - k /\ m - k \in 1 .. L + A
      BY <1>1, <2>7
    <3>2. was[m - k] = ext[m - k]
      BY <1>1, <2>3, <3>1
    <3>3. out = ext[m - k]
      BY <1>1, <1>3, <1>8, <3>1
    <3>4. is = [was EXCEPT ![m - k] = b]
      <4>1. \A x \in 1 .. L + A : is[x] = IF x = m - k THEN b ELSE was[x]
        <5> SUFFICES ASSUME NEW x \in 1 .. L + A
                     PROVE  is[x] = IF x = m - k THEN b ELSE was[x]
          OBVIOUS
        <5>1. CASE x = m - k
          <6>1. m + 1 - x = k + 1 /\ k + 1 \in A + 1 .. k + 1
            BY <1>1, <1>8, <5>1
          <6> QED BY <2>4, <5>1, <6>1
        <5> QED BY <2>3, <2>4, <2>6, <5>1
      <4> QED BY <2>3, <2>4, <4>1
    <3> QED BY <1>2, <2>5, <2>7, <3>1, <3>2, <3>3, <3>4 DEF was, is, out
  <2>8. CASE p = L + A
    <3>1. is = was
      <4>1. \A x \in 1 .. L + A : x # m - k
        BY <1>1, <2>8
      <4> QED BY <2>3, <2>4, <2>6, <4>1
    <3>2. out = b
      BY <1>1, <1>3, <1>8, <2>8
    <3> QED BY <1>2, <2>5, <2>8, <3>1, <3>2, <1>1 DEF was, is, out
  <2> QED BY <1>1, <1>2, <2>2, <2>7, <2>8
<1> QED BY <1>1, <1>7, <1>8

\* update_txs_cache: block k leaves the place it goes to and then enters.
LEMMA UpdateOpsFacts ==
    ASSUME NEW q, NEW blocks, NEW m, NEW k \in Nat, Placed(blocks, m) \in Nat,
           k < Placed(blocks, m)
    PROVE  /\ UpdateOps(q, blocks, m)[2 * k + 1] = Leave(Replaced(q, blocks, m, k + 1))
           /\ UpdateOps(q, blocks, m)[2 * k + 2] = Enter(blocks[k + 1])
<1> DEFINE P == Placed(blocks, m)
<1>1. UpdateOps(q, blocks, m) =
           [x \in 1 .. 2 * P |-> IF x % 2 = 1
                THEN Leave(Replaced(q, blocks, m, (x + 1) \div 2))
                ELSE Enter(blocks[x \div 2])]
  BY DEF UpdateOps
<1> HIDE DEF P
<1>2. 2 * k + 1 \in 1 .. 2 * P /\ 2 * k + 2 \in 1 .. 2 * P
  BY DEF P
<1>3. (2 * k + 1) % 2 = 1 /\ ((2 * k + 1) + 1) \div 2 = k + 1
  OBVIOUS
<1>4. (2 * k + 2) % 2 # 1 /\ (2 * k + 2) \div 2 = k + 1
  OBVIOUS
<1> QED BY <1>1, <1>2, <1>3, <1>4

\* tx_cache_roll_back: the entries behind the first n leave, from the front,
\* and the blocks below `hash' enter, from the highest.
LEMMA RollBackOpsFacts ==
    ASSUME NEW q \in Seq(Block), NEW hash \in Block, NEW n \in 0 .. Len(q)
    PROVE  LET ops == RollBackOps(q, hash, n)
           IN /\ DOMAIN ops = 1 .. Len(q) /\ ops = [x \in DOMAIN ops |-> ops[x]]
              /\ \A x \in 1 .. Len(q) - n : ops[x] = Leave(q[n + x])
              /\ \A k \in 1 .. n :
                    ops[Len(q) - n + k] = Enter(RolledFront(hash, n)[n + 1 - k])
<1> DEFINE F == RolledFront(hash, n)
           d == Len(q) - n
           Op == {Leave(q[n + x]) : x \in 1 .. d} \union {Enter(F[n + 1 - i]) : i \in 1 .. n}
           out == [x \in 1 .. d |-> Leave(q[n + x])]
           in == [i \in 1 .. n |-> Enter(F[n + 1 - i])]
<1>1. Len(q) \in Nat /\ n \in Nat /\ n <= Len(q)
  BY LenProperties
<1>2. d \in Nat /\ d + n = Len(q)
  BY <1>1
<1>3. RollBackOps(q, hash, n) = out \o in
  BY DEF RollBackOps
<1> HIDE DEF F, d
<1>4. \A x \in 1 .. d : Leave(q[n + x]) \in Op
  OBVIOUS
<1>5. \A i \in 1 .. n : Enter(F[n + 1 - i]) \in Op
  OBVIOUS
<1> HIDE DEF Op
<1>6. out \in Seq(Op) /\ Len(out) = d
  BY <1>2, <1>4
<1>7. in \in Seq(Op) /\ Len(in) = n
  BY <1>1, <1>5
<1>8. \A x \in 1 .. d : out[x] = Leave(q[n + x])
  OBVIOUS
<1>9. \A i \in 1 .. n : in[i] = Enter(F[n + 1 - i])
  OBVIOUS
<1> HIDE DEF out, in
<1>10. /\ out \o in \in Seq(Op) /\ Len(out \o in) = Len(out) + Len(in)
       /\ \A i \in 1 .. Len(out) + Len(in) :
             (out \o in)[i] = IF i <= Len(out) THEN out[i] ELSE in[i - Len(out)]
  BY <1>6, <1>7, ConcatProperties
<1>11. /\ DOMAIN (out \o in) = 1 .. Len(q)
       /\ out \o in = [x \in DOMAIN (out \o in) |-> (out \o in)[x]]
  BY <1>2, <1>6, <1>7, <1>10, LenProperties
<1>12. \A x \in 1 .. d : (out \o in)[x] = Leave(q[n + x])
  BY <1>1, <1>2, <1>6, <1>7, <1>8, <1>10
<1>13. \A k \in 1 .. n : (out \o in)[d + k] = Enter(F[n + 1 - k])
  <2> SUFFICES ASSUME NEW k \in 1 .. n PROVE (out \o in)[d + k] = Enter(F[n + 1 - k])
    OBVIOUS
  <2>1. d + k \in 1 .. d + n /\ ~(d + k <= d) /\ (d + k) - d = k
    BY <1>1, <1>2
  <2> QED BY <1>6, <1>7, <1>9, <1>10, <2>1
<1> QED BY <1>3, <1>11, <1>12, <1>13 DEF d, F

\* The walk down from `hash': the next block is the parent of the last one, or
\* genesis again.
LEMMA PushRound ==
    ASSUME NEW hash \in Block, NEW k \in Nat
    PROVE  LET above == IF k = 0 THEN hash ELSE RolledFront(hash, k)[1]
               b     == IF Height(above) # 0 THEN Parent(above) ELSE above
           IN /\ RolledFront(hash, k) \in Seq(Block) /\ Len(RolledFront(hash, k)) = k
              /\ b \in Block
              /\ RolledFront(hash, k + 1) = <<b>> \o RolledFront(hash, k)
              /\ \A n \in Nat : n > k => RolledFront(hash, n)[n + 1 - (k + 1)] = b
<1> DEFINE H == Height(hash)
           At(d) == Anc(hash, IF d < H THEN H - d ELSE 0)
           F(n) == RolledFront(hash, n)
           above == IF k = 0 THEN hash ELSE F(k)[1]
           b == IF Height(above) # 0 THEN Parent(above) ELSE above
<1>1. H \in Nat /\ Anc(hash, H) = hash /\ Anc(hash, 0) = Genesis
      /\ (H = 0 <=> hash = Genesis)
  BY PathFacts
<1>2. \A n \in Nat : F(n) = [i \in 1 .. n |-> At(n + 1 - i)]
  BY DEF RolledFront
<1>3. \A d \in Nat : At(d) \in Block
  <2> SUFFICES ASSUME NEW d \in Nat PROVE At(d) \in Block
    OBVIOUS
  <2>1. (IF d < H THEN H - d ELSE 0) \in 0 .. H
    BY <1>1
  <2> QED BY <2>1, AncestorFacts
<1>4. At(0) = hash
  BY <1>1
<1> HIDE DEF F
<1>5. above = At(k)
  <2>1. CASE k = 0
    BY <1>4, <2>1
  <2>2. CASE k # 0
    <3>1. 1 \in 1 .. k /\ k + 1 - 1 = k
      BY <2>2
    <3>2. F(k)[1] = At(k)
      BY <1>2, <3>1
    <3> QED BY <2>2, <3>2
  <2> QED BY <2>1, <2>2
<1>6. b = At(k + 1)
  <2>1. CASE k < H
    <3> DEFINE h == H - k
    <3>1. h \in Nat \ {0} /\ h \in 0 .. H /\ h - 1 \in 0 .. h
      BY <1>1, <2>1
    <3>2. above = Anc(hash, h)
      BY <1>5, <2>1
    <3> HIDE DEF h, above
    <3>3. Height(above) = h /\ \A j \in 0 .. h : Anc(above, j) = Anc(hash, j)
      BY <3>1, <3>2, AncestorFacts
    <3>4. b = Anc(hash, h - 1)
      BY <3>1, <3>3 DEF Parent
    <3>5. At(k + 1) = Anc(hash, h - 1)
      BY <1>1, <2>1 DEF h
    <3> QED BY <3>4, <3>5
  <2>2. CASE ~(k < H)
    <3>1. above = Genesis /\ At(k + 1) = Genesis
      BY <1>1, <1>5, <2>2
    <3>2. Height(Genesis) = 0
      BY PathFacts, BlockAssumption
    <3> HIDE DEF above
    <3> QED BY <3>1, <3>2
  <2> QED BY <2>1, <2>2
<1> HIDE DEF above, b, At
<1>7. \A n \in Nat : F(n) \in Seq(Block) /\ Len(F(n)) = n
  <2> SUFFICES ASSUME NEW n \in Nat PROVE F(n) \in Seq(Block) /\ Len(F(n)) = n
    OBVIOUS
  <2>1. \A i \in 1 .. n : n + 1 - i \in Nat
    OBVIOUS
  <2>2. \A i \in 1 .. n : At(n + 1 - i) \in Block
    BY <1>3, <2>1
  <2> QED BY <1>2, <2>2
<1>8. b \in Block
  BY <1>3, <1>6
<1>9. F(k + 1) = <<b>> \o F(k)
  <2>1. k + 1 \in Nat /\ <<b>> \in Seq(Block) /\ Len(<<b>>) = 1 /\ <<b>>[1] = b
    BY <1>8
  <2> DEFINE s == <<b>>
             t == F(k)
             u == F(k + 1)
  <2>2. s \in Seq(Block) /\ Len(s) = 1 /\ s[1] = b
    BY <2>1
  <2>3. t \in Seq(Block) /\ Len(t) = k /\ \A i \in 1 .. k : t[i] = At(k + 1 - i)
    BY <1>2, <1>7
  <2>4. u \in Seq(Block) /\ Len(u) = k + 1 /\ \A i \in 1 .. k + 1 : u[i] = At((k + 1) + 1 - i)
    BY <1>2, <1>7, <2>1
  <2> HIDE DEF s, t, u
  <2>5. /\ s \o t \in Seq(Block) /\ Len(s \o t) = 1 + k
        /\ \A i \in 1 .. 1 + k : (s \o t)[i] = IF i <= 1 THEN s[i] ELSE t[i - 1]
    <3>1. s \in Seq(Block) /\ t \in Seq(Block) /\ Len(s) = 1 /\ Len(t) = k
      BY ONLY <2>2, <2>3
    <3>2. /\ s \o t \in Seq(Block) /\ Len(s \o t) = Len(s) + Len(t)
          /\ \A i \in 1 .. Len(s) + Len(t) :
                (s \o t)[i] = IF i <= Len(s) THEN s[i] ELSE t[i - Len(s)]
      BY ONLY <3>1, ConcatProperties
    <3> QED BY ONLY <3>1, <3>2
  <2>6. ASSUME NEW i \in 1 .. k + 1 PROVE u[i] = (s \o t)[i]
    <3>1. CASE i = 1
      <4>1. (k + 1) + 1 - i = k + 1
        BY ONLY <3>1, k \in Nat
      <4>2. u[i] = b
        BY <1>6, <2>4, <4>1
      <4>3. (s \o t)[i] = b
        BY <2>2, <2>5, <3>1
      <4> QED BY <4>2, <4>3
    <3>2. CASE i # 1
      <4>1. i - 1 \in 1 .. k /\ (k + 1) + 1 - i = k + 1 - (i - 1) /\ ~(i <= 1)
        BY <3>2
      <4>2. u[i] = At(k + 1 - (i - 1))
        BY <2>4, <4>1
      <4>3. (s \o t)[i] = t[i - 1]
        <5>1. i \in 1 .. 1 + k
          OBVIOUS
        <5> QED BY <2>5, <4>1, <5>1
      <4> QED BY <2>3, <4>1, <4>2, <4>3
    <3> QED BY <3>1, <3>2
  <2>7. u = s \o t
    <3>1. Len(u) = Len(s \o t) /\ \A i \in 1 .. Len(u) : u[i] = (s \o t)[i]
      BY <2>4, <2>5, <2>6
    <3>2. u \in Seq(Block) /\ s \o t \in Seq(Block)
      BY <2>4, <2>5
    <3> QED BY ONLY <3>1, <3>2, SeqEqual
  <2> QED BY <2>7 DEF s, t, u
<1>10. ASSUME NEW n \in Nat, n > k PROVE F(n)[n + 1 - (k + 1)] = b
  <2>1. n + 1 - (k + 1) \in 1 .. n /\ n + 1 - (n + 1 - (k + 1)) = k + 1
    BY <1>10
  <2>2. F(n)[n + 1 - (k + 1)] = At(n + 1 - (n + 1 - (k + 1)))
    BY <1>2, <2>1
  <2> QED BY <1>6, <2>1, <2>2
<1> QED BY <1>7, <1>8, <1>9, <1>10 DEF F, above, b

-----------------------------------------------------------------------------
(* What the window answers after reorganisations of any depth.  A fork of     *)
(* several blocks goes into the queue in the order of the walk, its highest    *)
(* block last: from then on entries stand lower or higher in the queue than    *)
(* their heights say.  None of them is ever found at its height unless it is   *)
(* on the best chain.                                                          *)

\* The blocks of b's path above height c, as get_fork_chain finds them: downwards
\* from the parent of b, then b itself.
ForkBlocks(b, c) ==
    [j \in 1 .. Height(b) - c |-> IF j = Height(b) - c THEN b ELSE Anc(b, Height(b) - j)]

\* How much lower entry x of q is than its place says when b is the tip.
Lag(q, x, b) == Height(b) - (Len(q) - x) - Height(q[x])

\* The back is b or one below it, and no entry that may be found is off b's path.
Truthful(q, b) ==
    /\ Lag(q, Len(q), b) \in {0, 1}
    /\ \A x \in DOMAIN q : Lag(q, x, b) \in {0, 1} => q[x] \in Path(b)

\* What a truthful queue has at the height of a block is not that block, unless it
\* is on the path.
LEMMA TruthfulAnswers ==
    ASSUME NEW q \in Seq(Block), q # << >>, NEW b \in Block, Truthful(q, b),
           NEW c \in Block, Cached(q, Height(c)), BlockInfo(q, Height(c)) = c
    PROVE  c \in Path(b)
<1> DEFINE x == Len(q) - (BestHeight(q) - Height(c))
<1>1. Len(q) \in Nat \ {0} /\ DOMAIN q = 1 .. Len(q) /\ q[Len(q)] \in Block
  BY EmptySeq, LenProperties, ElementOfSeq
<1>2. Height(c) \in Nat /\ Height(b) \in Nat /\ BestHeight(q) \in Nat
  BY <1>1, PathFacts DEF BestHeight
<1>3. x \in 1 .. Len(q) /\ q[x] = c
  BY <1>1, <1>2 DEF Cached, BlockInfo
<1>4. Lag(q, Len(q), b) = Height(b) - BestHeight(q)
  BY <1>1, <1>2 DEF Lag, BestHeight
<1>5. Lag(q, x, b) = Height(b) - (Len(q) - x) - Height(c)
  BY <1>3 DEF Lag
<1>6. Height(b) - (Len(q) - x) - Height(c) = Height(b) - BestHeight(q)
  BY <1>1, <1>2
<1> HIDE DEF x
<1> QED BY <1>1, <1>3, <1>4, <1>5, <1>6 DEF Truthful

\* Where the entries are when the front has gone to the back.
LEMMA ShiftedEntries ==
    ASSUME NEW q \in Seq(Block), q # << >>
    PROVE  /\ LeftShift(q) \in Seq(Block) /\ Len(LeftShift(q)) = Len(q)
           /\ \A x \in 1 .. Len(q) :
                 LeftShift(q)[x] = IF x = Len(q) THEN q[1] ELSE q[x + 1]
<1> DEFINE t == Tail(q)
           e == <<Head(q)>>
<1>1. Len(q) \in Nat \ {0}
  BY EmptySeq, LenProperties
<1>2. t \in Seq(Block) /\ Len(t) = Len(q) - 1 /\ \A x \in 1 .. Len(t) : t[x] = q[x + 1]
  BY HeadTailProperties
<1>3. e \in Seq(Block) /\ Len(e) = 1 /\ e[1] = q[1]
  BY HeadTailProperties
<1>4. LeftShift(q) = t \o e
  BY DEF LeftShift
<1> HIDE DEF t, e
<1>5. /\ t \o e \in Seq(Block) /\ Len(t \o e) = Len(t) + Len(e)
      /\ \A x \in 1 .. Len(t) + Len(e) :
            (t \o e)[x] = IF x <= Len(t) THEN t[x] ELSE e[x - Len(t)]
  BY ONLY <1>2, <1>3, ConcatProperties
<1>6. ASSUME NEW x \in 1 .. Len(q)
      PROVE  (t \o e)[x] = IF x = Len(q) THEN q[1] ELSE q[x + 1]
  BY <1>1, <1>2, <1>3, <1>5
<1> QED BY <1>1, <1>2, <1>3, <1>4, <1>5, <1>6

\* When the queue is as long as it should be, it stays so and nothing is appended.
LEMMA UpdatedInPlace ==
    ASSUME NEW q \in Seq(Block), q # << >>, NEW blocks \in Seq(Block)
    PROVE  /\ Len(UpdatedQueue(q, blocks, Len(q))) = Len(q)
           /\ \A x \in 1 .. Len(q) :
                 UpdatedQueue(q, blocks, Len(q))[x] =
                    IF Len(q) + 1 - x <= Len(blocks) THEN blocks[Len(q) + 1 - x] ELSE q[x]
<1> DEFINE n == Len(q)
<1>1. n \in Nat \ {0} /\ Len(blocks) \in Nat
  BY EmptySeq, LenProperties
<1> HIDE DEF n
<1>2. Appends(q, blocks, n) = 0
  BY <1>1 DEF Appends, n
<1>3. Extended(q, blocks, n) = q
  <2>1. SubSeq(blocks, 1, 0) = << >>
    BY SubSeqEmpty
  <2>2. q \o << >> = q
    BY ConcatEmptySeq
  <2> QED BY <1>2, <2>1, <2>2 DEF Extended
<1>4. UpdatedQueue(q, blocks, n) = [x \in 1 .. n |->
         IF n + 1 - x \in 0 + 1 .. Placed(blocks, n) THEN blocks[n + 1 - x] ELSE q[x]]
  BY <1>2, <1>3, Zenon DEF UpdatedQueue, n
<1>5. /\ Placed(blocks, n) \in Nat
      /\ Placed(blocks, n) = Len(blocks) \/ Placed(blocks, n) = n
      /\ Placed(blocks, n) <= Len(blocks) /\ Placed(blocks, n) <= n
  BY <1>1, MinOfTwo DEF Placed
<1>6. ASSUME NEW x \in 1 .. n
      PROVE  UpdatedQueue(q, blocks, n)[x] =
                IF n + 1 - x <= Len(blocks) THEN blocks[n + 1 - x] ELSE q[x]
  <2>1. n + 1 - x \in 0 + 1 .. Placed(blocks, n) <=> n + 1 - x <= Len(blocks)
    BY <1>1, <1>5
  <2> QED BY <1>4, <2>1
<1>7. Len(UpdatedQueue(q, blocks, n)) = n
  <2> DEFINE f(x) == IF n + 1 - x \in 0 + 1 .. Placed(blocks, n)
                     THEN blocks[n + 1 - x] ELSE q[x]
  <2>1. UpdatedQueue(q, blocks, n) = [x \in 1 .. n |-> f(x)]
    BY <1>4
  <2> HIDE DEF f
  <2> QED BY <1>1, <2>1
<1> QED BY <1>6, <1>7 DEF n

\* The fork, each block at its height.
LEMMA ForkBlocksFacts ==
    ASSUME NEW b \in Block, b # Genesis, NEW c \in 0 .. Height(b) - 1
    PROVE  /\ Height(b) \in Nat \ {0} /\ Height(b) - c \in Nat \ {0}
           /\ ForkBlocks(b, c) \in Seq(Block) /\ Len(ForkBlocks(b, c)) = Height(b) - c
           /\ \A j \in 1 .. Height(b) - c :
                 /\ ForkBlocks(b, c)[j] =
                       IF j = Height(b) - c THEN b ELSE Anc(b, Height(b) - j)
                 /\ ForkBlocks(b, c)[j] \in Path(b)
                 /\ Height(ForkBlocks(b, c)[j]) =
                       IF j = Height(b) - c THEN Height(b) ELSE Height(b) - j
<1> DEFINE n == Height(b) - c
           f(j) == IF j = n THEN b ELSE Anc(b, Height(b) - j)
<1>1. Height(b) \in Nat \ {0} /\ n \in Nat \ {0} /\ n <= Height(b) /\ Path(b) \subseteq Block
  BY PathFacts
<1>2. ForkBlocks(b, c) = [j \in 1 .. n |-> f(j)]
  BY DEF ForkBlocks
<1> HIDE DEF n
<1>3. ASSUME NEW j \in 1 .. n
      PROVE  /\ f(j) \in Path(b) /\ f(j) \in Block
             /\ Height(f(j)) = IF j = n THEN Height(b) ELSE Height(b) - j
  <2>1. CASE j = n
    BY <1>1, <2>1, PathFacts
  <2>2. CASE j # n
    <3>1. Height(b) - j \in 0 .. Height(b)
      BY <1>1
    <3>2. Anc(b, Height(b) - j) \in Path(b)
      BY <3>1 DEF Path
    <3> QED BY <1>1, <2>2, <3>1, <3>2, AncestorFacts
  <2> QED BY <2>1, <2>2
<1>4. \A j \in 1 .. n : ForkBlocks(b, c)[j] = f(j)
  BY <1>2
<1>5. ForkBlocks(b, c) \in Seq(Block) /\ Len(ForkBlocks(b, c)) = n
  <2>1. \A j \in 1 .. n : f(j) \in Block
    BY <1>3
  <2> HIDE DEF f
  <2> QED BY <1>1, <1>2, <2>1
<1> QED BY <1>1, <1>3, <1>4, <1>5 DEF n

\* What b's path has in common with the path it leaves.
LEMMA CommonPath ==
    ASSUME NEW old \in Block, NEW b \in Block, NEW c \in 0 .. Height(b),
           Anc(b, c) \in Path(old)
    PROVE  /\ Height(old) \in Nat /\ c \in 0 .. Height(old)
           /\ \A k \in 0 .. c : Anc(old, k) = Anc(b, k)
<1>1. PICK j \in 0 .. Height(old) : Anc(b, c) = Anc(old, j)
  BY DEF Path
<1>2. j = c /\ Height(old) \in Nat
  BY <1>1, AncestorFacts
<1> QED BY <1>1, <1>2, AncestorFacts

\* A fork of any depth leaves the queue truthful: an entry that it does not replace
\* lags as it did, and one that may still be found is below the fork.
LEMMA TruthfulAfterFork ==
    ASSUME NEW q \in Seq(Block), q # << >>, NEW old \in Block, Truthful(q, old),
           NEW b \in Block, b # Genesis, Height(b) \in {Height(old), Height(old) + 1},
           NEW c \in 0 .. Height(b) - 1, Anc(b, c) \in Path(old)
    PROVE  LET p == IF Height(old) < Height(b) THEN LeftShift(q) ELSE q
           IN /\ Truthful(UpdatedQueue(p, ForkBlocks(b, c), Len(q)), b)
              /\ Len(UpdatedQueue(p, ForkBlocks(b, c), Len(q))) = Len(q)
<1> DEFINE p == IF Height(old) < Height(b) THEN LeftShift(q) ELSE q
           fork == ForkBlocks(b, c)
           n == Len(q)
           new == UpdatedQueue(p, fork, n)
           f == Height(b) - c
<1>1. n \in Nat \ {0} /\ DOMAIN q = 1 .. n
  BY EmptySeq, LenProperties
<1>2. /\ Height(b) \in Nat \ {0} /\ f \in Nat \ {0} /\ c \in Nat
      /\ fork \in Seq(Block) /\ Len(fork) = f
      /\ \A j \in 1 .. f : /\ fork[j] \in Path(b)
                           /\ Height(fork[j]) = IF j = f THEN Height(b) ELSE Height(b) - j
  BY ForkBlocksFacts
<1>3. Height(old) \in Nat /\ c \in 0 .. Height(old) /\ \A k \in 0 .. c : Anc(old, k) = Anc(b, k)
  <2>1. c \in 0 .. Height(b)
    BY <1>2
  <2> QED BY <2>1, CommonPath
<1>4. /\ p \in Seq(Block) /\ Len(p) = n /\ p # << >>
      /\ \A x \in 1 .. n - 1 :
            p[x] = IF Height(old) < Height(b) THEN q[x + 1] ELSE q[x]
  BY <1>1, ShiftedEntries, EmptySeq
<1> HIDE DEF p, fork, n
<1>5. /\ Len(new) = n
      /\ \A x \in 1 .. n : new[x] = IF n + 1 - x <= f THEN fork[n + 1 - x] ELSE p[x]
  <2>1. /\ p \in Seq(Block) /\ p # << >> /\ fork \in Seq(Block)
        /\ Len(p) = n /\ Len(fork) = f
    BY <1>2, <1>4
  <2> HIDE DEF f
  <2>2. /\ Len(UpdatedQueue(p, fork, Len(p))) = Len(p)
        /\ \A x \in 1 .. Len(p) :
              UpdatedQueue(p, fork, Len(p))[x]
                 = IF Len(p) + 1 - x <= Len(fork) THEN fork[Len(p) + 1 - x] ELSE p[x]
    BY ONLY <2>1, UpdatedInPlace
  <2> QED BY ONLY <2>1, <2>2
<1>6. DOMAIN new = 1 .. n
  <2>1. \E S : new \in Seq(S)
    <3>1. Block \in SUBSET Block /\ n \in Nat
      BY <1>1
    <3> QED BY <1>2, <1>4, <3>1, UpdatedQueueType
  <2> HIDE DEF new
  <2> QED BY <1>5, <2>1, LenProperties
<1> HIDE DEF new, f
\* An entry that stays lags as it did.
<1>7. ASSUME NEW x \in 1 .. n, ~(n + 1 - x <= f)
      PROVE  \E y \in 1 .. n : new[x] = q[y] /\ Lag(new, x, b) = Lag(q, y, old)
  <2>1. x \in 1 .. n - 1 /\ new[x] = p[x]
    BY <1>1, <1>2, <1>5, <1>7
  <2>2. CASE Height(old) < Height(b)
    <3>1. x + 1 \in 1 .. n /\ new[x] = q[x + 1] /\ Height(b) = Height(old) + 1
      BY <1>1, <1>3, <1>4, <2>1, <2>2
    <3>2. Height(q[x + 1]) \in Int
      BY <3>1, <1>1, ElementOfSeq, PathFacts DEF n
    <3>3. Lag(new, x, b) = Lag(q, x + 1, old)
      BY <1>1, <1>3, <1>5, <3>1, <3>2 DEF Lag, n
    <3> QED BY <3>1, <3>3
  <2>3. CASE ~(Height(old) < Height(b))
    <3>1. new[x] = q[x] /\ Height(b) = Height(old)
      BY <1>2, <1>3, <1>4, <2>1, <2>3
    <3>2. Lag(new, x, b) = Lag(q, x, old)
      BY <1>5, <3>1 DEF Lag, n
    <3> QED BY <3>1, <3>2
  <2> QED BY <2>2, <2>3
\* Such an entry is below the fork when it may be found.
<1>8. ASSUME NEW x \in 1 .. n, ~(n + 1 - x <= f), Lag(new, x, b) \in {0, 1}
      PROVE  new[x] \in Path(b)
  <2>1. PICK y \in 1 .. n : new[x] = q[y] /\ Lag(new, x, b) = Lag(q, y, old)
    BY <1>7, <1>8
  <2>2. q[y] \in Path(old) /\ q[y] \in Block
    BY <1>1, <1>8, <2>1, ElementOfSeq DEF Truthful, n
  <2>3. PICK k \in 0 .. Height(old) : q[y] = Anc(old, k)
    BY <2>2 DEF Path
  <2>4. Height(q[y]) = k
    BY <2>3, AncestorFacts
  <2>5. Lag(new, x, b) = Height(b) - (n - x) - k
    BY <1>5, <2>1, <2>4 DEF Lag
  <2>6. k \in 0 .. c
    BY <1>1, <1>2, <1>3, <1>8, <2>5 DEF f
  <2>7. Anc(b, k) \in Path(b)
    BY <1>2, <2>6 DEF Path
  <2> QED BY <1>3, <2>1, <2>3, <2>6, <2>7
<1>9. ASSUME NEW x \in 1 .. n, n + 1 - x <= f PROVE new[x] \in Path(b)
  BY <1>1, <1>2, <1>5, <1>9
\* The back is b, when it is all of the fork, else its parent.
<1>10. Lag(new, n, b) \in {0, 1}
  <2>1. n \in 1 .. n /\ n + 1 - n = 1
    BY <1>1
  <2>2. new[n] = fork[1] /\ 1 \in 1 .. f
    BY <1>2, <1>5, <2>1
  <2>3. Height(new[n]) = IF 1 = f THEN Height(b) ELSE Height(b) - 1
    BY <1>2, <2>2
  <2>4. Lag(new, n, b) = Height(b) - (n - n) - Height(new[n])
    BY <1>5 DEF Lag
  <2> QED BY <1>1, <1>2, <2>3, <2>4
<1>11. Truthful(new, b)
  BY <1>5, <1>6, <1>8, <1>9, <1>10 DEF Truthful
<1> QED BY <1>5, <1>11 DEF new, n, p, fork

=============================================================================
