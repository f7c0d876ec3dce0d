------------------------- MODULE ChainStore_proofs -------------------------
(***************************************************************************)
(* What holds of the chain store for every tree of blocks, every body and  *)
(* every choice of its parameters, with restarts, failing switches and     *)
(* threads that panic; and what holds besides when no reorganisation is    *)
(* deeper than one block.                                                  *)
(***************************************************************************)
EXTENDS ChainStore, HashCacheLoop, BlockTreeFacts, FiniteSetTheorems

-----------------------------------------------------------------------------
(* The inductive invariant.  What is said of the store depends on the queue, *)
(* since block_hash_by_number asks the queue first: what the queue holds     *)
(* must be verified, and it must hold something.  What is said of a restart  *)
(* depends on the start: a node whose tip is genesis has no other block.     *)

QueueInUse == up => queue # << >>

AtStart == tip = Genesis => known = {Genesis}

MissingFinite == IsFiniteSet(known \ onDisk.bodies)

IInv ==
    /\ TypeOK
    /\ StoreClosed
    /\ VerifiedClosed
    /\ BestChainVerified
    /\ IndexEndsInTip
    /\ QueueInUse
    /\ AtStart
    /\ DiskFollows
    /\ MissingFinite

\* Genesis is verified, and the tip and its height are well typed.
LEMMA TipFacts ==
    ASSUME IInv
    PROVE  /\ Genesis \in verified /\ tip \in verified /\ tip \in known
           /\ CurrentHeight \in Nat
           /\ verified \subseteq Block /\ known \subseteq Block
<1>1. tip \in Block /\ tip \in verified /\ verified \subseteq Block /\ known \subseteq Block
  BY DEF IInv, TypeOK, BestChainVerified
<1>2. Genesis \in Path(tip) /\ Path(tip) \subseteq verified
  BY <1>1, PathFacts DEF IInv, VerifiedClosed
<1>3. CurrentHeight \in Nat
  BY <1>1, PathFacts DEF CurrentHeight
<1> QED BY <1>1, <1>2, <1>3 DEF IInv, VerifiedClosed

\* A block found on the best chain is verified.
LEMMA OnBestChainVerified ==
    ASSUME IInv, up, NEW x, NEW k \in Nat, OnBestChain(x, k)
    PROVE  x \in verified
<1>1. CASE Cached(queue, k)
  <2>1. queue \in Seq(Block) /\ queue # << >>
    BY DEF IInv, TypeOK, QueueInUse
  <2>2. Len(queue) \in Nat \ {0} /\ DOMAIN queue = 1 .. Len(queue)
    BY <2>1, EmptySeq, LenProperties
  <2>3. BestHeight(queue) \in Nat
    BY <2>1, <2>2, ElementOfSeq, PathFacts DEF BestHeight
  <2>4. Len(queue) - (BestHeight(queue) - k) \in 1 .. Len(queue)
    BY <1>1, <2>2, <2>3 DEF Cached
  <2>5. x = queue[Len(queue) - (BestHeight(queue) - k)]
    BY <1>1 DEF OnBestChain, BlockHashByNumber, BlockInfo
  <2> QED BY <2>2, <2>4, <2>5 DEF IInv, BestChainVerified
<1>2. CASE ~Cached(queue, k)
  BY <1>2 DEF OnBestChain, BlockHashByNumber, IInv, BestChainVerified
<1> QED BY <1>1, <1>2

\* The walk down from a block stops on its path, at genesis or at a verified
\* block; the blocks above the stop are where the walk went.
LEMMA ForkPointFacts ==
    ASSUME IInv, up, NEW x \in Block
    PROVE  /\ ForkPoint(x) \in 0 .. Height(x)
           /\ Anc(x, ForkPoint(x)) \in verified
<1> DEFINE S == {k \in 0 .. Height(x) : k = 0 \/ OnBestChain(Anc(x, k), k)}
<1>1. Height(x) \in Nat /\ Anc(x, 0) = Genesis
  BY PathFacts
<1>2. S \in SUBSET (0 .. Height(x)) /\ 0 \in S
  BY <1>1
<1>3. Max(S) \in S
  BY <1>1, <1>2, MaxOfNaturals
<1>4. ForkPoint(x) \in S
  BY <1>3 DEF ForkPoint
<1>5. CASE ForkPoint(x) = 0
  BY <1>1, <1>5, TipFacts
<1>6. CASE OnBestChain(Anc(x, ForkPoint(x)), ForkPoint(x))
  BY <1>1, <1>4, <1>6, OnBestChainVerified
<1> QED BY <1>4, <1>5, <1>6

\* A fork that is short is verified from its tip down to the best chain, so its
\* tip is verified.
LEMMA ShortForkVerified ==
    ASSUME IInv, up, NEW x \in Block, ShortFork(x)
    PROVE  x \in verified
<1>1. /\ ForkPoint(x) \in 0 .. Height(x)
      /\ Anc(x, ForkPoint(x)) \in verified
      /\ Height(x) \in Nat /\ Anc(x, Height(x)) = x
  BY ForkPointFacts, PathFacts
<1>2. CASE ForkPoint(x) = Height(x)
  BY <1>1, <1>2
<1>3. CASE ForkPoint(x) # Height(x)
  <2>1. Height(x) \in ForkPoint(x) + 1 .. Height(x)
    BY <1>1, <1>3
  <2> QED BY <1>1, <2>1 DEF ShortFork
<1> QED BY <1>2, <1>3

-----------------------------------------------------------------------------
(* The index and the transaction index.                                    *)

\* Writing the path of the new tip above the fork point keeps the index
\* complete, and its entries verified and at their own heights.
LEMMA NumberAlongType ==
    ASSUME IInv, NEW b \in Block, Adopts(b),
           NEW a \in 0 .. Height(b), a < Height(b),
           NEW V \in SUBSET Block, verified \subseteq V,
           \A k \in a + 1 .. Height(b) : Anc(b, k) \in V
    PROVE  /\ NumberAlong(b, a) \in [0 .. Height(b) -> Block]
           /\ \A k \in 0 .. Height(b) : /\ NumberAlong(b, a)[k] \in V
                                         /\ Height(NumberAlong(b, a)[k]) = k
           /\ NumberAlong(b, a)[Height(b)] = b
<1>1. Height(b) \in Nat /\ CurrentHeight \in Nat /\ Anc(b, Height(b)) = b
  BY PathFacts, TipFacts
<1>2. DOMAIN number = 0 .. CurrentHeight
  BY DEF IInv, IndexEndsInTip
<1>3. DOMAIN number \union {Height(b)} = 0 .. Height(b)
  BY <1>1, <1>2 DEF Adopts
<1>4. NumberAlong(b, a) = [k \in 0 .. Height(b) |-> IF k > a THEN Anc(b, k) ELSE number[k]]
  BY <1>3 DEF NumberAlong
<1>5. ASSUME NEW k \in 0 .. Height(b), k > a
      PROVE  NumberAlong(b, a)[k] = Anc(b, k) /\ Anc(b, k) \in V /\ Height(Anc(b, k)) = k
  <2>1. k \in a + 1 .. Height(b)
    BY <1>1, <1>5
  <2> QED BY <1>4, <1>5, <2>1, AncestorFacts
<1>6. ASSUME NEW k \in 0 .. Height(b), ~(k > a)
      PROVE  NumberAlong(b, a)[k] = number[k] /\ number[k] \in V /\ Height(number[k]) = k
  <2>1. k \in DOMAIN number
    BY <1>1, <1>2, <1>6 DEF Adopts
  <2> QED BY <1>4, <1>6, <2>1 DEF IInv, BestChainVerified, IndexEndsInTip
<1>7. \A k \in 0 .. Height(b) : NumberAlong(b, a)[k] \in V /\ Height(NumberAlong(b, a)[k]) = k
  BY <1>5, <1>6
<1>8. NumberAlong(b, a)[Height(b)] = b
  BY <1>1, <1>5
<1>9. NumberAlong(b, a) \in [0 .. Height(b) -> Block]
  BY <1>4, <1>7
<1> QED BY <1>7, <1>8, <1>9

AddressesOK(ta) == DOMAIN ta \subseteq Tx /\ \A t \in DOMAIN ta : ta[t] \in Address

\* The transaction index stays a map from transactions to places in blocks.
LEMMA AddressesType ==
    ASSUME IInv, NEW blocks \in Seq(Block)
    PROVE  AddressesOK(AddressesWith(blocks))
<1> DEFINE old  == UNION {TxsByHeight(Height(blocks[j])) : j \in DOMAIN blocks}
           new  == UNION {TxSet(blocks[j]) : j \in DOMAIN blocks}
           at(t) == blocks[Max({j \in DOMAIN blocks : t \in TxSet(blocks[j])})]
           pos(t) == Max({i \in DOMAIN Txs[at(t)] : Txs[at(t)][i] = t}) - 1
<1>1. Len(blocks) \in Nat /\ DOMAIN blocks = 1 .. Len(blocks)
      /\ \A j \in DOMAIN blocks : blocks[j] \in Block
  BY LenProperties, ElementOfSeq
<1>2. \A b \in Block : /\ Txs[b] \in Seq(Tx) /\ Len(Txs[b]) \in Nat
                       /\ DOMAIN Txs[b] = 1 .. Len(Txs[b])
                       /\ \A i \in DOMAIN Txs[b] : Txs[b][i] \in Tx
  BY BodyAssumption, LenProperties, ElementOfSeq
<1>3. new \subseteq Tx
  BY <1>1, <1>2 DEF TxSet
<1>4. ASSUME NEW t \in new PROVE at(t) \in Block /\ pos(t) \in Nat
  <2> DEFINE J == {j \in DOMAIN blocks : t \in TxSet(blocks[j])}
             I == {i \in DOMAIN Txs[at(t)] : Txs[at(t)][i] = t}
  <2>1. J \in SUBSET (0 .. Len(blocks)) /\ J # {}
    BY <1>1, <1>4
  <2>2. Max(J) \in J
    BY <1>1, <2>1, MaxOfNaturals
  <2>3. at(t) \in Block /\ t \in TxSet(at(t))
    BY <1>1, <2>2
  <2> HIDE DEF at
  <2>4. I \in SUBSET (0 .. Len(Txs[at(t)])) /\ I # {}
    BY <1>2, <2>3 DEF TxSet
  <2>5. Max(I) \in I
    BY <1>2, <2>3, <2>4, MaxOfNaturals
  <2>6. Max(I) \in Nat \ {0}
    BY <1>2, <2>3, <2>5
  <2> QED BY <2>3, <2>6
<1>5. AddressesWith(blocks) = [t \in (DOMAIN txAddr \ old) \union new |->
         IF t \in new THEN [block |-> at(t), index |-> pos(t)] ELSE txAddr[t]]
  BY DEF AddressesWith
<1>6. AddressesOK(txAddr)
  BY DEF AddressesOK, IInv, TypeOK
<1> HIDE DEF old, new, at, pos
<1>7. (DOMAIN txAddr \ old) \union new \subseteq Tx
  BY <1>3, <1>6 DEF AddressesOK
<1>8. ASSUME NEW t \in (DOMAIN txAddr \ old) \union new
      PROVE  (IF t \in new THEN [block |-> at(t), index |-> pos(t)] ELSE txAddr[t]) \in Address
  BY <1>4, <1>6, <1>8 DEF Address, AddressesOK
<1> QED BY <1>5, <1>7, <1>8 DEF AddressesOK

-----------------------------------------------------------------------------
(* The start.                                                              *)

\* The queue that Chain::init makes has an entry.
LEMMA TotalFacts == Total \in Nat \ {0}
BY ParameterAssumption DEF Total

\* The fresh store has the invariant.
LEMMA InitIInv == Init => IInv
<1> SUFFICES ASSUME Init PROVE IInv
  OBVIOUS
<1> USE DEF Init
<1>1. Genesis \in Block /\ Height(Genesis) = 0 /\ CurrentHeight = 0
  BY BlockAssumption, PathFacts DEF CurrentHeight
<1>2. Path(Genesis) = {Genesis}
  BY <1>1, PathFacts DEF Path
<1>3. queue \in Seq({Genesis}) /\ Len(queue) = Total /\ queue # << >>
  BY TotalFacts, EmptySeq
<1>4. DOMAIN queue = 1 .. Total /\ \A x \in DOMAIN queue : queue[x] = Genesis
  OBVIOUS
<1>5. TypeOK
  <2>1. queue \in Seq(Block)
    BY <1>1, TotalFacts
  <2>2. number \in [0 .. CurrentHeight -> Block]
    BY <1>1
  <2>3. onDisk \in Database
    BY <1>1 DEF Database
  <2> QED BY <1>1, <2>1, <2>2, <2>3 DEF TypeOK, NoHashes
<1>6. StoreClosed /\ VerifiedClosed
  BY <1>2 DEF StoreClosed, VerifiedClosed
<1>7. BestChainVerified /\ IndexEndsInTip
  BY <1>1, <1>4 DEF BestChainVerified, IndexEndsInTip
<1>8. known \ onDisk.bodies = {} /\ verified \ onDisk.verified = {}
      /\ Inserter \ running = {}
  BY DEF Thread
<1>9. DiskFollows /\ MissingFinite
  <2>1. Cardinality({}) = 0 /\ IsFiniteSet({}) /\ Cardinality(Inserter \ running) = 0
    BY ONLY <1>8, FS_EmptySet
  <2>2. /\ onDisk.bodies = {Genesis} /\ onDisk.headers = {Genesis}
        /\ onDisk.verified = {Genesis}
    OBVIOUS
  <2>3. /\ known = {Genesis} /\ verified = {Genesis} /\ tip = Genesis
        /\ Cardinality(known \ onDisk.bodies) = 0 /\ IsFiniteSet(known \ onDisk.bodies)
        /\ Cardinality(Inserter \ running) = 0
    BY ONLY <1>8, <2>1, Init DEF Init
  <2> QED BY ONLY <1>8, <2>2, <2>3 DEF DiskFollows, MissingFinite
<1> QED BY <1>3, <1>5, <1>6, <1>7, <1>9 DEF IInv, QueueInUse, AtStart

-----------------------------------------------------------------------------
(* Threads end one by one, and each takes at most one block with it that    *)
(* was not written.                                                         *)

\* Threads only end while the process runs.
LEMMA ThreadsEnd ==
    ASSUME running' \subseteq running
    PROVE  /\ Cardinality(Inserter \ running) \in Nat
           /\ Cardinality(Inserter \ running') \in Nat
           /\ Cardinality(Inserter \ running) <= Cardinality(Inserter \ running')
<1>1. IsFiniteSet(Inserter)
  <2>1. IsFiniteSet({"main"})
    BY FS_EmptySet, FS_AddElement
  <2>2. IsFiniteSet({"main"} \union {"mario"})
    BY <2>1, FS_AddElement
  <2>3. IsFiniteSet(({"main"} \union {"mario"}) \union {"pending"})
    BY <2>2, FS_AddElement
  <2>4. Inserter = ({"main"} \union {"mario"}) \union {"pending"}
    BY DEF Inserter
  <2> QED BY <2>3, <2>4
<1>2. Inserter \ running' \in SUBSET Inserter
      /\ Inserter \ running \in SUBSET (Inserter \ running')
  OBVIOUS
<1>3. IsFiniteSet(Inserter \ running')
  BY <1>1, <1>2, FS_Subset
<1>4. IsFiniteSet(Inserter \ running)
      /\ Cardinality(Inserter \ running) <= Cardinality(Inserter \ running')
  BY <1>2, <1>3, FS_Subset
<1> QED BY <1>3, <1>4, FS_CardinalityType

\* A thread that ends was running before.
LEMMA ThreadPanics ==
    ASSUME NEW t \in Inserter \intersect running, Ends(t)
    PROVE  Cardinality(Inserter \ running) + 1 <= Cardinality(Inserter \ running')
<1> DEFINE gone == Inserter \ running
<1>1. running' \subseteq running /\ t \notin running'
  BY DEF Ends
<1>2. gone \union {t} \in SUBSET (Inserter \ running')
  BY <1>1
<1>3. IsFiniteSet(Inserter)
  <2>1. IsFiniteSet({"main"})
    BY FS_EmptySet, FS_AddElement
  <2>2. IsFiniteSet({"main"} \union {"mario"})
    BY <2>1, FS_AddElement
  <2>3. IsFiniteSet(({"main"} \union {"mario"}) \union {"pending"})
    BY <2>2, FS_AddElement
  <2>4. Inserter = ({"main"} \union {"mario"}) \union {"pending"}
    BY DEF Inserter
  <2> QED BY <2>3, <2>4
<1>4. IsFiniteSet(Inserter \ running') /\ IsFiniteSet(gone)
  <2>1. Inserter \ running' \in SUBSET Inserter /\ gone \in SUBSET Inserter
    OBVIOUS
  <2> QED BY <1>3, <2>1, FS_Subset
<1>5. Cardinality(gone \union {t}) = Cardinality(gone) + 1
  BY <1>4, FS_AddElement
<1>6. Cardinality(gone \union {t}) <= Cardinality(Inserter \ running')
  BY <1>2, <1>4, FS_Subset
<1> QED BY <1>5, <1>6

\* A batch that holds the block and what was marked verified keeps the disk in step.
LEMMA WrittenFollows ==
    ASSUME IInv, NEW b \in Block, b \notin known, known' = known \union {b},
           NEW marked, marked \subseteq known \union {b},
           verified' = verified \union marked, Writes(b, marked),
           tip' = tip \/ (tip' = b /\ b \in marked),
           running' \subseteq running
    PROVE  DiskFollows' /\ MissingFinite' /\ onDisk' \in Database
<1>1. /\ onDisk'.headers = onDisk.headers \union {b} \union marked
      /\ onDisk'.verified = onDisk.verified \union marked
      /\ onDisk'.bodies = onDisk.bodies \union {b}
  BY DEF Writes
<1>2. /\ onDisk.bodies \subseteq onDisk.headers /\ onDisk.headers \subseteq known
      /\ onDisk.verified \subseteq verified
      /\ tip \in onDisk.bodies \intersect onDisk.verified
      /\ Cardinality(known \ onDisk.bodies) <= Cardinality(Inserter \ running)
      /\ verified \ onDisk.verified \subseteq
             UNION {Path(x) : x \in known \ onDisk.bodies}
      /\ IsFiniteSet(known \ onDisk.bodies)
  BY DEF IInv, DiskFollows, MissingFinite
<1>3. known' \ onDisk'.bodies = known \ onDisk.bodies
  BY <1>1
<1>4. verified' \ onDisk'.verified \subseteq verified \ onDisk.verified
  BY <1>1
<1>5. Cardinality(known \ onDisk.bodies) \in Nat
  BY <1>2, FS_CardinalityType
<1>6. Cardinality(known' \ onDisk'.bodies) <= Cardinality(Inserter \ running')
  <2>1. /\ Cardinality(Inserter \ running) \in Nat
        /\ Cardinality(Inserter \ running') \in Nat
        /\ Cardinality(Inserter \ running) <= Cardinality(Inserter \ running')
    BY ONLY running' \subseteq running, ThreadsEnd
  <2>2. Cardinality(known \ onDisk.bodies) <= Cardinality(Inserter \ running')
    BY ONLY <1>2, <1>5, <2>1
  <2> QED BY ONLY <1>3, <2>2
<1>7. known \subseteq Block /\ onDisk \in Database
  BY DEF IInv, TypeOK
<1>8. onDisk' \in Database
  BY <1>7 DEF Writes, Database
<1>9. verified' \ onDisk'.verified \subseteq
         UNION {Path(x) : x \in known' \ onDisk'.bodies}
  BY <1>2, <1>3, <1>4
<1>10. onDisk'.bodies \subseteq onDisk'.headers /\ onDisk'.headers \subseteq known'
       /\ onDisk'.verified \subseteq verified'
       /\ tip' \in onDisk'.bodies \intersect onDisk'.verified
  BY <1>1, <1>2
<1> QED BY <1>2, <1>3, <1>6, <1>8, <1>9, <1>10 DEF DiskFollows, MissingFinite

\* A batch that is lost is lost with its thread.
LEMMA LostFollows ==
    ASSUME IInv, NEW b \in Block, b \notin known, known' = known \union {b},
           verified \subseteq verified', verified' \subseteq verified \union Path(b),
           NEW t \in Inserter \intersect running, Ends(t), UNCHANGED <<onDisk, tip>>
    PROVE  DiskFollows' /\ MissingFinite'
<1> DEFINE gap == known \ onDisk.bodies
<1>1. /\ onDisk.bodies \subseteq onDisk.headers /\ onDisk.headers \subseteq known
      /\ onDisk.verified \subseteq verified
      /\ tip \in onDisk.bodies \intersect onDisk.verified
      /\ Cardinality(gap) <= Cardinality(Inserter \ running)
      /\ verified \ onDisk.verified \subseteq UNION {Path(x) : x \in gap}
      /\ IsFiniteSet(gap)
  BY DEF IInv, DiskFollows, MissingFinite
<1>2. known' \ onDisk'.bodies = gap \union {b}
  BY <1>1
<1>3. IsFiniteSet(gap \union {b}) /\ Cardinality(gap \union {b}) = Cardinality(gap) + 1
  <2>1. b \notin gap
    OBVIOUS
  <2> HIDE DEF gap
  <2> QED BY <1>1, <2>1, FS_AddElement
<1>4. Cardinality(gap) \in Nat
  BY <1>1, FS_CardinalityType
<1>5. running' \subseteq running
  BY DEF Ends
<1>6. Cardinality(gap \union {b}) <= Cardinality(Inserter \ running')
  <2>1. /\ Cardinality(Inserter \ running) \in Nat
        /\ Cardinality(Inserter \ running') \in Nat
    BY ONLY <1>5, ThreadsEnd
  <2>2. Cardinality(Inserter \ running) + 1 <= Cardinality(Inserter \ running')
    BY ONLY Ends(t), t \in Inserter \intersect running, ThreadPanics
  <2> HIDE DEF gap
  <2> QED BY ONLY <1>1, <1>3, <1>4, <2>1, <2>2
<1>7. verified' \ onDisk'.verified \subseteq UNION {Path(x) : x \in gap \union {b}}
  BY <1>1
<1>8. /\ onDisk'.bodies \subseteq onDisk'.headers /\ onDisk'.headers \subseteq known'
      /\ onDisk'.verified \subseteq verified'
      /\ tip' \in onDisk'.bodies \intersect onDisk'.verified
  BY <1>1
<1> QED BY <1>2, <1>3, <1>6, <1>7, <1>8 DEF DiskFollows, MissingFinite

\* The first block a node stores becomes its tip.
LEMMA FirstAdopted ==
    ASSUME IInv, up, tip = Genesis, NEW b \in Block, b # Genesis, Parent(b) \in known
    PROVE  ShortFork(Parent(b)) /\ Adopts(b)
<1>1. Parent(b) = Genesis
  BY DEF IInv, AtStart
<1>2. Genesis \in Block /\ Height(Genesis) = 0 /\ CurrentHeight = 0
  BY BlockAssumption, PathFacts DEF CurrentHeight
<1>3. Height(b) = 1
  BY <1>1, <1>2, ParentFacts
<1>4. ForkPoint(Genesis) = 0
  <2>1. ForkPoint(Genesis) \in 0 .. 0
    BY <1>2, ForkPointFacts
  <2> QED BY <2>1
<1>5. BufferSize \in Nat \ {0}
  BY ParameterAssumption
<1>6. ShortFork(Genesis)
  BY <1>2, <1>4, <1>5 DEF ShortFork
<1> QED BY <1>1, <1>2, <1>3, <1>6 DEF Adopts

-----------------------------------------------------------------------------
(* The two ways a handler ends: the best chain stays, or b is its new tip. *)

\* What a step may add to the verified blocks.
VerifiedGrows(b) ==
    /\ verified \subseteq verified' /\ verified' \subseteq known \union {b}
    /\ \A v \in verified' : Path(v) \subseteq verified'

\* Storing a block whose parent is stored keeps every path stored.
LEMMA StoreGrows ==
    ASSUME IInv, NEW b \in Block, b # Genesis, Parent(b) \in known,
           known' = known \union {b}
    PROVE  known' \subseteq Block /\ StoreClosed'
<1>1. Path(b) = Path(Parent(b)) \union {b}
  BY ParentFacts
<1>2. known' \subseteq Block
  BY DEF IInv, TypeOK
<1> QED BY <1>1, <1>2 DEF IInv, StoreClosed

\* A block is stored and the best chain stays.
LEMMA KeptInvariant ==
    ASSUME IInv, NEW b \in Block, b # Genesis, Parent(b) \in known, tip # Genesis,
           known' = known \union {b}, VerifiedGrows(b), onDisk' \in Database,
           UNCHANGED <<best, cache>>, running' \subseteq running,
           DiskFollows', MissingFinite'
    PROVE  IInv'
<1> USE DEF best
<1>1. known' \subseteq Block /\ StoreClosed'
  BY StoreGrows
<1>2. CurrentHeight' = CurrentHeight
  BY DEF CurrentHeight
<1>3. TypeOK'
  BY <1>1, <1>2 DEF IInv, TypeOK, VerifiedGrows, cache
<1>4. VerifiedClosed'
  BY DEF VerifiedClosed, VerifiedGrows
<1>5. BestChainVerified'
  BY DEF IInv, BestChainVerified, VerifiedGrows, cache
<1>6. IndexEndsInTip'
  BY <1>2 DEF IInv, IndexEndsInTip
<1>7. QueueInUse'
  BY DEF IInv, QueueInUse, cache, up
<1>8. AtStart'
  BY DEF AtStart
<1> QED BY <1>1, <1>3, <1>4, <1>5, <1>6, <1>7, <1>8 DEF IInv

\* A block is stored, verified with its path, and becomes the tip.
LEMMA AdoptedInvariant ==
    ASSUME IInv, NEW b \in Block, b # Genesis, Parent(b) \in known,
           known' = known \union {b}, VerifiedGrows(b), b \in verified',
           Adopts(b), NEW a \in 0 .. Height(b), a < Height(b),
           number' = NumberAlong(b, a),
           AddressesOK(txAddr'), tip' = b,
           queue' \in Seq(verified'), queue' # << >>, HashesOK(hashes'),
           onDisk' \in Database, running' \subseteq running,
           DiskFollows', MissingFinite'
    PROVE  IInv'
<1>1. known' \subseteq Block /\ StoreClosed'
  BY StoreGrows
<1>2. verified' \in SUBSET Block /\ verified \subseteq verified' /\ Path(b) \subseteq verified'
  BY <1>1 DEF VerifiedGrows
<1>3. CurrentHeight' = Height(b) /\ Height(b) \in Nat
  BY PathFacts DEF CurrentHeight
<1>4. \A k \in a + 1 .. Height(b) : Anc(b, k) \in verified'
  BY <1>2, <1>3 DEF Path
<1>5. /\ number' \in [0 .. Height(b) -> Block]
      /\ \A k \in 0 .. Height(b) : number'[k] \in verified' /\ Height(number'[k]) = k
      /\ number'[Height(b)] = b
  BY <1>2, <1>4, NumberAlongType
<1>6. DOMAIN queue' = 1 .. Len(queue') /\ \A x \in DOMAIN queue' : queue'[x] \in verified'
  BY LenProperties, ElementOfSeq
<1>7. queue' \in Seq(Block)
  <2>1. Seq(verified') \subseteq Seq(Block)
    BY <1>2
  <2> QED BY <2>1
<1>8. TypeOK'
  BY <1>1, <1>2, <1>3, <1>5, <1>7 DEF IInv, TypeOK, AddressesOK, HashesOK
<1>9. VerifiedClosed'
  BY DEF VerifiedClosed, VerifiedGrows
<1>10. BestChainVerified'
  BY <1>5, <1>6 DEF BestChainVerified
<1>11. IndexEndsInTip'
  BY <1>3, <1>5 DEF IndexEndsInTip
<1>12. QueueInUse' /\ AtStart'
  BY DEF QueueInUse, AtStart
<1> QED BY <1>1, <1>8, <1>9, <1>10, <1>11, <1>12 DEF IInv

-----------------------------------------------------------------------------
(* insert_at.                                                              *)

\* Moving the head of the queue to its back keeps the entries.
LEMMA LeftShiftType ==
    ASSUME NEW V, NEW q \in Seq(V), q # << >>
    PROVE  LeftShift(q) \in Seq(V) /\ LeftShift(q) # << >>
<1>1. Head(q) \in V /\ Tail(q) \in Seq(V)
  BY HeadTailProperties
<1>2. <<Head(q)>> \in Seq(V) /\ Len(<<Head(q)>>) = 1
  BY <1>1
<1>3. LeftShift(q) \in Seq(V) /\ Len(LeftShift(q)) = Len(Tail(q)) + 1
  <2>1. LeftShift(q) = Tail(q) \o <<Head(q)>>
    BY DEF LeftShift
  <2> DEFINE t == Tail(q)
             h == <<Head(q)>>
  <2>2. t \in Seq(V) /\ h \in Seq(V) /\ Len(h) = 1
    BY <1>1, <1>2
  <2> HIDE DEF t, h
  <2>3. t \o h \in Seq(V) /\ Len(t \o h) = Len(t) + Len(h)
    BY ONLY <2>2, ConcatProperties
  <2> QED BY <2>1, <2>2, <2>3 DEF t, h
<1>4. Len(Tail(q)) \in Nat
  BY <1>1, LenProperties
<1> QED BY <1>3, <1>4, EmptySeq

\* A verified block is stored, and adopted if it is high enough: everything
\* that adjust_block_hashes writes is b or was verified before.
LEMMA InsertVerifiedInvariant ==
    ASSUME IInv, up, NEW b \in Block, b # Genesis, b \notin known,
           Parent(b) \in known, ShortFork(Parent(b)),
           InsertVerified(b), running' \subseteq running
    PROVE  IInv'
<1> DEFINE p == Parent(b)
           a == ForkPoint(p)
           V == verified \union {b}
<1>1. /\ Height(b) \in Nat \ {0} /\ p \in Block
      /\ Height(p) = Height(b) - 1 /\ Path(b) = Path(p) \union {b}
      /\ \A k \in 0 .. Height(b) - 1 : Anc(p, k) = Anc(b, k)
  BY ParentFacts
<1>2. p \in verified
  BY <1>1, ShortForkVerified
<1>3. verified \subseteq Block /\ V \in SUBSET Block
  BY TipFacts
<1>4. known' = known \union {b} /\ verified' = V
  BY DEF InsertVerified
<1>5. VerifiedGrows(b)
  BY <1>1, <1>2, <1>4 DEF VerifiedGrows, IInv, VerifiedClosed
<1> HIDE DEF V
<1>8. tip' = tip \/ tip' = b
  BY DEF InsertVerified, AdjustBlockHashes, best
<1>9. DiskFollows' /\ MissingFinite' /\ onDisk' \in Database
  BY <1>4, <1>8, WrittenFollows DEF InsertVerified, V
<1>6. CASE ~Adopts(b)
  <2>1. tip # Genesis
    BY <1>6, FirstAdopted
  <2> QED BY <1>4, <1>5, <1>6, <1>9, <2>1, KeptInvariant DEF InsertVerified
<1>7. CASE Adopts(b)
  <2> USE DEF V
  <2> DEFINE blocks == ShortForkBlocks(b)
             q == IF CurrentHeight < Height(b) THEN LeftShift(queue) ELSE queue
  <2>1. AdjustBlockHashes(b)
    BY <1>7 DEF InsertVerified
  <2>2. a \in 0 .. Height(p)
    BY <1>1, ForkPointFacts
  <2>3. a \in 0 .. Height(b) /\ a < Height(b)
    BY <1>1, <2>2
  <2>4. blocks \in Seq(V)
    <3>1. Height(b) - a \in Nat
      BY <1>1, <2>3
    <3>2. ASSUME NEW j \in 1 .. Height(b) - a
          PROVE  (IF j = Height(b) - a THEN b ELSE Anc(b, Height(b) - j)) \in V
      <4>1. CASE j = Height(b) - a
        BY <4>1
      <4>2. CASE j # Height(b) - a
        <5>1. Height(b) - j \in 0 .. Height(p)
          BY <1>1, <2>3, <4>2
        <5>2. Anc(p, Height(b) - j) \in verified
          BY <1>2, <5>1 DEF Path, IInv, VerifiedClosed
        <5>3. Anc(p, Height(b) - j) = Anc(b, Height(b) - j)
          BY <1>1, <5>1
        <5> QED BY <4>2, <5>2, <5>3
      <4> QED BY <4>1, <4>2
    <3>3. blocks = [j \in 1 .. Height(b) - a |->
                       IF j = Height(b) - a THEN b ELSE Anc(b, Height(b) - j)]
      BY DEF ShortForkBlocks
    <3> QED BY <3>1, <3>2, <3>3
  <2>5. queue \in Seq(V) /\ queue # << >>
    <3>1. queue \in Seq(Block) /\ queue # << >>
      BY DEF IInv, TypeOK, QueueInUse
    <3>2. Len(queue) \in Nat /\ \A x \in 1 .. Len(queue) : queue[x] \in V
      BY <3>1, LenProperties DEF IInv, BestChainVerified
    <3> QED BY <3>1, <3>2
  <2>6. q \in Seq(V) /\ q # << >>
    BY <2>5, LeftShiftType
  <2>7. /\ queue' = UpdatedQueue(q, blocks, Total)
        /\ hashes' = Applied(hashes, UpdateOps(q, blocks, Total))
        /\ txAddr' = AddressesWith(blocks) /\ tip' = b
        /\ number' = NumberAlong(b, a)
    BY <2>1 DEF AdjustBlockHashes
  <2>8. blocks \in Seq(Block)
    <3>1. Seq(V) \subseteq Seq(Block)
      BY <1>3
    <3> QED BY <2>4, <3>1
  <2> HIDE DEF blocks, q, V, a, p
  <2>9. /\ UpdatedQueue(q, blocks, Total) \in Seq(V)
        /\ UpdatedQueue(q, blocks, Total) # << >>
        /\ OpsOK(UpdateOps(q, blocks, Total))
    BY <1>3, <2>4, <2>6, TotalFacts, UpdatedQueueType
  <2>10. HashesOK(hashes')
    <3>1. HashesOK(hashes)
      BY DEF IInv, TypeOK, HashesOK
    <3> QED BY <2>7, <2>9, <3>1, AppliedType
  <2>11. AddressesOK(txAddr')
    BY <2>7, <2>8, AddressesType
  <2>12. b \in verified' /\ queue' \in Seq(verified') /\ queue' # << >>
    BY <1>4, <2>7, <2>9 DEF V
  <2> QED BY <1>4, <1>5, <1>7, <1>9, <2>3, <2>7, <2>10, <2>11, <2>12, AdoptedInvariant
<1> QED BY <1>6, <1>7

\* get_unverif_headers: the unverified blocks are the end of the path, above a
\* verified block.
LEMMA UnverifiedFacts ==
    ASSUME IInv, NEW b \in Block, b # Genesis
    PROVE  \E u \in 0 .. Height(b) - 1 :
              /\ Anc(b, u) \in verified
              /\ Height(b) - u \in Nat \ {0}
              /\ Unverified(b) = [j \in 1 .. Height(b) - u |-> Anc(b, u + j)]
<1> DEFINE S == {k \in 0 .. Height(b) - 1 : Anc(b, k) \in verified}
<1>1. Height(b) \in Nat \ {0} /\ Anc(b, 0) = Genesis /\ Genesis \in verified
  BY PathFacts, TipFacts
<1>2. S \in SUBSET (0 .. Height(b)) /\ 0 \in S
  BY <1>1
<1>3. Max(S) \in S
  BY <1>1, <1>2, MaxOfNaturals
<1> DEFINE u == Max(S)
<1>4. Unverified(b) = [j \in 1 .. Height(b) - u |-> Anc(b, u + j)]
  BY DEF Unverified
<1>5. u \in 0 .. Height(b) - 1 /\ Anc(b, u) \in verified
  BY <1>3
<1> HIDE DEF u
<1>6. Height(b) - u \in Nat \ {0}
  BY <1>1, <1>5
<1> QED BY <1>4, <1>5, <1>6

\* The checks pass up to some block, perhaps the last.
LEMMA FirstBadFacts ==
    ASSUME NEW b, NEW n \in Nat \ {0}, DOMAIN Unverified(b) = 1 .. n, Len(Unverified(b)) = n
    PROVE  /\ FirstBad(b) \in 1 .. n + 1
           /\ \A j \in 1 .. FirstBad(b) - 1 : ~CheckPanics(b, j) /\ ~CheckFails(b, j)
<1> DEFINE S == {Len(Unverified(b)) + 1} \union
                {j \in DOMAIN Unverified(b) : CheckPanics(b, j) \/ CheckFails(b, j)}
<1>1. S \in SUBSET Nat /\ S # {}
  OBVIOUS
<1>2. FirstBad(b) = Min(S)
  BY DEF FirstBad
<1> HIDE DEF S
<1>3. Min(S) \in S /\ \A y \in S : Min(S) <= y
  BY <1>1, MinOfNaturals
<1>4. \A y \in S : y \in 1 .. n + 1
  BY DEF S
<1>5. \A j \in 1 .. n : CheckPanics(b, j) \/ CheckFails(b, j) => j \in S
  BY DEF S
<1> QED BY <1>2, <1>3, <1>4, <1>5

\* What a switch marks verified lies, with its path, on the path of b above a
\* verified block, whether the switch then succeeds or not.
LEMMA PassedVerifiedGrows ==
    ASSUME IInv, NEW b \in Block, b # Genesis, b \notin known,
           Parent(b) \in known,
           verified' = verified \union
               {Unverified(b)[j] : j \in 1 .. FirstBad(b) - 1}
    PROVE  /\ VerifiedGrows(b)
           /\ verified' \subseteq verified \union Path(b)
           /\ FirstBad(b) \notin DOMAIN Unverified(b) =>
                  \E j \in 1 .. FirstBad(b) - 1 : Unverified(b)[j] = b
<1>1. PICK u \in 0 .. Height(b) - 1 :
              /\ Anc(b, u) \in verified
              /\ Height(b) - u \in Nat \ {0}
              /\ Unverified(b) = [j \in 1 .. Height(b) - u |-> Anc(b, u + j)]
  BY UnverifiedFacts
<1> DEFINE n == Height(b) - u
           f == FirstBad(b)
<1>2. Height(b) \in Nat \ {0} /\ Anc(b, Height(b)) = b
      /\ Path(b) \subseteq known \union {b}
  BY PathFacts, ParentFacts DEF IInv, StoreClosed
<1>3. DOMAIN Unverified(b) = 1 .. n /\ Len(Unverified(b)) = n
      /\ \A j \in 1 .. n : Unverified(b)[j] = Anc(b, u + j)
  BY <1>1
<1>4. f \in 1 .. n + 1
  BY <1>1, <1>3, FirstBadFacts
<1>5. verified' = verified \union {Anc(b, u + j) : j \in 1 .. f - 1}
  BY <1>1, <1>3, <1>4
<1>6. \A k \in 0 .. u : Anc(b, k) \in verified
  <2>1. Path(Anc(b, u)) = {Anc(b, k) : k \in 0 .. u}
    BY <1>2, PathOfAncestor
  <2> QED BY <1>1, <2>1 DEF IInv, VerifiedClosed
<1>7. \A k \in 0 .. u + f - 1 : Anc(b, k) \in verified'
  <2> SUFFICES ASSUME NEW k \in 0 .. u + f - 1 PROVE Anc(b, k) \in verified'
    OBVIOUS
  <2>1. CASE k <= u
    BY <1>5, <1>6, <2>1
  <2>2. CASE k > u
    <3>1. k - u \in 1 .. f - 1 /\ u + (k - u) = k
      BY <1>4, <2>2
    <3> QED BY <1>5, <3>1
  <2> QED BY <1>4, <2>1, <2>2
<1>8. ASSUME NEW v \in verified' PROVE Path(v) \subseteq verified'
  <2>1. CASE v \in verified
    BY <1>5, <2>1 DEF IInv, VerifiedClosed
  <2>2. CASE v \notin verified
    <3>1. PICK j \in 1 .. f - 1 : v = Anc(b, u + j)
      BY <1>5, <2>2
    <3>2. u + j \in 0 .. Height(b)
      BY <1>2, <1>4
    <3>3. Path(v) = {Anc(b, k) : k \in 0 .. u + j}
      BY <3>1, <3>2, PathOfAncestor
    <3>4. 0 .. u + j \subseteq 0 .. u + f - 1
      BY <1>4
    <3> QED BY <1>7, <3>3, <3>4
  <2> QED BY <2>1, <2>2
<1>9. verified' \subseteq known \union {b} /\ verified' \subseteq verified \union Path(b)
  <2>1. \A j \in 1 .. f - 1 : u + j \in 0 .. Height(b)
    BY <1>2, <1>4
  <2>2. \A j \in 1 .. f - 1 : Anc(b, u + j) \in Path(b)
    BY <2>1 DEF Path
  <2> QED BY <1>2, <1>5, <2>2 DEF IInv, VerifiedClosed
<1>10. ASSUME f \notin DOMAIN Unverified(b)
       PROVE  \E j \in 1 .. f - 1 : Unverified(b)[j] = b
  <2>1. f = n + 1
    BY <1>3, <1>4, <1>10
  <2>2. n \in 1 .. f - 1 /\ u + n = Height(b)
    BY <1>1, <1>2, <2>1
  <2>3. Unverified(b)[n] = b
    BY <1>1, <1>2, <1>3, <2>2
  <2> QED BY <2>2, <2>3
<1> QED BY <1>5, <1>8, <1>9, <1>10 DEF VerifiedGrows

\* The private cache of a switch, once the path of b is verified: as long as
\* the roll back left it, with verified blocks in it.
LEMMA SwitchCacheType ==
    ASSUME IInv, up, NEW b \in Block, b # Genesis, b \notin known,
           NEW V \in SUBSET Block, verified \subseteq V, b \in V,
           \A v \in V : Path(v) \subseteq V,
           NEW u \in 0 .. Height(b) - 1, NEW n \in Nat \ {0}, n = Height(b) - u,
           Unverified(b) = [j \in 1 .. n |-> Anc(b, u + j)],
           CanRollBack(b), ~CheckPanics(b, 1)
    PROVE  /\ QueueAt(b, n + 1) \in Seq(V) /\ QueueAt(b, n + 1) # << >>
           /\ HashesOK(HashesAt(b, n + 1))
           /\ LongForkBlocks(b) \o Unverified(b) \in Seq(Block)
<1> DEFINE us == Unverified(b)
           m  == RollBack(b)
           lf == LongForkBlocks(b)
           rw == Rewound(b)
           rq == RolledBackQueue(b)
<1>1. /\ Height(b) \in Nat \ {0} /\ CurrentHeight \in Nat
      /\ Anc(b, Height(b)) = b
      /\ \A k \in 0 .. Height(b) : Anc(b, k) \in V
  <2>1. Path(b) \subseteq V
    OBVIOUS
  <2> QED BY <2>1, PathFacts, TipFacts DEF Path
<1>2. us \in Seq(V) /\ Len(us) = n /\ DOMAIN us = 1 .. n
      /\ \A j \in 1 .. n : us[j] \in V
  <2>1. \A j \in 1 .. n : u + j \in 0 .. Height(b)
    BY <1>1
  <2>2. \A j \in 1 .. n : Anc(b, u + j) \in V
    BY <1>1, <2>1
  <2> QED BY <2>2
<1>3. lf \in Seq(V)
  <2>1. ForkPoint(b) \in 0 .. Height(b)
    BY ForkPointFacts
  <2>2. \A j \in 1 .. Height(b) - ForkPoint(b) : Height(b) + 1 - j \in 0 .. Height(b)
    BY <1>1, <2>1
  <2>3. \A j \in 1 .. Height(b) - ForkPoint(b) : Anc(b, Height(b) + 1 - j) \in V
    BY <1>1, <2>2
  <2>4. Height(b) - ForkPoint(b) \in Nat
    BY <1>1, <2>1
  <2> QED BY <2>3, <2>4 DEF LongForkBlocks
<1>4. m \in Nat /\ m <= Total
  <2>1. n - 1 \in Nat
    OBVIOUS
  <2> QED BY <1>2, <2>1, TotalFacts, MinOfTwo DEF RollBack
<1>5. queue \in Seq(V) /\ queue # << >> /\ HashesOK(hashes)
  <2>1. queue \in Seq(Block) /\ queue # << >> /\ HashesOK(hashes)
    BY DEF IInv, TypeOK, QueueInUse, HashesOK
  <2>2. Len(queue) \in Nat /\ \A x \in 1 .. Len(queue) : queue[x] \in V
    BY <2>1, LenProperties DEF IInv, BestChainVerified
  <2> QED BY <2>1, <2>2
<1> HIDE DEF us, lf, m, rw, rq
<1>6. /\ UpdatedQueue(queue, lf, Total - m) \in Seq(V)
      /\ UpdatedQueue(queue, lf, Total - m) # << >>
      /\ OpsOK(UpdateOps(queue, lf, Total - m))
  <2>1. Total - m \in Nat
    BY <1>4, TotalFacts
  <2> QED BY <1>3, <1>5, <2>1, UpdatedQueueType
<1>7. rw \in Seq(V) /\ rw # << >>
  BY <1>5, <1>6 DEF rw, Rewound, lf, m
<1>8. HashesOK(RewoundHashes(b))
  BY <1>5, <1>6, AppliedType DEF RewoundHashes, lf, m
<1>9. RewindHash(b) \in V
  <2>1. Head(rw) \in V
    BY <1>7, HeadTailProperties
  <2>2. us[1] \in V
    BY <1>2
  <2> QED BY <2>1, <2>2 DEF RewindHash, rw, us
<1>10. m <= Len(rw)
  BY DEF CanRollBack, m, rw
<1>11. /\ rq \in Seq(V) /\ Len(rq) = 2 * m
       /\ OpsOK(RollBackOps(rw, RewindHash(b), m))
  BY <1>4, <1>7, <1>9, <1>10, RolledBackType DEF rq, RolledBackQueue, rw, m
<1>12. HashesOK(RolledBackHashes(b))
  BY <1>8, <1>11, AppliedType DEF RolledBackHashes, rw, m
<1> DEFINE all == rq \o us
<1>13. all \in Seq(V) /\ Len(all) = Len(rq) + Len(us)
  <2>1. rq \in Seq(V) /\ us \in Seq(V)
    BY <1>2, <1>11
  <2> QED BY ONLY <2>1, ConcatProperties
<1>14. Len(all) = 2 * m + n /\ \A x \in 1 .. 2 * m + n : all[x] \in V
  BY <1>2, <1>4, <1>11, <1>13, ElementOfSeq
<1> HIDE DEF all
<1>15. m >= 1
  <2>1. QueueAt(b, 1) = SubSeq(all, 1, 2 * m)
    BY <1>4, <1>11 DEF QueueAt, all, rq, us
  <2>2. Len(SubSeq(all, 1, 2 * m)) = 2 * m
    <3>1. \A x \in 1 .. 2 * m : all[x] \in V
      BY <1>4, <1>14
    <3> QED BY <1>4, <3>1, SubSeqProperties
  <2>3. LeftBound(Height(Unverified(b)[1]) - 1) \in 0 .. 2 * m - 1
    BY <2>1, <2>2 DEF CheckPanics, HasLeftBound
  <2> QED BY <1>4, <2>3
<1>16. QueueAt(b, n + 1) = SubSeq(all, n + 1, 2 * m + n)
  <2>1. Len(rq) + (n + 1) - 1 = 2 * m + n
    BY <1>4, <1>11
  <2> QED BY <2>1 DEF QueueAt, all, rq, us
<1>17. SubSeq(all, n + 1, 2 * m + n) \in Seq(V)
       /\ Len(SubSeq(all, n + 1, 2 * m + n)) = 2 * m
  <2>1. \A x \in n + 1 .. 2 * m + n : all[x] \in V
    BY <1>4, <1>14
  <2>2. n + 1 \in Int /\ 2 * m + n \in Int /\ n + 1 <= 2 * m + n + 1
    BY <1>4
  <2> DEFINE lo == n + 1
             hi == 2 * m + n
  <2>3. lo \in Int /\ hi \in Int /\ lo <= hi + 1 /\ hi - lo + 1 = 2 * m
    BY <1>4, <2>2
  <2>4. \A x \in lo .. hi : all[x] \in V
    BY <2>1
  <2> HIDE DEF lo, hi
  <2>5. /\ SubSeq(all, lo, hi) \in Seq(V)
        /\ Len(SubSeq(all, lo, hi)) = IF lo <= hi THEN hi - lo + 1 ELSE 0
    BY ONLY <2>3, <2>4, SubSeqProperties
  <2>6. Len(SubSeq(all, lo, hi)) = 2 * m
    BY ONLY <2>3, <2>5
  <2> QED BY <2>5, <2>6 DEF lo, hi
<1>18. HashesOK(HashesAt(b, n + 1))
  <2> DEFINE ops == [x \in 1 .. 2 * n |->
                        IF x % 2 = 1 THEN Leave(all[(x + 1) \div 2])
                                     ELSE Enter(us[x \div 2])]
  <2>1. HashesAt(b, n + 1) = Applied(RolledBackHashes(b), ops)
    <3>1. 2 * ((n + 1) - 1) = 2 * n
      OBVIOUS
    <3>2. HashesAt(b, n + 1) =
            Applied(RolledBackHashes(b),
                    [x \in 1 .. 2 * ((n + 1) - 1) |->
                        IF x % 2 = 1 THEN Leave(all[(x + 1) \div 2])
                                     ELSE Enter(us[x \div 2])])
      BY Zenon DEF HashesAt, all, rq, us
    <3> QED BY <3>1, <3>2, Zenon
  <2>2. ASSUME NEW x \in 1 .. 2 * n PROVE ops[x].block \in Block
    <3>1. CASE x % 2 = 1
      <4>1. (x + 1) \div 2 \in 1 .. 2 * m + n
        BY <1>4, <3>1
      <4> QED BY <1>14, <3>1, <4>1 DEF Leave
    <3>2. CASE x % 2 # 1
      <4>1. x \div 2 \in 1 .. n
        BY <3>2
      <4> QED BY <1>2, <3>2, <4>1 DEF Enter
    <3> QED BY <3>1, <3>2
  <2>3. 2 * n \in Nat /\ DOMAIN ops = 1 .. 2 * n
    OBVIOUS
  <2>4. OpsOK(ops)
    BY <2>2, <2>3 DEF OpsOK
  <2> HIDE DEF ops
  <2> QED BY <1>12, <2>1, <2>4, AppliedType
<1>19. lf \o us \in Seq(Block)
  <2>1. lf \in Seq(V) /\ us \in Seq(V)
    BY <1>2, <1>3
  <2>2. lf \o us \in Seq(V)
    BY ONLY <2>1, ConcatProperties
  <2>3. Seq(V) \subseteq Seq(Block)
    OBVIOUS
  <2> QED BY <2>2, <2>3
<1>20. QueueAt(b, n + 1) # << >>
  <2>1. Len(QueueAt(b, n + 1)) = 2 * m
    BY <1>16, <1>17
  <2> QED BY <1>4, <1>15, <2>1
<1> QED BY <1>16, <1>17, <1>18, <1>19, <1>20 DEF lf, us

\* What a switch marks verified makes a path with what was.
LEMMA PassedFacts ==
    ASSUME IInv, NEW b \in Block, b # Genesis, b \notin known,
           Parent(b) \in known, verified' = verified \union Passed(b)
    PROVE  /\ VerifiedGrows(b)
           /\ verified' \subseteq verified \union Path(b)
           /\ CanRollBack(b) /\ FirstBad(b) \notin DOMAIN Unverified(b) => b \in Passed(b)
<1>1. CASE CanRollBack(b)
  <2>1. Passed(b) = {Unverified(b)[j] : j \in 1 .. FirstBad(b) - 1}
    BY <1>1 DEF Passed
  <2>2. verified' = verified \union {Unverified(b)[j] : j \in 1 .. FirstBad(b) - 1}
    BY <2>1
  <2> QED BY <2>1, <2>2, PassedVerifiedGrows
<1>2. CASE ~CanRollBack(b)
  <2>1. verified' = verified
    BY <1>2 DEF Passed
  <2> QED BY <1>2, <2>1 DEF VerifiedGrows, IInv, VerifiedClosed
<1> QED BY <1>1, <1>2

\* A switch keeps the invariant, whether it adopts b or fails half-way.
LEMMA SwitchInvariant ==
    ASSUME IInv, up, NEW b \in Block, b # Genesis, b \notin known,
           Parent(b) \in known, Adopts(b), ~ShortFork(Parent(b)), SwitchLongFork(b),
           running' \subseteq running
    PROVE  IInv'
<1>1. PICK u \in 0 .. Height(b) - 1 :
              /\ Height(b) - u \in Nat \ {0}
              /\ Unverified(b) = [j \in 1 .. Height(b) - u |-> Anc(b, u + j)]
  BY UnverifiedFacts
<1> DEFINE n == Height(b) - u
           blocks == LongForkBlocks(b) \o Unverified(b)
<1>2. n \in Nat \ {0} /\ DOMAIN Unverified(b) = 1 .. n /\ Len(Unverified(b)) = n
      /\ Unverified(b) = [j \in 1 .. n |-> Anc(b, u + j)]
  BY <1>1
<1>3. /\ known' = known \union {b} /\ verified' = verified \union Passed(b)
      /\ Writes(b, Passed(b)) /\ CanRollBack(b)
      /\ \/ tip' = tip
         \/ tip' = b /\ FirstBad(b) \notin DOMAIN Unverified(b)
  BY DEF SwitchLongFork, SwitchPanics, best
<1>4. VerifiedGrows(b) /\ (FirstBad(b) \notin DOMAIN Unverified(b) => b \in Passed(b))
  BY <1>3, PassedFacts
<1>7. Passed(b) \subseteq known \union {b}
  BY <1>3, <1>4 DEF VerifiedGrows
<1>8. DiskFollows' /\ MissingFinite' /\ onDisk' \in Database
  BY <1>3, <1>4, <1>7, WrittenFollows
<1>5. CASE FirstBad(b) \in DOMAIN Unverified(b)
  <2>1. UNCHANGED <<best, cache>>
    BY <1>5 DEF SwitchLongFork
  <2>2. tip # Genesis
    BY FirstAdopted
  <2> QED BY <1>3, <1>4, <1>8, <2>1, <2>2, KeptInvariant
<1>6. CASE FirstBad(b) \notin DOMAIN Unverified(b)
  <2>1. /\ txAddr' = AddressesWith(blocks)
        /\ number' = NumberAlong(b, ForkPoint(b))
        /\ queue' = QueueAt(b, n + 1) /\ hashes' = HashesAt(b, n + 1)
        /\ tip' = b
    BY <1>2, <1>6 DEF SwitchLongFork
  <2>2. CanRollBack(b) /\ ~CheckPanics(b, 1)
    <3>1. CanRollBack(b)
      BY DEF SwitchLongFork, SwitchPanics
    <3>2. FirstBad(b) = n + 1
      BY <1>2, <1>6, FirstBadFacts
    <3>3. 1 \in 1 .. FirstBad(b) - 1
      BY <1>2, <3>2
    <3> QED BY <1>2, <3>1, <3>3, FirstBadFacts
  <2>3. ForkPoint(b) \in 0 .. Height(b) /\ ForkPoint(b) < Height(b)
    <3>1. Height(b) \in Nat /\ Anc(b, Height(b)) = b
      BY PathFacts
    <3>2. ForkPoint(b) \in 0 .. Height(b) /\ Anc(b, ForkPoint(b)) \in verified
      BY ForkPointFacts
    <3>3. b \notin verified
      BY DEF IInv, VerifiedClosed
    <3>4. ForkPoint(b) # Height(b)
      BY <3>1, <3>2, <3>3
    <3> QED BY <3>1, <3>2, <3>4
  <2>4. verified' \in SUBSET Block /\ verified \subseteq verified'
        /\ b \in verified' /\ \A v \in verified' : Path(v) \subseteq verified'
    BY <1>3, <1>4, <1>6 DEF VerifiedGrows, IInv, TypeOK
  <2> HIDE DEF n
  <2>5. /\ QueueAt(b, n + 1) \in Seq(verified') /\ QueueAt(b, n + 1) # << >>
        /\ HashesOK(HashesAt(b, n + 1)) /\ blocks \in Seq(Block)
    <3>1. n = Height(b) - u
      BY DEF n
    <3> QED BY <1>2, <2>2, <2>4, <3>1, SwitchCacheType
  <2>6. AddressesOK(txAddr')
    BY <2>1, <2>5, AddressesType
  <2> QED BY <1>3, <1>4, <1>8, <2>1, <2>3, <2>4, <2>5, <2>6, AdoptedInvariant
<1> QED BY <1>5, <1>6

-----------------------------------------------------------------------------
(* The handlers.                                                           *)

\* A thread that stops where nothing has been changed stops the node no worse.
LEMMA EndedInvariant ==
    ASSUME IInv, UNCHANGED <<store, best, cache>>, running' \subseteq running
    PROVE  IInv'
<1> USE DEF store, best, cache
<1>1. TypeOK' /\ StoreClosed' /\ VerifiedClosed'
  BY DEF IInv, TypeOK, StoreClosed, VerifiedClosed, CurrentHeight
<1>2. BestChainVerified' /\ IndexEndsInTip' /\ QueueInUse' /\ AtStart' /\ MissingFinite'
  BY DEF IInv, BestChainVerified, IndexEndsInTip, QueueInUse, AtStart, MissingFinite,
         CurrentHeight, up
<1>3. DiskFollows'
  <2>1. Cardinality(known \ onDisk.bodies) \in Nat
        /\ Cardinality(known \ onDisk.bodies) <= Cardinality(Inserter \ running)
    BY FS_CardinalityType DEF IInv, MissingFinite, DiskFollows
  <2>2. Cardinality(known \ onDisk.bodies) <= Cardinality(Inserter \ running')
    BY <2>1, ThreadsEnd
  <2> QED BY <2>2 DEF IInv, DiskFollows
<1> QED BY <1>1, <1>2, <1>3 DEF IInv

\* A thread that panics in a switch leaves its block, and what had passed, in the
\* caches.
LEMMA StopsInvariant ==
    ASSUME IInv, up, NEW b \in Block, b # Genesis, b \notin known,
           Parent(b) \in known, ~ShortFork(Parent(b)), SwitchStops(b),
           NEW t \in Inserter \intersect running, Ends(t)
    PROVE  IInv'
<1>1. /\ known' = known \union {b} /\ verified' = verified \union Passed(b)
      /\ UNCHANGED <<onDisk, best, cache>>
  BY DEF SwitchStops
<1>2. VerifiedGrows(b) /\ verified' \subseteq verified \union Path(b)
  BY <1>1, PassedFacts
<1>3. running' \subseteq running /\ tip # Genesis
  BY FirstAdopted DEF Ends
<1>4. DiskFollows' /\ MissingFinite'
  BY <1>1, <1>2, LostFollows DEF best
<1>5. onDisk' \in Database
  BY <1>1 DEF IInv, TypeOK
<1> QED BY <1>1, <1>2, <1>3, <1>4, <1>5, KeptInvariant

\* A node that starts again has genesis, in memory and on disk, and nothing else.
LEMMA RestartFacts ==
    ASSUME IInv, Restart
    PROVE  tip = Genesis /\ UNCHANGED <<store, best>> /\ running' = Thread
<1>1. tip \in Block /\ CurrentHeight \in Nat
  BY TipFacts
<1>2. KeepsHash(Anc(tip, CurrentHeight))
  <2>1. CurrentHeight \in 0 .. CurrentHeight /\ CurrentHeight < CurrentHeight + Total
    BY <1>1, TotalFacts
  <2> QED BY <2>1 DEF Restart, Startable
<1>3. tip = Genesis
  BY <1>1, <1>2, PathFacts DEF KeepsHash, CurrentHeight
<1>4. known = {Genesis} /\ verified = {Genesis}
  BY <1>3, TipFacts DEF IInv, AtStart, VerifiedClosed
<1>5. onDisk.headers = {Genesis} /\ onDisk.verified = {Genesis}
  BY <1>3, <1>4 DEF IInv, DiskFollows
<1> QED BY <1>3, <1>4, <1>5 DEF Restart, store

\* A restart fills the queue with blocks of the path of the tip, and genesis.
LEMMA RestartInvariant == ASSUME IInv, Restart PROVE IInv'
<1> DEFINE n == Min({Total, CurrentHeight + 1})
           path == [x \in 1 .. n |-> Anc(tip, CurrentHeight - n + x)]
           filler == [x \in 1 .. Total - n |-> Genesis]
           ops == [x \in 1 .. n |-> Enter(path[n + 1 - x])]
<1>1. n \in Nat \ {0} /\ n <= Total /\ n <= CurrentHeight + 1
      /\ CurrentHeight \in Nat /\ Total \in Nat
  <2>1. CurrentHeight \in Nat /\ Total \in Nat \ {0}
    BY TipFacts, TotalFacts
  <2> QED BY <2>1, MinOfTwo
<1> HIDE DEF n
<1>2. \A k \in 0 .. CurrentHeight : Anc(tip, k) \in verified
  BY TipFacts DEF IInv, VerifiedClosed, Path, CurrentHeight
<1>3. \A x \in 1 .. n : path[x] \in verified
  <2>1. \A x \in 1 .. n : CurrentHeight - n + x \in 0 .. CurrentHeight
    BY <1>1
  <2> QED BY <1>2, <2>1
<1>4. path \in Seq(verified) /\ Len(path) = n
  BY <1>1, <1>3
<1>5. filler \in Seq(verified) /\ Len(filler) = Total - n
  <2>1. Total - n \in Nat
    BY <1>1
  <2> QED BY <2>1, TipFacts
<1>6. HashesOK(Applied(NoHashes, ops))
  <2>1. \A x \in 1 .. n : ops[x].block \in Block
    <3>1. \A x \in 1 .. n : n + 1 - x \in 1 .. n
      BY <1>1
    <3>2. \A x \in 1 .. n : path[n + 1 - x] \in Block
      BY <1>3, <3>1, TipFacts
    <3> QED BY <3>2 DEF Enter
  <2>2. OpsOK(ops)
    BY <1>1, <2>1 DEF OpsOK
  <2>3. HashesOK(NoHashes)
    BY DEF HashesOK, NoHashes
  <2> HIDE DEF ops
  <2> QED BY <2>2, <2>3, AppliedType
<1>7. queue' = path \o filler /\ hashes' = Applied(NoHashes, ops)
  BY DEF Restart, n
<1> HIDE DEF path, filler, ops
<1>8. queue' \in Seq(verified) /\ queue' # << >>
  <2>1. path \in Seq(verified) /\ filler \in Seq(verified)
    BY <1>4, <1>5
  <2>2. path \o filler \in Seq(verified)
        /\ Len(path \o filler) = Len(path) + Len(filler)
    BY ONLY <2>1, ConcatProperties
  <2>3. Len(path \o filler) = Total
    BY <1>1, <1>4, <1>5, <2>2
  <2> QED BY <1>7, <2>2, <2>3, TotalFacts
<1>9. queue' \in Seq(Block) /\ \A x \in DOMAIN queue' : queue'[x] \in verified
  <2>1. Seq(verified) \subseteq Seq(Block)
    BY TipFacts
  <2> QED BY <1>8, <2>1, LenProperties, ElementOfSeq
<1>10. UNCHANGED <<store, best>> /\ running' = Thread
  BY RestartFacts
<1> USE DEF store, best
<1>11. TypeOK'
  BY <1>6, <1>7, <1>9, <1>10 DEF IInv, TypeOK, CurrentHeight, HashesOK
<1>12. StoreClosed' /\ VerifiedClosed' /\ AtStart' /\ MissingFinite'
  BY <1>10 DEF IInv, StoreClosed, VerifiedClosed, AtStart, MissingFinite
<1>13. BestChainVerified' /\ IndexEndsInTip'
  BY <1>9, <1>10 DEF IInv, BestChainVerified, IndexEndsInTip, CurrentHeight
<1>14. DiskFollows'
  <2>1. known \ onDisk.bodies = {}
    BY RestartFacts DEF IInv, AtStart, DiskFollows
  <2>2. Inserter \ Thread = {}
    BY DEF Thread
  <2>3. Cardinality(known' \ onDisk'.bodies) <= Cardinality(Inserter \ running')
    BY <1>10, <2>1, <2>2, FS_EmptySet
  <2> QED BY <1>10, <2>3 DEF IInv, DiskFollows
<1> QED BY <1>8, <1>11, <1>12, <1>13, <1>14 DEF IInv, QueueInUse

\* A block inserted by one of the threads that insert.
LEMMA InsertInvariant ==
    ASSUME IInv, NEW b \in Block \ {Genesis}, NEW t \in Inserter, Insert(t, b)
    PROVE  IInv'
<1>1. /\ up /\ b \in Block /\ b # Genesis /\ b \notin known /\ Parent(b) \in known
      /\ t \in Inserter \intersect running
  BY DEF Insert, PassesBasicCheck
<1>2. Sends(t) \/ Ends(t) => running' \subseteq running
  BY DEF Sends, Ends
<1>3. CASE ShortFork(Parent(b)) /\ InsertVerified(b) /\ Sends(t)
  BY <1>1, <1>2, <1>3, InsertVerifiedInvariant
<1>4. CASE UNCHANGED <<store, best, cache>> /\ Ends(t)
  BY <1>2, <1>4, EndedInvariant
<1>5. CASE ~ShortFork(Parent(b)) /\ InsertUnverified(b) /\ Sends(t)
  <2>1. CASE Adopts(b)
    BY <1>1, <1>2, <1>5, <2>1, SwitchInvariant DEF InsertUnverified
  <2>2. CASE ~Adopts(b)
    <3>1. /\ known' = known \union {b} /\ UNCHANGED <<verified, best, cache>>
          /\ Writes(b, {})
      BY <1>5, <2>2 DEF InsertUnverified
    <3>2. VerifiedGrows(b)
      BY <3>1 DEF VerifiedGrows, IInv, VerifiedClosed
    <3>3. tip # Genesis
      BY <1>1, <2>2, FirstAdopted
    <3>4. verified' = verified \union {} /\ tip' = tip
      BY <3>1 DEF best
    <3>5. DiskFollows' /\ MissingFinite' /\ onDisk' \in Database
      BY <1>1, <1>2, <1>5, <3>1, <3>4, WrittenFollows
    <3> QED BY <1>1, <1>2, <1>5, <3>1, <3>2, <3>3, <3>5, KeptInvariant
  <2> QED BY <2>1, <2>2
<1>6. CASE ~ShortFork(Parent(b)) /\ SwitchStops(b) /\ Ends(t)
  BY <1>1, <1>6, StopsInvariant
<1> QED BY <1>3, <1>4, <1>5, <1>6 DEF Insert

\* A block of our own, on the tip.
LEMMA MineInvariant ==
    ASSUME IInv, NEW b \in Block \ {Genesis}, Mine(b)
    PROVE  IInv'
<1>1. /\ up /\ b \in Block /\ b # Genesis /\ b \notin known
      /\ Parent(b) = tip /\ ShortFork(tip) /\ InsertVerified(b)
      /\ running' \subseteq running
  BY DEF Mine
<1>2. Parent(b) \in known
  BY <1>1, TipFacts
<1> QED BY <1>1, <1>2, InsertVerifiedInvariant

\* Threads that end, and the whole process, change nothing else.
LEMMA OthersEnd ==
    ASSUME PendingFails \/ MinerPanics \/ Crash
    PROVE  UNCHANGED <<store, best, cache>> /\ running' \subseteq running /\ up
BY DEF PendingFails, MinerPanics, Crash, Ends

-----------------------------------------------------------------------------
(* The theorems.                                                           *)

\* The inductive invariant holds of every run, with crashes at any time, threads
\* that panic and leave the others running, restarts and switches that fail.
THEOREM Invariance == Spec => []IInv
<1>1. IInv /\ [Next]_vars => IInv'
  <2> SUFFICES ASSUME IInv, [Next]_vars PROVE IInv'
    OBVIOUS
  <2>1. ASSUME NEW b \in Block \ {Genesis}, NEW t \in Inserter, Insert(t, b) PROVE IInv'
    BY <2>1, InsertInvariant
  <2>2. ASSUME NEW b \in Block \ {Genesis}, Mine(b) PROVE IInv'
    BY <2>2, MineInvariant
  <2>3. CASE PendingFails \/ MinerPanics \/ Crash
    BY <2>3, OthersEnd, EndedInvariant
  <2>4. CASE Restart
    BY <2>4, RestartInvariant
  <2>5. CASE UNCHANGED vars
    BY <2>5, EndedInvariant DEF vars
  <2> QED BY <2>1, <2>2, <2>3, <2>4, <2>5 DEF Next, Handle
<1> QED BY InitIInv, <1>1, PTL DEF Spec

\* Type correctness.
THEOREM TypeCorrect == Spec => []TypeOK
<1>1. IInv => TypeOK
  BY DEF IInv
<1> QED BY Invariance, <1>1, PTL

\* No walk of a running node towards genesis that unwraps a header misses one.
THEOREM StoreStaysClosed == Spec => []StoreClosed
<1>1. IInv => StoreClosed
  BY DEF IInv
<1> QED BY Invariance, <1>1, PTL

\* To a running node verification never skips a block, whatever the fork and
\* wherever a switch failed or panicked: the flags of a half-done switch stay.
THEOREM VerifiedStaysClosed == Spec => []VerifiedClosed
<1>1. IInv => VerifiedClosed
  BY DEF IInv
<1> QED BY Invariance, <1>1, PTL

\* No unverified block is in the index or the queue, or is the tip.
THEOREM BestChainStaysVerified == Spec => []BestChainVerified
<1>1. IInv => BestChainVerified
  BY DEF IInv
<1> QED BY Invariance, <1>1, PTL

\* The index never has a hole, a block at another height, or an entry above the
\* tip, also after a reorganisation to a branch as high as the old one.
THEOREM IndexStaysComplete == Spec => []IndexEndsInTip
<1>1. IInv => IndexEndsInTip
  BY DEF IInv
<1> QED BY Invariance, <1>1, PTL

\* However many threads panic, and wherever, what a running node reads beyond its
\* database is one block for each of them and what was marked verified below it.
THEOREM DiskStaysClose == Spec => []DiskFollows
<1>1. IInv => DiskFollows
  BY DEF IInv
<1> QED BY Invariance, <1>1, PTL

\* What a running node reads is a fork choice: whatever it checks, caches and
\* repairs, and whatever its threads leave behind, its blocks and its tip move as
\* ForkChoice says, and a restart moves neither.
THEOREM Refinement == Spec => ImplementsForkChoice
<1>1. Init => FC!Init
  BY DEF Init, FC!Init, FC!Genesis, Genesis
<1>2. IInv /\ [Next]_vars => [FC!Next]_FC!vars
  <2> SUFFICES ASSUME IInv, Next PROVE FC!Next \/ UNCHANGED <<known, tip>>
    BY DEF FC!vars, vars, store, best
  <2>1. tip \in known
    BY TipFacts
  <2> DEFINE Moves(b) == \/ tip' = tip
                         \/ tip' = b /\ Height(b) \in {Height(tip), Height(tip) + 1}
  <2>2. ASSUME NEW b \in Block, b \notin known, Parent(b) \in known,
               known' = known \union {b}, Moves(b)
        PROVE  FC!Next
    BY <2>2 DEF FC!Next, FC!Learn, FC!Parent, FC!Height, FC!Anc, Parent, Height, Anc
  <2>3. ASSUME NEW b \in Block, b \notin known, Parent(b) \in known, InsertVerified(b)
        PROVE  FC!Next
    <3>1. known' = known \union {b} /\ Moves(b)
      BY <2>3 DEF InsertVerified, AdjustBlockHashes, Adopts, CurrentHeight, best
    <3> QED BY <2>2, <2>3, <3>1
  <2>4. ASSUME NEW b \in Block, b \notin known, Parent(b) \in known, InsertUnverified(b)
        PROVE  FC!Next
    <3>1. known' = known \union {b} /\ Moves(b)
      BY <2>4 DEF InsertUnverified, SwitchLongFork, Adopts, CurrentHeight, best
    <3> QED BY <2>2, <2>4, <3>1
  <2>5. ASSUME NEW b \in Block, b \notin known, Parent(b) \in known, SwitchStops(b)
        PROVE  FC!Next
    <3>1. known' = known \union {b} /\ Moves(b)
      BY <2>5 DEF SwitchStops, best
    <3> QED BY <2>2, <2>5, <3>1
  <2>6. ASSUME NEW b \in Block \ {Genesis}, NEW t \in Inserter, Insert(t, b)
        PROVE  FC!Next \/ UNCHANGED <<known, tip>>
    BY <2>3, <2>4, <2>5, <2>6 DEF Insert, PassesBasicCheck, store, best
  <2>7. ASSUME NEW b \in Block \ {Genesis}, Mine(b) PROVE FC!Next
    BY <2>1, <2>3, <2>7 DEF Mine
  <2>8. CASE PendingFails \/ MinerPanics \/ Crash
    BY <2>8, OthersEnd DEF store, best
  <2>9. CASE Restart
    BY <2>9, RestartFacts DEF store, best
  <2> QED BY <2>6, <2>7, <2>8, <2>9 DEF Next, Handle
<1> QED BY Invariance, <1>1, <1>2, PTL DEF Spec, FC!Spec, ImplementsForkChoice

-----------------------------------------------------------------------------
(* Reorganisations of one block.  When no reorganisation is deeper, the      *)
(* index is the path of the tip and the queue its last Total blocks, and     *)
(* either is needed for the other: the walk that decides what is rewritten   *)
(* asks the queue, then the index.                                           *)

\* The queue is the end of the path of the tip, genesis in front of it.
QueueOrdered ==
    up => queue = [x \in 1 .. Total |->
                      Anc(tip, IF CurrentHeight + x > Total
                               THEN CurrentHeight + x - Total ELSE 0)]

ChainInv == IInv /\ IndexCanonical /\ QueueOrdered

\* What the queue holds, and where.
LEMMA QueueFacts ==
    ASSUME ChainInv, up
    PROVE  /\ queue \in Seq(Block) /\ Len(queue) = Total /\ queue # << >>
           /\ queue[Len(queue)] = tip
           /\ BestHeight(queue) = CurrentHeight
           /\ \A x \in 1 .. Total :
                 queue[x] = Anc(tip, IF CurrentHeight + x > Total
                                     THEN CurrentHeight + x - Total ELSE 0)
           /\ CurrentHeight \in Nat /\ Total \in Nat \ {0}
<1>1. queue = [x \in 1 .. Total |->
                  Anc(tip, IF CurrentHeight + x > Total
                           THEN CurrentHeight + x - Total ELSE 0)]
  BY DEF ChainInv, QueueOrdered
<1>2. CurrentHeight \in Nat /\ Total \in Nat \ {0} /\ tip \in Block
  BY TipFacts, TotalFacts DEF ChainInv
<1>3. queue \in Seq(Block) /\ queue # << >>
  BY DEF ChainInv, IInv, TypeOK, QueueInUse
<1>4. Len(queue) = Total
  BY <1>1, <1>2
<1>5. queue[Total] = tip
  <2>1. queue[Total] = Anc(tip, IF CurrentHeight + Total > Total
                                THEN CurrentHeight + Total - Total ELSE 0)
    BY <1>1, <1>2
  <2>2. (IF CurrentHeight + Total > Total
         THEN CurrentHeight + Total - Total ELSE 0) = CurrentHeight
    BY <1>2
  <2>3. Anc(tip, CurrentHeight) = tip
    BY <1>2, PathFacts DEF CurrentHeight
  <2> QED BY <2>1, <2>2, <2>3
<1>6. BestHeight(queue) = CurrentHeight
  BY <1>4, <1>5 DEF BestHeight, CurrentHeight
<1> QED BY <1>1, <1>2, <1>3, <1>4, <1>5, <1>6

\* Whatever the queue or the index answers, it is the ancestor of the tip.
LEMMA FoundAtHeight ==
    ASSUME ChainInv, up, NEW k \in 0 .. CurrentHeight
    PROVE  BlockHashByNumber(k) = Anc(tip, k)
<1>1. CASE Cached(queue, k)
  <2>1. CurrentHeight - k < Total
    BY <1>1, QueueFacts DEF Cached
  <2> DEFINE x == Total - (CurrentHeight - k)
  <2>2. x \in 1 .. Total /\ (IF CurrentHeight + x > Total
                             THEN CurrentHeight + x - Total ELSE 0) = k
    <3>1. CurrentHeight \in Nat /\ Total \in Nat \ {0} /\ k \in Nat /\ k <= CurrentHeight
      BY QueueFacts
    <3>2. x \in 1 .. Total /\ CurrentHeight + x - Total = k
      BY ONLY <2>1, <3>1
    <3> HIDE DEF x
    <3> QED BY ONLY <3>1, <3>2
  <2>3. BlockInfo(queue, k) = queue[x]
    BY QueueFacts DEF BlockInfo
  <2> HIDE DEF x
  <2> QED BY <1>1, <2>2, <2>3, QueueFacts DEF BlockHashByNumber
<1>2. CASE ~Cached(queue, k)
  BY <1>2 DEF BlockHashByNumber, ChainInv, IndexCanonical
<1> QED BY <1>1, <1>2

\* A block is found on the best chain where the path of the tip has it, and
\* nowhere else.
LEMMA OnTheTipsPath ==
    ASSUME ChainInv, up, NEW x, NEW k \in Nat
    PROVE  OnBestChain(x, k) <=> k <= CurrentHeight /\ x = Anc(tip, k)
<1>1. CurrentHeight \in Nat /\ DOMAIN number = 0 .. CurrentHeight
  BY QueueFacts DEF ChainInv, IInv, IndexEndsInTip
<1>2. CASE k <= CurrentHeight
  <2>1. k \in 0 .. CurrentHeight
    BY <1>1, <1>2
  <2>2. BlockHashByNumber(k) = Anc(tip, k)
    BY <2>1, FoundAtHeight
  <2> QED BY <1>1, <1>2, <2>1, <2>2 DEF OnBestChain
<1>3. CASE ~(k <= CurrentHeight)
  BY <1>1, <1>3, QueueFacts DEF OnBestChain, Cached
<1> QED BY <1>2, <1>3

\* The walk from a block of the best chain ends where it begins.
LEMMA ForkPointOnChain ==
    ASSUME ChainInv, up, NEW k \in 0 .. CurrentHeight
    PROVE  ForkPoint(Anc(tip, k)) = k
<1> DEFINE x == Anc(tip, k)
           S == {j \in 0 .. Height(x) : j = 0 \/ OnBestChain(Anc(x, j), j)}
<1>1. tip \in Block /\ Height(tip) = CurrentHeight
  BY TipFacts DEF ChainInv, CurrentHeight
<1>2. Height(x) = k /\ Anc(x, k) = x /\ k \in Nat
  BY <1>1, AncestorFacts
<1> HIDE DEF x
<1>3. OnBestChain(Anc(x, k), k)
  BY <1>2, OnTheTipsPath DEF x
<1>4. S \in SUBSET (0 .. k) /\ k \in S
  BY <1>2, <1>3
<1>5. Max(S) \in S /\ \A y \in S : Max(S) >= y
  <2> HIDE DEF S
  <2> QED BY <1>2, <1>4, MaxOfNaturals
<1>6. Max(S) = k
  <2>1. Max(S) \in 0 .. k /\ Max(S) >= k
    BY <1>4, <1>5
  <2> QED BY <1>2, <2>1
<1> QED BY <1>6 DEF ForkPoint, x

\* The height of the ancestor a proof is made for lies below the block.
LEMMA AncHeightBelow ==
    ASSUME NEW h \in Nat
    PROVE  AncHeight(h + 1) \in 0 .. h
<1> DEFINE e == EpochLen
           d == (h + 1) \div e
<1>1. e \in Nat \ {0}
  BY ParameterAssumption
<1>2. d \in Nat /\ d * e <= h + 1
  BY <1>1
<1>3. CASE d > 0
  <2>1. (d - 1) * e = d * e - e /\ (d - 1) * e \in Nat
    BY <1>1, <1>2, <1>3
  <2>2. AncHeight(h + 1) = (d - 1) * e
    BY <1>3 DEF AncHeight
  <2> QED BY <1>1, <1>2, <2>1, <2>2
<1>4. CASE ~(d > 0)
  BY <1>1, <1>2, <1>4 DEF AncHeight
<1> QED BY <1>3, <1>4

\* anc_hash finds the true ancestor, for any block on the best chain or off it.
LEMMA AncestorFound ==
    ASSUME ChainInv, up, NEW b \in Block
    PROVE  AncBlock(b) = Anc(b, AncHeight(Height(b) + 1))
<1> DEFINE n == AncHeight(Height(b) + 1)
           S == {n} \union {j \in n .. Height(b) : OnBestChain(Anc(b, j), j)}
           k == Max(S)
<1>1. Height(b) \in Nat /\ n \in 0 .. Height(b)
  <2>1. Height(b) \in Nat
    BY PathFacts
  <2> QED BY <2>1, AncHeightBelow
<1> HIDE DEF n
<1>2. S \in SUBSET (0 .. Height(b)) /\ S # {}
  BY <1>1
<1>3. k \in S
  <2> HIDE DEF S
  <2> QED BY <1>1, <1>2, MaxOfNaturals
<1>4. AncBlock(b) = IF k = n THEN Anc(b, n) ELSE BlockHashByNumber(n)
  BY DEF AncBlock, n
<1>5. ASSUME k # n PROVE BlockHashByNumber(n) = Anc(b, n)
  <2>1. k \in n .. Height(b) /\ OnBestChain(Anc(b, k), k)
    BY <1>3, <1>5
  <2> HIDE DEF k
  <2>2. k \in Nat /\ k \in 0 .. Height(b) /\ n \in 0 .. k
    BY <1>1, <2>1
  <2>3. k <= CurrentHeight /\ Anc(b, k) = Anc(tip, k)
    BY <2>1, <2>2, OnTheTipsPath
  <2>4. tip \in Block /\ CurrentHeight = Height(tip) /\ CurrentHeight \in Nat
    BY TipFacts DEF ChainInv, CurrentHeight
  <2>5. n \in 0 .. CurrentHeight /\ k \in 0 .. Height(tip)
    BY <2>2, <2>3, <2>4
  <2>6. Anc(Anc(b, k), n) = Anc(b, n) /\ Anc(Anc(tip, k), n) = Anc(tip, n)
    BY <2>2, <2>4, <2>5, AncestorFacts
  <2>7. BlockHashByNumber(n) = Anc(tip, n)
    BY <2>5, FoundAtHeight
  <2> QED BY <2>3, <2>6, <2>7
<1> HIDE DEF k
<1> QED BY <1>4, <1>5 DEF n

-----------------------------------------------------------------------------
(* The steps of such a run.                                                 *)

\* A block that follows the tip, or stands beside it, has all but itself in common
\* with the best chain.
LEMMA FollowerFacts ==
    ASSUME ChainInv, NEW b \in Block, b # Genesis, Parent(b) \in {tip, Parent(tip)}
    PROVE  /\ CurrentHeight \in Nat /\ Height(b) \in Nat \ {0}
           /\ Height(b) \in {CurrentHeight, CurrentHeight + 1}
           /\ Parent(b) = Anc(tip, Height(b) - 1)
           /\ Height(Parent(b)) = Height(b) - 1
           /\ Anc(b, Height(b)) = b
           /\ \A k \in 0 .. Height(b) - 1 : Anc(b, k) = Anc(tip, k)
<1>1. tip \in Block /\ Height(tip) = CurrentHeight /\ CurrentHeight \in Nat
      /\ Anc(tip, CurrentHeight) = tip
  BY TipFacts, PathFacts DEF ChainInv, CurrentHeight
<1>2. /\ Height(b) \in Nat \ {0} /\ Height(Parent(b)) = Height(b) - 1
      /\ \A k \in 0 .. Height(b) - 1 : Anc(Parent(b), k) = Anc(b, k)
      /\ Anc(b, Height(b)) = b
  BY ParentFacts, PathFacts
<1>3. CASE Parent(b) = tip
  BY <1>1, <1>2, <1>3
<1>4. CASE Parent(b) # tip /\ Parent(b) = Parent(tip)
  <2>1. tip # Genesis
    <3> SUFFICES ASSUME tip = Genesis PROVE Parent(tip) = tip
      BY <1>4
    <3>1. CurrentHeight = 0
      BY <1>1, PathFacts
    <3> QED BY <1>1, <3>1, SubSeqEmpty DEF Parent, Anc, Genesis, CurrentHeight, Height
  <2>2. /\ CurrentHeight \in Nat \ {0} /\ Height(Parent(tip)) = CurrentHeight - 1
        /\ \A k \in 0 .. CurrentHeight - 1 : Anc(Parent(tip), k) = Anc(tip, k)
    BY <1>1, <2>1, ParentFacts
  <2>3. Height(b) = CurrentHeight
    BY <1>2, <1>4, <2>2
  <2>4. Parent(b) = Anc(tip, Height(b) - 1)
    BY <1>1, <1>4, <2>3 DEF Parent
  <2> QED BY <1>1, <1>2, <1>4, <2>2, <2>3, <2>4
<1> QED BY <1>3, <1>4

\* Its fork is as short as can be: the walk ends at its parent, so that nothing
\* unverified is on it and it is the only block to be written.
LEMMA FollowerFork ==
    ASSUME ChainInv, up, NEW b \in Block, b # Genesis, Parent(b) \in {tip, Parent(tip)}
    PROVE  /\ ForkPoint(Parent(b)) = Height(b) - 1
           /\ ShortFork(Parent(b))
           /\ ForkTxs(Parent(b)) = {}
           /\ ShortForkBlocks(b) = <<b>>
<1> DEFINE h == Height(b) - 1
<1>1. /\ CurrentHeight \in Nat /\ Height(b) \in Nat \ {0} /\ h \in 0 .. CurrentHeight
      /\ h >= CurrentHeight - 1
      /\ Parent(b) = Anc(tip, h) /\ Height(Parent(b)) = h
  BY FollowerFacts
<1>2. ForkPoint(Parent(b)) = h
  <2> HIDE DEF h
  <2> QED BY <1>1, ForkPointOnChain
<1>3. h + 1 .. h = {}
  BY <1>1
<1>4. ShortFork(Parent(b))
  <2>1. BufferSize \in Nat \ {0}
    BY ParameterAssumption
  <2> HIDE DEF h
  <2> QED BY <1>1, <1>2, <1>3, <2>1 DEF ShortFork
<1>5. ForkTxs(Parent(b)) = {}
  <2> HIDE DEF h
  <2> QED BY <1>1, <1>2, <1>3 DEF ForkTxs
<1>6. ShortForkBlocks(b) = <<b>>
  <2>1. Height(b) - h = 1
    BY <1>1
  <2> HIDE DEF h
  <2>2. ShortForkBlocks(b) = [j \in 1 .. 1 |-> IF j = 1 THEN b ELSE Anc(b, Height(b) - j)]
    BY <1>2, <2>1 DEF ShortForkBlocks
  <2>3. \A j \in 1 .. 1 : (IF j = 1 THEN b ELSE Anc(b, Height(b) - j)) = b
    OBVIOUS
  <2> QED BY <2>2, <2>3
<1> QED BY <1>2, <1>4, <1>5, <1>6

\* b passes the checks of its transactions and becomes the tip.
Adoption(b) ==
    /\ up
    /\ b \notin known
    /\ Parent(b) \in {tip, Parent(tip)}
    /\ Ts[b] > Ts[Parent(b)] \/ Mine(b)
    /\ HasLeftBound(queue, Height(b) - 1)
    /\ Fresh(Txs[b], {}, queue, hashes, Height(b) - 1, Height(b) - 1)
    /\ AdjustBlockHashes(b)

\* What a step does to the best chain when no reorganisation is deeper than one
\* block: nothing; or the process, which has only genesis, starts again; or a
\* block is adopted.
LEMMA StepOfChain ==
    ASSUME ChainInv, Next, Extends
    PROVE  \/ UNCHANGED <<best, cache>> /\ up
           \/ Restart /\ tip = Genesis
           \/ \E b \in Block \ {Genesis} : Adoption(b)
<1>1. tip \in known /\ tip \in Block /\ CurrentHeight \in Nat
  BY TipFacts DEF ChainInv
<1>2. ASSUME NEW b \in Block \ {Genesis}, ~Adopts(b), InsertVerified(b)
      PROVE  UNCHANGED <<best, cache>>
  BY <1>2 DEF InsertVerified
<1>3. ASSUME NEW b \in Block \ {Genesis}, NEW t \in Inserter, Insert(t, b)
      PROVE  (UNCHANGED <<best, cache>> /\ up) \/ Adoption(b)
  <2>1. up /\ b \notin known /\ Ts[b] > Ts[Parent(b)]
    BY <1>3 DEF Insert, PassesBasicCheck
  <2>2. CASE /\ ShortFork(Parent(b))
             /\ HasLeftBound(queue, Height(b) - 1)
             /\ Fresh(Txs[b], ForkTxs(Parent(b)), queue, hashes, Height(b) - 1,
                      ForkPoint(Parent(b)))
             /\ InsertVerified(b)
    <3>1. CASE ~Adopts(b)
      BY <1>2, <2>1, <2>2, <3>1
    <3>2. CASE Adopts(b)
      <4>1. AdjustBlockHashes(b) /\ tip' = b
        BY <2>2, <3>2 DEF InsertVerified, AdjustBlockHashes
      <4>2. Parent(b) \in {tip, Parent(tip)}
        BY <1>1, <2>1, <4>1 DEF Extends
      <4>3. ForkPoint(Parent(b)) = Height(b) - 1 /\ ForkTxs(Parent(b)) = {}
        BY <2>1, <4>2, FollowerFork
      <4> QED BY <2>1, <2>2, <4>1, <4>2, <4>3 DEF Adoption
    <3> QED BY <3>1, <3>2
  <2>3. CASE ~ShortFork(Parent(b)) /\ InsertUnverified(b)
    <3>1. UNCHANGED <<best, cache>> \/ tip' = b
      BY <2>3 DEF InsertUnverified, SwitchLongFork
    <3>2. tip' # b
      <4> SUFFICES ASSUME tip' = b PROVE FALSE
        OBVIOUS
      <4>1. Parent(b) \in {tip, Parent(tip)}
        BY <1>1, <2>1 DEF Extends
      <4> QED BY <2>1, <2>3, <4>1, FollowerFork
    <3> QED BY <2>1, <2>3, <3>1, <3>2
  <2>4. CASE SwitchStops(b) \/ UNCHANGED <<store, best, cache>>
    BY <2>1, <2>4 DEF SwitchStops
  <2> QED BY <1>3, <2>2, <2>3, <2>4 DEF Insert
<1>4. ASSUME NEW b \in Block \ {Genesis}, Mine(b) PROVE Adoption(b)
  <2>1. /\ up /\ b \notin known /\ Parent(b) = tip
        /\ HasLeftBound(queue, ForkPoint(tip))
        /\ Fresh(Txs[b], ForkTxs(tip), queue, hashes, ForkPoint(tip), ForkPoint(tip))
        /\ InsertVerified(b)
    BY <1>4 DEF Mine
  <2>2. /\ ForkPoint(tip) = Height(b) - 1 /\ ForkTxs(tip) = {}
    BY <2>1, FollowerFork
  <2>3. Adopts(b)
    BY <2>1, FollowerFacts DEF Adopts
  <2>4. AdjustBlockHashes(b)
    BY <2>1, <2>3 DEF InsertVerified
  <2> QED BY <1>4, <2>1, <2>2, <2>4 DEF Adoption
<1>5. CASE PendingFails \/ MinerPanics \/ Crash
  BY <1>5, OthersEnd
<1>6. CASE Restart
  BY <1>6, RestartFacts DEF ChainInv
<1> QED BY <1>3, <1>4, <1>5, <1>6 DEF Next, Handle

\* What adopting b does to the queue and to the hashes: the oldest entry makes room
\* for the next block, a block as high as the tip takes the tip's place.
LEMMA AdoptionFacts ==
    ASSUME ChainInv, NEW b \in Block, b # Genesis, Adoption(b)
    PROVE  /\ tip' = b /\ CurrentHeight' = Height(b)
           /\ number' = NumberAlong(b, Height(b) - 1)
           /\ txAddr' = AddressesWith(<<b>>)
           /\ LET q == IF CurrentHeight < Height(b) THEN LeftShift(queue) ELSE queue
              IN /\ q \in Seq(Block) /\ Len(q) = Total
                 /\ queue' = [x \in 1 .. Total |-> IF x = Total THEN b ELSE q[x]]
                 /\ hashes' = Applied(hashes, <<Leave(q[Total]), Enter(b)>>)
           /\ LeftShift(queue) \in Seq(Block) /\ Len(LeftShift(queue)) = Total
           /\ \A x \in 1 .. Total :
                 LeftShift(queue)[x] = IF x = Total THEN queue[1] ELSE queue[x + 1]
<1> DEFINE q == IF CurrentHeight < Height(b) THEN LeftShift(queue) ELSE queue
<1>1. /\ queue \in Seq(Block) /\ Len(queue) = Total /\ queue # << >>
      /\ Total \in Nat \ {0}
  BY QueueFacts DEF Adoption
<1>2. ForkPoint(Parent(b)) = Height(b) - 1 /\ ShortForkBlocks(b) = <<b>>
  BY FollowerFork DEF Adoption
<1>3. /\ LeftShift(queue) \in Seq(Block) /\ Len(LeftShift(queue)) = Total
      /\ \A x \in 1 .. Total :
            LeftShift(queue)[x] = IF x = Total THEN queue[1] ELSE queue[x + 1]
  BY <1>1, ShiftedEntries
<1>4. q \in Seq(Block) /\ Len(q) = Total /\ q # << >>
  BY <1>1, <1>3, EmptySeq
<1>5. /\ tip' = b /\ number' = NumberAlong(b, Height(b) - 1)
      /\ txAddr' = AddressesWith(<<b>>)
      /\ queue' = UpdatedQueue(q, <<b>>, Total)
      /\ hashes' = Applied(hashes, UpdateOps(q, <<b>>, Total))
  BY <1>2 DEF Adoption, AdjustBlockHashes
<1> HIDE DEF q
<1>6. /\ UpdatedQueue(q, <<b>>, Total) = [x \in 1 .. Total |-> IF x = Total THEN b ELSE q[x]]
      /\ UpdateOps(q, <<b>>, Total) = <<Leave(q[Total]), Enter(b)>>
  BY <1>4, UpdatedByOne
<1>7. CurrentHeight' = Height(b)
  BY <1>5 DEF CurrentHeight
<1> QED BY <1>3, <1>4, <1>5, <1>6, <1>7 DEF q

\* After an adoption the index is the path of the new tip.
LEMMA AdoptionIndexed ==
    ASSUME ChainInv, NEW b \in Block, b # Genesis, Adoption(b)
    PROVE  IndexCanonical'
<1>1. /\ tip' = b /\ CurrentHeight' = Height(b)
      /\ number' = NumberAlong(b, Height(b) - 1)
  BY AdoptionFacts
<1>2. /\ CurrentHeight \in Nat /\ Height(b) \in Nat \ {0}
      /\ Height(b) \in {CurrentHeight, CurrentHeight + 1}
      /\ \A k \in 0 .. Height(b) - 1 : Anc(b, k) = Anc(tip, k)
  BY FollowerFacts DEF Adoption
<1>3. DOMAIN number = 0 .. CurrentHeight
  BY DEF ChainInv, IInv, IndexEndsInTip
<1>4. ASSUME NEW k \in 0 .. Height(b) PROVE number'[k] = Anc(b, k)
  <2>1. k \in DOMAIN number \union {Height(b)}
    BY <1>2, <1>3
  <2>2. number'[k] = IF k > Height(b) - 1 THEN Anc(b, k) ELSE number[k]
    BY <1>1, <2>1 DEF NumberAlong
  <2>3. CASE k > Height(b) - 1
    BY <2>2, <2>3
  <2>4. CASE ~(k > Height(b) - 1)
    <3>1. k \in 0 .. Height(b) - 1 /\ k \in 0 .. CurrentHeight
      BY <1>2, <2>4
    <3> QED BY <1>2, <2>2, <2>4, <3>1 DEF ChainInv, IndexCanonical
  <2> QED BY <2>3, <2>4
<1> QED BY <1>1, <1>4 DEF IndexCanonical

\* After an adoption the queue is the window that ends in the new tip.
LEMMA AdoptionQueued ==
    ASSUME ChainInv, NEW b \in Block, b # Genesis, Adoption(b)
    PROVE  QueueOrdered'
<1> DEFINE q == IF CurrentHeight < Height(b) THEN LeftShift(queue) ELSE queue
           w(h, x) == IF h + x > Total THEN h + x - Total ELSE 0
<1>1. /\ tip' = b /\ CurrentHeight' = Height(b)
      /\ queue' = [x \in 1 .. Total |-> IF x = Total THEN b ELSE q[x]]
      /\ \A x \in 1 .. Total :
                 LeftShift(queue)[x] = IF x = Total THEN queue[1] ELSE queue[x + 1]
  BY AdoptionFacts
<1>2. /\ CurrentHeight \in Nat /\ Height(b) \in Nat \ {0}
      /\ Height(b) \in {CurrentHeight, CurrentHeight + 1}
      /\ \A k \in 0 .. Height(b) - 1 : Anc(b, k) = Anc(tip, k)
      /\ Anc(b, Height(b)) = b
  BY FollowerFacts DEF Adoption
<1>3. /\ Total \in Nat \ {0}
      /\ \A x \in 1 .. Total : queue[x] = Anc(tip, w(CurrentHeight, x))
  BY QueueFacts DEF Adoption
<1>4. ASSUME NEW x \in 1 .. Total
      PROVE  (IF x = Total THEN b ELSE q[x]) = Anc(b, w(Height(b), x))
  <2>1. CASE x = Total
    BY <1>2, <1>3, <2>1
  <2>2. CASE x # Total
    <3>1. w(Height(b), x) \in 0 .. Height(b) - 1
      BY <1>2, <1>3, <2>2
    <3>2. q[x] = Anc(tip, w(Height(b), x))
      <4>1. CASE CurrentHeight < Height(b)
        <5>1. x + 1 \in 1 .. Total /\ w(Height(b), x) = w(CurrentHeight, x + 1)
          BY <1>2, <1>3, <2>2, <4>1
        <5>2. q[x] = queue[x + 1]
          BY <1>1, <2>2, <4>1
        <5> QED BY <1>3, <5>1, <5>2
      <4>2. CASE ~(CurrentHeight < Height(b))
        <5>1. Height(b) = CurrentHeight
          BY <1>2, <4>2
        <5> QED BY <1>3, <4>2, <5>1
      <4> QED BY <4>1, <4>2
    <3>3. Anc(b, w(Height(b), x)) = Anc(tip, w(Height(b), x))
      BY <1>2, <3>1
    <3> QED BY <2>2, <3>2, <3>3
  <2> QED BY <2>1, <2>2
<1>5. queue' = [x \in 1 .. Total |-> Anc(b, w(Height(b), x))]
  BY <1>1, <1>4
<1> QED BY <1>1, <1>5 DEF QueueOrdered

\* A node that has only genesis starts again with the queue it began with.
LEMMA RestartQueued ==
    ASSUME Restart, tip = Genesis
    PROVE  /\ queue' = [x \in 1 .. Total |-> Genesis]
           /\ hashes' = Applied(NoHashes, <<Enter(Genesis)>>)
<1> DEFINE n == Min({Total, CurrentHeight + 1})
           path == [x \in 1 .. n |-> Anc(tip, CurrentHeight - n + x)]
<1>1. Genesis \in Block /\ CurrentHeight = 0 /\ Total \in Nat \ {0}
  BY BlockAssumption, PathFacts, TotalFacts DEF CurrentHeight
<1>2. n = 1
  BY <1>1, MinOfTwo
<1>3. path = <<Genesis>>
  <2>1. Anc(Genesis, 0) = Genesis
    BY <1>1, PathFacts
  <2> QED BY <1>1, <1>2, <2>1
<1>4. /\ queue' = path \o [x \in 1 .. Total - n |-> Genesis]
      /\ hashes' = Applied(NoHashes, [x \in 1 .. n |-> Enter(path[n + 1 - x])])
  BY DEF Restart
<1> HIDE DEF n, path
<1>5. <<Genesis>> \o [x \in 1 .. Total - 1 |-> Genesis] = [x \in 1 .. Total |-> Genesis]
  <2> DEFINE s == [x \in 1 .. Total - 1 |-> Genesis]
             g == <<Genesis>>
             all == [x \in 1 .. Total |-> Genesis]
  <2>1. /\ s \in Seq({Genesis}) /\ Len(s) = Total - 1
        /\ \A x \in 1 .. Total - 1 : s[x] = Genesis
    BY <1>1
  <2>2. g \in Seq({Genesis}) /\ Len(g) = 1 /\ g[1] = Genesis
    OBVIOUS
  <2>3. all \in Seq({Genesis}) /\ Len(all) = Total
        /\ \A x \in 1 .. Total : all[x] = Genesis
    BY <1>1
  <2> HIDE DEF s, g, all
  <2>4. /\ g \o s \in Seq({Genesis}) /\ Len(g \o s) = Len(g) + Len(s)
        /\ \A x \in 1 .. Len(g) + Len(s) :
              (g \o s)[x] = IF x <= Len(g) THEN g[x] ELSE s[x - Len(g)]
    BY ONLY <2>1, <2>2, ConcatProperties
  <2>5. Len(g \o s) = Total /\ \A x \in 1 .. Total : (g \o s)[x] = Genesis
    BY <1>1, <2>1, <2>2, <2>4
  <2>6. g \o s = all
    BY <2>3, <2>4, <2>5, SeqEqual
  <2> QED BY <2>6 DEF s, g, all
<1>6. [x \in 1 .. n |-> Enter(path[n + 1 - x])] = <<Enter(Genesis)>>
  BY <1>2, <1>3
<1> QED BY <1>2, <1>3, <1>4, <1>5, <1>6

\* The fresh store.
LEMMA InitChainInv == Init => ChainInv
<1> SUFFICES ASSUME Init PROVE ChainInv
  OBVIOUS
<1>1. tip = Genesis /\ CurrentHeight = 0 /\ Anc(Genesis, 0) = Genesis
  BY BlockAssumption, PathFacts DEF Init, CurrentHeight
<1>2. IndexCanonical
  BY <1>1 DEF Init, IndexCanonical
<1>3. QueueOrdered
  <2>1. \A x \in 1 .. Total : ~(0 + x > Total)
    BY TotalFacts
  <2> QED BY <1>1, <2>1 DEF Init, QueueOrdered
<1> QED BY <1>2, <1>3, InitIInv DEF ChainInv

\* No step breaks the order of index and queue.
LEMMA ChainStep ==
    ASSUME ChainInv, IInv', Next, Extends
    PROVE  ChainInv'
<1>1. CASE UNCHANGED <<best, cache>> /\ up
  BY <1>1 DEF ChainInv, IndexCanonical, QueueOrdered, CurrentHeight, best, cache
<1>2. CASE Restart /\ tip = Genesis
  <2>1. UNCHANGED <<number, tip>>
    BY <1>2 DEF Restart, best
  <2>2. CurrentHeight' = 0 /\ Anc(Genesis, 0) = Genesis
    BY <1>2, <2>1, BlockAssumption, PathFacts DEF CurrentHeight
  <2>3. IndexCanonical'
    BY <2>1 DEF ChainInv, IndexCanonical, CurrentHeight
  <2>4. QueueOrdered'
    <3>1. \A x \in 1 .. Total : ~(0 + x > Total)
      BY TotalFacts
    <3>2. queue' = [x \in 1 .. Total |-> Genesis]
      BY <1>2, RestartQueued
    <3> QED BY <1>2, <2>1, <2>2, <3>1, <3>2 DEF QueueOrdered
  <2> QED BY <2>3, <2>4 DEF ChainInv
<1>3. ASSUME NEW b \in Block \ {Genesis}, Adoption(b) PROVE ChainInv'
  BY <1>3, AdoptionIndexed, AdoptionQueued DEF ChainInv
<1> QED BY <1>1, <1>2, <1>3, StepOfChain

-----------------------------------------------------------------------------
(* Reorganisations of any depth below buffer_size.  They disorder the queue   *)
(* (see Truthful), so that a walk may go on below the block where the fork     *)
(* leaves the best chain; but it never ends off that chain, and what is        *)
(* rewritten needlessly is rewritten with itself.                              *)

ShortInv ==
    /\ IInv /\ IndexCanonical
    /\ up => Len(queue) = Total /\ Truthful(queue, tip)

\* Where the walk from a block ends, its path and the tip's are one.
LEMMA ForkPointShared ==
    ASSUME ShortInv, up, NEW x \in Block
    PROVE  ForkPoint(x) \in 0 .. Height(x) /\ Anc(x, ForkPoint(x)) \in Path(tip)
<1> DEFINE S == {k \in 0 .. Height(x) : k = 0 \/ OnBestChain(Anc(x, k), k)}
           k == ForkPoint(x)
           c == Anc(x, k)
<1>1. Height(x) \in Nat /\ Anc(x, 0) = Genesis
  BY PathFacts
<1>2. S \in SUBSET (0 .. Height(x)) /\ 0 \in S
  BY <1>1
<1>3. Max(S) \in S
  BY <1>1, <1>2, MaxOfNaturals
<1>4. k \in 0 .. Height(x) /\ (k = 0 \/ OnBestChain(c, k))
  BY <1>3 DEF ForkPoint
<1> HIDE DEF k
<1>5. c \in Block /\ Height(c) = k
  BY <1>4, AncestorFacts
<1>6. /\ tip \in Block /\ queue \in Seq(Block) /\ queue # << >> /\ Truthful(queue, tip)
      /\ DOMAIN number = 0 .. CurrentHeight
  BY TipFacts DEF ShortInv, IInv, TypeOK, QueueInUse, IndexEndsInTip
<1>7. ASSUME k = 0 PROVE c \in Path(tip)
  BY <1>1, <1>6, <1>7, PathFacts
<1>8. ASSUME OnBestChain(c, k), Cached(queue, k) PROVE c \in Path(tip)
  <2>1. BlockInfo(queue, Height(c)) = c
    BY <1>5, <1>8 DEF OnBestChain, BlockHashByNumber
  <2> QED BY <1>5, <1>6, <1>8, <2>1, TruthfulAnswers
<1>9. ASSUME OnBestChain(c, k), ~Cached(queue, k) PROVE c \in Path(tip)
  <2>1. k \in 0 .. CurrentHeight /\ number[k] = c
    BY <1>6, <1>9 DEF OnBestChain, BlockHashByNumber
  <2> QED BY <2>1 DEF ShortInv, IndexCanonical, Path, CurrentHeight
<1> QED BY <1>4, <1>7, <1>8, <1>9 DEF k

\* A block on a short fork, adopted, takes the index with it.
LEMMA ShortAdoption ==
    ASSUME ShortInv, up, NEW b \in Block \ {Genesis}, Adopts(b), AdjustBlockHashes(b)
    PROVE  IndexCanonical' /\ Len(queue') = Total /\ Truthful(queue', tip')
<1> DEFINE c == ForkPoint(Parent(b))
           p == IF CurrentHeight < Height(b) THEN LeftShift(queue) ELSE queue
<1>1. /\ tip \in Block /\ queue \in Seq(Block) /\ queue # << >> /\ Truthful(queue, tip)
      /\ Len(queue) = Total
      /\ DOMAIN number = 0 .. CurrentHeight /\ CurrentHeight = Height(tip)
      /\ \A k \in 0 .. CurrentHeight : number[k] = Anc(tip, k)
  BY TipFacts DEF ShortInv, IInv, TypeOK, QueueInUse, IndexEndsInTip, IndexCanonical, CurrentHeight
<1>2. /\ Height(b) \in Nat \ {0} /\ Parent(b) \in Block /\ Height(Parent(b)) = Height(b) - 1
      /\ \A k \in 0 .. Height(b) - 1 : Anc(Parent(b), k) = Anc(b, k)
  BY ParentFacts
<1>3. c \in 0 .. Height(b) - 1 /\ Anc(b, c) \in Path(tip)
  BY <1>2, ForkPointShared
<1>4. /\ number' = NumberAlong(b, c) /\ tip' = b
      /\ queue' = UpdatedQueue(p, ShortForkBlocks(b), Total)
      /\ Height(b) \in {CurrentHeight, CurrentHeight + 1}
  BY DEF AdjustBlockHashes, Adopts
<1>5. ShortForkBlocks(b) = ForkBlocks(b, c)
  BY DEF ShortForkBlocks, ForkBlocks
<1> HIDE DEF c
<1>6. Len(queue') = Total /\ Truthful(queue', tip')
  <2>1. /\ Truthful(UpdatedQueue(p, ForkBlocks(b, c), Len(queue)), b)
        /\ Len(UpdatedQueue(p, ForkBlocks(b, c), Len(queue))) = Len(queue)
    BY <1>1, <1>3, <1>4, TruthfulAfterFork
  <2> HIDE DEF p
  <2> QED BY <1>1, <1>4, <1>5, <2>1
<1>7. Height(tip) \in Nat /\ c \in 0 .. Height(tip) /\ \A k \in 0 .. c : Anc(tip, k) = Anc(b, k)
  <2>1. c \in 0 .. Height(b)
    BY <1>2, <1>3
  <2> QED BY <1>1, <1>3, <2>1, CommonPath
<1>8. ASSUME NEW k \in 0 .. Height(b) PROVE number'[k] = Anc(b, k)
  <2>1. k \in DOMAIN number \union {Height(b)}
    BY <1>1, <1>2, <1>4, <1>7
  <2>2. number'[k] = IF k > c THEN Anc(b, k) ELSE number[k]
    BY <1>4, <2>1 DEF NumberAlong
  <2>3. k > c \/ (k \in 0 .. c /\ k \in 0 .. CurrentHeight)
    BY <1>1, <1>2, <1>3, <1>7
  <2> QED BY <1>1, <1>2, <1>3, <1>7, <2>2, <2>3
<1>9. IndexCanonical'
  BY <1>4, <1>8 DEF IndexCanonical, CurrentHeight
<1> QED BY <1>6, <1>9

\* The queue that a node with nothing but genesis starts with.
LEMMA GenesisTruthful ==
    ASSUME NEW q, q = [x \in 1 .. Total |-> Genesis]
    PROVE  Len(q) = Total /\ Truthful(q, Genesis)
<1>1. Total \in Nat \ {0} /\ Height(Genesis) = 0 /\ Genesis \in Path(Genesis)
  BY TotalFacts, PathFacts, BlockAssumption
<1>2. Len(q) = Total /\ DOMAIN q = 1 .. Total /\ \A x \in 1 .. Total : q[x] = Genesis
  BY <1>1
<1>3. Lag(q, Len(q), Genesis) = 0
  BY <1>1, <1>2 DEF Lag
<1> QED BY <1>1, <1>2, <1>3 DEF Truthful

\* A chain store that starts with an empty database is in ShortInv: index,
\* queue and tip are genesis.
LEMMA InitShortInv == Init => ShortInv
<1> SUFFICES ASSUME Init PROVE ShortInv
  OBVIOUS
<1>1. IInv /\ IndexCanonical
  BY InitChainInv DEF ChainInv
<1>2. Len(queue) = Total /\ Truthful(queue, tip)
  BY GenesisTruthful DEF Init
<1> QED BY <1>1, <1>2 DEF ShortInv

\* A step of such a run moves the tip as ShortAdoption says, or not at all.
LEMMA ShortStep == ASSUME ShortInv, IInv', Next, StaysShort PROVE ShortInv'
<1>1. /\ tip \in Block /\ tip \in known /\ CurrentHeight \in Nat
  BY TipFacts DEF ShortInv
<1>2. ASSUME UNCHANGED <<best, cache>>, up PROVE ShortInv'
  BY <1>2 DEF ShortInv, IndexCanonical, CurrentHeight, best, cache
<1>3. ASSUME NEW b \in Block \ {Genesis}, up, InsertVerified(b) PROVE ShortInv'
  <2>1. CASE Adopts(b)
    <3>1. AdjustBlockHashes(b)
      BY <1>3, <2>1 DEF InsertVerified
    <3> QED BY <1>3, <2>1, <3>1, ShortAdoption DEF ShortInv
  <2>2. CASE ~Adopts(b)
    BY <1>2, <1>3, <2>2 DEF InsertVerified
  <2> QED BY <2>1, <2>2
<1>4. ASSUME NEW b \in Block \ {Genesis}, NEW t \in Inserter, Insert(t, b) PROVE ShortInv'
  <2>1. up /\ b \notin known
    BY <1>4 DEF Insert, PassesBasicCheck
  <2>2. CASE InsertVerified(b)
    BY <1>3, <2>1, <2>2
  <2>3. CASE ~ShortFork(Parent(b)) /\ InsertUnverified(b)
    <3>1. UNCHANGED <<best, cache>> \/ tip' = b
      BY <2>3 DEF InsertUnverified, SwitchLongFork
    <3>2. tip' # b
      BY <1>1, <2>1, <2>3 DEF StaysShort
    <3> QED BY <1>2, <2>1, <3>1, <3>2
  <2>4. CASE SwitchStops(b) \/ UNCHANGED <<store, best, cache>>
    BY <1>2, <2>1, <2>4 DEF SwitchStops
  <2> QED BY <1>4, <2>2, <2>3, <2>4 DEF Insert
<1>5. ASSUME NEW b \in Block \ {Genesis}, Mine(b) PROVE ShortInv'
  BY <1>3, <1>5 DEF Mine
<1>6. CASE PendingFails \/ MinerPanics \/ Crash
  BY <1>2, <1>6, OthersEnd
<1>7. CASE Restart
  <2>1. tip = Genesis /\ UNCHANGED <<number, tip>>
    BY <1>7, RestartFacts DEF ShortInv, best
  <2>2. queue' = [x \in 1 .. Total |-> Genesis]
    BY <1>7, <2>1, RestartQueued
  <2>3. Len(queue') = Total /\ Truthful(queue', tip')
    BY <2>1, <2>2, GenesisTruthful
  <2> QED BY <2>1, <2>3 DEF ShortInv, IndexCanonical, CurrentHeight
<1> QED BY <1>4, <1>5, <1>6, <1>7 DEF Next, Handle

-----------------------------------------------------------------------------
(* Transactions.  Within the window the map of hashes keeps one from coming  *)
(* back; past it, times do, of all that are not dated ahead.  Where one has   *)
(* come back the map no longer holds the window: it is exact of those that    *)
(* the best chain carries once.                                               *)

\* t is carried by the path of the tip at height j and nowhere else.
CarriedOnce(t, j) ==
    /\ t \in TxSet(Anc(tip, j))
    /\ \A i \in 0 .. CurrentHeight : i # j => t \notin TxSet(Anc(tip, i))

\* The map holds each such transaction of the blocks that the next check looks at.
HeldInWindow ==
    up => \A t \in Tx : \A j \in 0 .. CurrentHeight :
             CarriedOnce(t, j) /\ j >= CurrentHeight - 1 - Lmt
                => t \in DOMAIN hashes /\ hashes[t] = j

WindowStart == IF CurrentHeight >= Total THEN CurrentHeight + 1 - Total ELSE 0

\* Every address is a place in the block it names.
PlacesExist ==
    \A t \in DOMAIN txAddr : txAddr[t].index + 1 \in DOMAIN Txs[txAddr[t].block]

TxInv ==
    /\ ChainInv
    /\ RepeatsAreLate
    /\ HeldInWindow
    /\ AddressesExact
    /\ PlacesExist

\* A body carries transactions, that of genesis none.
LEMMA TxSetFacts ==
    ASSUME NEW b \in Block
    PROVE  TxSet(b) \subseteq Tx /\ TxSet(Genesis) = {}
<1>1. TxSet(b) \subseteq Tx
  BY BodyAssumption, LenProperties, ElementOfSeq DEF TxSet
<1>2. TxSet(Genesis) = {}
  BY BodyAssumption DEF TxSet
<1> QED BY <1>1, <1>2

\* What an adoption keeps of the path of the tip.
LEMMA AdoptionPath ==
    ASSUME TxInv, NEW b \in Block, b # Genesis, Adoption(b)
    PROVE  /\ tip' = b /\ CurrentHeight' = Height(b)
           /\ CurrentHeight \in Nat /\ Height(b) \in Nat \ {0}
           /\ Height(b) \in {CurrentHeight, CurrentHeight + 1}
           /\ \A k \in 0 .. Height(b) - 1 : Anc(b, k) = Anc(tip, k)
           /\ Anc(b, Height(b)) = b
           /\ tip \in Block /\ CurrentHeight = Height(tip) /\ Anc(tip, CurrentHeight) = tip
           /\ Lmt \in Nat /\ BufferSize \in Nat \ {0} /\ Total = Lmt + BufferSize + 1
<1>1. tip' = b /\ CurrentHeight' = Height(b)
  BY AdoptionFacts DEF TxInv
<1>2. /\ CurrentHeight \in Nat /\ Height(b) \in Nat \ {0}
      /\ Height(b) \in {CurrentHeight, CurrentHeight + 1}
      /\ \A k \in 0 .. Height(b) - 1 : Anc(b, k) = Anc(tip, k)
      /\ Anc(b, Height(b)) = b
  BY FollowerFacts DEF Adoption, TxInv
<1>3. tip \in Block /\ CurrentHeight = Height(tip) /\ Anc(tip, CurrentHeight) = tip
  BY TipFacts, PathFacts DEF TxInv, ChainInv, CurrentHeight
<1>4. Lmt \in Nat /\ BufferSize \in Nat \ {0} /\ Total = Lmt + BufferSize + 1
  BY ParameterAssumption DEF Total
<1> QED BY <1>1, <1>2, <1>3, <1>4

\* Of the blocks below b the one at height j, and no other, carries t.  Then it is the
\* only one of the best chain, unless j has left the window that b is checked by.
LEMMA OnceBelow ==
    ASSUME TxInv, NEW b \in Block, b # Genesis, Adoption(b),
           NEW j \in 0 .. Height(b) - 1, j >= Height(b) - 1 - Lmt,
           NEW t \in TxSet(Anc(tip, j)),
           \A i \in 0 .. Height(b) - 1 : i # j => t \notin TxSet(Anc(tip, i))
    PROVE  /\ t \in DOMAIN hashes /\ hashes[t] = j
           /\ Height(b) = CurrentHeight => t \notin TxSet(tip)
<1>1. /\ CurrentHeight \in Nat /\ Height(b) \in Nat \ {0}
      /\ Height(b) \in {CurrentHeight, CurrentHeight + 1}
      /\ tip \in Block /\ CurrentHeight = Height(tip) /\ Anc(tip, CurrentHeight) = tip
      /\ Lmt \in Nat
  BY AdoptionPath
<1>2. j \in 0 .. CurrentHeight /\ j >= CurrentHeight - 1 - Lmt
  BY <1>1
<1>3. ASSUME Height(b) = CurrentHeight PROVE t \notin TxSet(tip)
  <2> SUFFICES ASSUME t \in TxSet(tip) PROVE FALSE
    OBVIOUS
  <2>1. CurrentHeight \in 1 .. CurrentHeight /\ j \in 0 .. CurrentHeight - 1
    BY <1>1, <1>3
  <2>2. t \in TxSet(Anc(tip, j)) \intersect TxSet(Anc(tip, CurrentHeight))
        /\ \A i \in 0 .. CurrentHeight - 1 : i # j => t \notin TxSet(Anc(tip, i))
    BY <1>1, <1>3
  <2>3. j + Lmt < CurrentHeight - 1
    BY <2>1, <2>2 DEF TxInv, RepeatsAreLate
  <2> QED BY <1>1, <1>3, <2>3
<1>4. \A i \in 0 .. CurrentHeight : i # j => t \notin TxSet(Anc(tip, i))
  <2> SUFFICES ASSUME NEW i \in 0 .. CurrentHeight, i # j PROVE t \notin TxSet(Anc(tip, i))
    OBVIOUS
  <2>1. CASE i \in 0 .. Height(b) - 1
    BY <2>1
  <2>2. CASE i \notin 0 .. Height(b) - 1
    <3>1. i = CurrentHeight /\ Height(b) = CurrentHeight
      BY <1>1, <2>2
    <3> QED BY <1>1, <1>3, <3>1
  <2> QED BY <2>1, <2>2
<1>5. t \in Tx
  <2>1. Anc(tip, j) \in Block
    BY <1>1, <1>2, AncestorFacts
  <2> QED BY <2>1, TxSetFacts
<1>6. t \in DOMAIN hashes /\ hashes[t] = j
  BY <1>2, <1>4, <1>5 DEF TxInv, HeldInWindow, CarriedOnce, Adoption
<1> QED BY <1>3, <1>6

\* What the checks let through is dated after the first block of the window, and if
\* one block below carries it, that block has left the window.
LEMMA FreshIsLate ==
    ASSUME TxInv, NEW b \in Block, b # Genesis, Adoption(b),
           NEW j \in 0 .. Height(b) - 1,
           NEW t, t \in TxSet(Anc(tip, j)), t \in TxSet(b),
           \A i \in 0 .. Height(b) - 1 : i # j => t \notin TxSet(Anc(tip, i))
    PROVE  /\ j + Lmt < Height(b) - 1
           /\ TxTime[t] > BlockTime(Anc(tip, Height(b) - 1 - Lmt))
<1> DEFINE h == Height(b) - 1
           left == queue[LeftBound(h) + 1]
           l == IF h > Lmt THEN h - Lmt ELSE 0
<1>1. /\ CurrentHeight \in Nat /\ h \in 0 .. CurrentHeight /\ h >= CurrentHeight - 1
      /\ tip \in Block /\ CurrentHeight = Height(tip)
      /\ Lmt \in Nat /\ BufferSize \in Nat \ {0} /\ Total = Lmt + BufferSize + 1
  BY AdoptionPath
<1>2. Len(queue) = Total
      /\ \A x \in 1 .. Total :
            queue[x] = Anc(tip, IF CurrentHeight + x > Total
                                THEN CurrentHeight + x - Total ELSE 0)
  BY QueueFacts DEF Adoption, TxInv
<1>3. left = Anc(tip, l)
  <2>1. LeftBound(h) = BufferSize + h - CurrentHeight /\ LeftBound(h) \in 0 .. Total - 1
    BY <1>2 DEF LeftBound, Adoption, HasLeftBound
  <2> DEFINE x == LeftBound(h) + 1
  <2>2. x \in 1 .. Total
        /\ (IF CurrentHeight + x > Total THEN CurrentHeight + x - Total ELSE 0) = l
    BY <1>1, <2>1
  <2> QED BY <1>2, <2>2
<1>4. l \in 0 .. CurrentHeight
  BY <1>1
<1>5. Height(left) = l
  BY <1>1, <1>3, <1>4, AncestorFacts
<1>6. PICK i \in DOMAIN Txs[b] : Txs[b][i] = t
  BY DEF TxSet
<1>7. TxTime[t] > BlockTime(left) /\ ~HeldWithin(hashes, t, l, h)
  BY <1>5, <1>6 DEF Adoption, Fresh, BlockTime
<1> HIDE DEF left
<1>8. j + Lmt < h
  <2> SUFFICES ASSUME j >= h - Lmt PROVE FALSE
    BY <1>1
  <2>1. t \in DOMAIN hashes /\ hashes[t] = j
    BY <1>1, OnceBelow
  <2>2. j \in l .. h
    BY <1>1
  <2> QED BY <1>7, <2>1, <2>2 DEF HeldWithin
<1>9. l = h - Lmt
  BY <1>1, <1>8
<1> QED BY <1>3, <1>7, <1>8, <1>9

\* A transaction that comes back comes back late.
LEMMA AdoptionRepeats ==
    ASSUME TxInv, NEW b \in Block, b # Genesis, Adoption(b)
    PROVE  RepeatsAreLate'
<1>1. /\ tip' = b /\ CurrentHeight' = Height(b)
      /\ CurrentHeight \in Nat /\ Height(b) \in Nat \ {0}
      /\ Height(b) \in {CurrentHeight, CurrentHeight + 1}
      /\ \A k \in 0 .. Height(b) - 1 : Anc(b, k) = Anc(tip, k)
      /\ Anc(b, Height(b)) = b /\ Lmt \in Nat
  BY AdoptionPath
<1>2. ASSUME NEW k \in 1 .. Height(b), NEW j \in 0 .. k - 1,
             NEW t \in TxSet(Anc(b, j)) \intersect TxSet(Anc(b, k)),
             \A i \in 0 .. k - 1 : i # j => t \notin TxSet(Anc(b, i))
      PROVE  j + Lmt < k - 1 /\ TxTime[t] > BlockTime(Anc(b, k - 1 - Lmt))
  <2>1. j \in 0 .. Height(b) - 1 /\ t \in TxSet(Anc(tip, j))
        /\ \A i \in 0 .. k - 1 : i # j => t \notin TxSet(Anc(tip, i))
    BY <1>1, <1>2
  <2>2. j + Lmt < k - 1 /\ TxTime[t] > BlockTime(Anc(tip, k - 1 - Lmt))
    <3>1. CASE k = Height(b)
      BY <1>1, <1>2, <2>1, <3>1, FreshIsLate
    <3>2. CASE k # Height(b)
      <4>1. k \in 0 .. Height(b) - 1 /\ k \in 1 .. CurrentHeight
        BY <1>1, <3>2
      <4>2. t \in TxSet(Anc(tip, j)) \intersect TxSet(Anc(tip, k))
        BY <1>1, <1>2, <2>1, <4>1
      <4> QED BY <2>1, <4>1, <4>2 DEF TxInv, RepeatsAreLate
    <3> QED BY <3>1, <3>2
  <2>3. k - 1 - Lmt \in 0 .. Height(b) - 1
    BY <1>1, <2>2
  <2> QED BY <1>1, <2>2, <2>3
<1>3. \A x : BlockTime(x)' = BlockTime(x)
  BY DEF BlockTime
<1> QED BY <1>1, <1>2, <1>3 DEF RepeatsAreLate

\* The map follows the window.
LEMMA AdoptionHashes ==
    ASSUME TxInv, NEW b \in Block, b # Genesis, Adoption(b)
    PROVE  HeldInWindow'
<1> DEFINE q == IF CurrentHeight < Height(b) THEN LeftShift(queue) ELSE queue
           old == q[Total]
           o == IF CurrentHeight < Height(b) THEN WindowStart ELSE CurrentHeight
           h == Height(b) - 1
<1>1. /\ hashes' = Applied(hashes, <<Leave(old), Enter(b)>>)
      /\ \A x \in 1 .. Total :
            LeftShift(queue)[x] = IF x = Total THEN queue[1] ELSE queue[x + 1]
  BY AdoptionFacts DEF TxInv
<1>2. /\ tip' = b /\ CurrentHeight' = Height(b)
      /\ CurrentHeight \in Nat /\ Height(b) \in Nat \ {0}
      /\ Height(b) \in {CurrentHeight, CurrentHeight + 1}
      /\ \A k \in 0 .. Height(b) - 1 : Anc(b, k) = Anc(tip, k)
      /\ Anc(b, Height(b)) = b
      /\ tip \in Block /\ CurrentHeight = Height(tip) /\ Anc(tip, CurrentHeight) = tip
      /\ Lmt \in Nat /\ BufferSize \in Nat \ {0} /\ Total = Lmt + BufferSize + 1
  BY AdoptionPath
<1>3. /\ Total \in Nat \ {0}
      /\ \A x \in 1 .. Total :
            queue[x] = Anc(tip, IF CurrentHeight + x > Total
                                THEN CurrentHeight + x - Total ELSE 0)
  BY QueueFacts DEF Adoption, TxInv
<1>4. HashesOK(hashes)
  BY DEF TxInv, ChainInv, IInv, TypeOK, HashesOK
<1>5. old = Anc(tip, o)
  <2>1. CASE CurrentHeight < Height(b)
    <3>1. old = queue[1]
      BY <1>1, <1>3, <2>1
    <3>2. 1 \in 1 .. Total /\ o = IF CurrentHeight + 1 > Total
                                  THEN CurrentHeight + 1 - Total ELSE 0
      BY <1>2, <1>3, <2>1 DEF WindowStart
    <3> QED BY <1>3, <3>1, <3>2
  <2>2. CASE ~(CurrentHeight < Height(b))
    <3>1. Total \in 1 .. Total /\ old = queue[Total]
      BY <1>3, <2>2
    <3>2. (IF CurrentHeight + Total > Total
           THEN CurrentHeight + Total - Total ELSE 0) = CurrentHeight
      BY <1>2, <1>3
    <3> QED BY <1>3, <2>2, <3>1, <3>2
  <2> QED BY <2>1, <2>2
<1>6. /\ o \in 0 .. CurrentHeight
      /\ CurrentHeight < Height(b) => o = 0 \/ o < h - Lmt
      /\ ~(CurrentHeight < Height(b)) => o = CurrentHeight /\ Height(b) = CurrentHeight
  BY <1>2, <1>3 DEF WindowStart
<1>7. old \in Block
  BY <1>2, <1>5, <1>6, AncestorFacts
<1> HIDE DEF q, old, o
<1>8. /\ DOMAIN hashes' = (DOMAIN hashes \ TxSet(old)) \union TxSet(b)
      /\ \A t \in DOMAIN hashes' :
            hashes'[t] = IF t \in TxSet(b) THEN Height(b) ELSE hashes[t]
  <2> DEFINE new == Applied(hashes, <<Leave(old), Enter(b)>>)
  <2>1. /\ DOMAIN new = (DOMAIN hashes \ TxSet(old)) \union TxSet(b)
        /\ \A t \in DOMAIN new : new[t] = IF t \in TxSet(b) THEN Height(b) ELSE hashes[t]
    BY ONLY <1>4, <1>7, b \in Block, AppliedExchange, ZenonT(40)
  <2>2. hashes' = new
    BY <1>1, Zenon
  <2> HIDE DEF new
  <2> QED BY <2>1, <2>2
<1> SUFFICES ASSUME NEW t \in Tx, NEW j \in 0 .. Height(b), j >= Height(b) - 1 - Lmt,
                    t \in TxSet(Anc(b, j)),
                    \A i \in 0 .. Height(b) : i # j => t \notin TxSet(Anc(b, i))
             PROVE  t \in DOMAIN hashes' /\ hashes'[t] = j
  BY <1>2 DEF HeldInWindow, CarriedOnce
<1>9. CASE j = Height(b)
  BY <1>2, <1>8, <1>9
<1>10. CASE j # Height(b)
  <2>1. j \in 0 .. h /\ t \in TxSet(Anc(tip, j))
        /\ \A i \in 0 .. h : i # j => t \notin TxSet(Anc(tip, i))
    BY <1>2, <1>10
  <2>2. t \in DOMAIN hashes /\ hashes[t] = j
        /\ (Height(b) = CurrentHeight => t \notin TxSet(tip))
    BY <2>1, OnceBelow
  <2>3. t \notin TxSet(b)
    <3>1. Height(b) \in 0 .. Height(b) /\ Height(b) # j
      BY <1>2, <1>10
    <3> QED BY <1>2, <3>1
  <2>4. t \notin TxSet(old)
    <3>1. CASE CurrentHeight < Height(b)
      <4>1. o = 0 => TxSet(old) = {}
        BY <1>2, <1>5, PathFacts, TxSetFacts
      <4>2. o # 0 => o \in 0 .. h /\ o # j
        BY <1>2, <1>6, <3>1
      <4> QED BY <1>5, <2>1, <4>1, <4>2
    <3>2. CASE ~(CurrentHeight < Height(b))
      BY <1>2, <1>5, <1>6, <2>2, <3>2
    <3> QED BY <3>1, <3>2
  <2> QED BY <1>8, <2>2, <2>3, <2>4
<1> QED BY <1>9, <1>10

\* A transaction that is settled below the tip is not in the tip again.
LEMMA SettledOnce ==
    ASSUME TxInv, NEW k \in 0 .. CurrentHeight - 1, NEW t \in TxSet(Anc(tip, k)),
           Settled(t, k)
    PROVE  t \notin TxSet(tip)
<1>1. tip \in Block /\ CurrentHeight = Height(tip) /\ Anc(tip, CurrentHeight) = tip
      /\ CurrentHeight \in Nat /\ Lmt \in Nat
  BY TipFacts, PathFacts, ParameterAssumption DEF TxInv, ChainInv, CurrentHeight
<1> SUFFICES ASSUME t \in TxSet(tip) PROVE FALSE
  OBVIOUS
<1> DEFINE again == {i \in k + 1 .. CurrentHeight : t \in TxSet(Anc(tip, i))}
           n == Min(again)
<1>2. again \in SUBSET Nat /\ CurrentHeight \in again
  BY <1>1
<1> HIDE DEF again
<1>3. n \in again /\ \A y \in again : n <= y
  BY <1>1, <1>2, MinOfNaturals
<1> HIDE DEF n
<1>4. n \in k + 1 .. CurrentHeight /\ t \in TxSet(Anc(tip, n))
  BY <1>3 DEF again
<1>5. \A i \in 0 .. n - 1 : i # k => t \notin TxSet(Anc(tip, i))
  <2> SUFFICES ASSUME NEW i \in 0 .. n - 1, i # k PROVE t \notin TxSet(Anc(tip, i))
    OBVIOUS
  <2>1. CASE i < k
    BY <1>1, <2>1 DEF Settled
  <2>2. CASE i > k
    <3>1. i \in k + 1 .. CurrentHeight /\ ~(n <= i)
      BY <1>1, <1>4, <2>2
    <3> QED BY <1>3, <3>1 DEF again
  <2> QED BY <1>1, <1>4, <2>1, <2>2
<1>6. k + Lmt < n - 1 /\ TxTime[t] > BlockTime(Anc(tip, n - 1 - Lmt))
  <2>1. n \in 1 .. CurrentHeight /\ k \in 0 .. n - 1
    BY <1>1, <1>4
  <2> QED BY <1>4, <1>5, <2>1 DEF TxInv, RepeatsAreLate
<1>7. n - 1 - Lmt \in k .. CurrentHeight - 1
  BY <1>1, <1>4, <1>6
<1>8. TxTime[t] <= BlockTime(Anc(tip, n - 1 - Lmt))
  BY <1>7 DEF Settled
<1>9. TxTime[t] \in Nat /\ BlockTime(Anc(tip, n - 1 - Lmt)) \in Int
  <2>1. Anc(tip, k) \in Block /\ Anc(tip, n - 1 - Lmt) \in Block
    BY <1>1, <1>7, AncestorFacts
  <2>2. t \in Tx
    BY <2>1, TxSetFacts
  <2>3. Ts[Anc(tip, n - 1 - Lmt)] \in Nat /\ Nps \in Nat \ {0}
    BY <2>1, BodyAssumption, ParameterAssumption
  <2> QED BY <2>2, <2>3, BodyAssumption DEF BlockTime
<1> QED BY <1>6, <1>8, <1>9

\* The transaction index follows the best chain.
LEMMA AdoptionAddresses ==
    ASSUME TxInv, NEW b \in Block, b # Genesis, Adoption(b)
    PROVE  AddressesExact' /\ PlacesExist'
<1> DEFINE s == <<b>>
           pos(t) == Max({i \in DOMAIN Txs[b] : Txs[b][i] = t}) - 1
           old == IF Height(b) > CurrentHeight THEN {} ELSE TxSet(tip)
           lower == {Anc(tip, k) : k \in 0 .. Height(b) - 1}
<1>1. tip' = b /\ txAddr' = AddressesWith(s)
  BY AdoptionFacts DEF TxInv
<1>2. /\ CurrentHeight \in Nat /\ Height(b) \in Nat \ {0}
      /\ Height(b) \in {CurrentHeight, CurrentHeight + 1}
      /\ \A k \in 0 .. Height(b) - 1 : Anc(b, k) = Anc(tip, k)
      /\ Anc(b, Height(b)) = b
  BY FollowerFacts DEF Adoption, TxInv
<1>3. tip \in Block /\ CurrentHeight = Height(tip) /\ Anc(tip, CurrentHeight) = tip
  BY TipFacts, PathFacts DEF TxInv, ChainInv, CurrentHeight
<1>4. TxsByHeight(Height(b)) = old
  <2>1. CASE Height(b) > CurrentHeight
    BY <2>1 DEF TxsByHeight
  <2>2. CASE ~(Height(b) > CurrentHeight)
    <3>1. Height(b) = CurrentHeight /\ Height(b) \in 0 .. CurrentHeight
      BY <1>2, <2>2
    <3>2. BlockHashByNumber(Height(b)) = tip
      BY <1>3, <3>1, FoundAtHeight DEF TxInv, Adoption
    <3> QED BY <2>2, <3>2 DEF TxsByHeight
  <2> QED BY <2>1, <2>2
<1>5. DOMAIN s = {1} /\ s[1] = b
  OBVIOUS
<1>6. UNION {TxsByHeight(Height(s[j])) : j \in DOMAIN s} = old
  BY <1>4, <1>5
<1>7. UNION {TxSet(s[j]) : j \in DOMAIN s} = TxSet(b)
  BY <1>5
<1>8. ASSUME NEW t \in TxSet(b) PROVE s[Max({j \in DOMAIN s : t \in TxSet(s[j])})] = b
  <2>1. {j \in DOMAIN s : t \in TxSet(s[j])} = {1}
    BY <1>5, <1>8
  <2>2. Max({1}) \in {1}
    <3>1. {1} \in SUBSET (0 .. 1) /\ {1} # {} /\ 1 \in Nat
      OBVIOUS
    <3> QED BY ONLY <3>1, MaxOfNaturals
  <2> QED BY <1>5, <2>1, <2>2
<1>9. txAddr' = [t \in (DOMAIN txAddr \ old) \union TxSet(b) |->
                    IF t \in TxSet(b) THEN [block |-> b, index |-> pos(t)] ELSE txAddr[t]]
  <2> HIDE DEF s, old
  <2>1. AddressesWith(s) =
          LET at(t) == s[Max({j \in DOMAIN s : t \in TxSet(s[j])})]
              place(t) == Max({i \in DOMAIN Txs[at(t)] : Txs[at(t)][i] = t}) - 1
          IN [t \in (DOMAIN txAddr \ old) \union TxSet(b) |->
                IF t \in TxSet(b) THEN [block |-> at(t), index |-> place(t)] ELSE txAddr[t]]
    BY <1>6, <1>7, ZenonT(40) DEF AddressesWith
  <2> QED BY <1>1, <1>8, <2>1
<1>10. ASSUME NEW t \in TxSet(b)
       PROVE  pos(t) + 1 \in DOMAIN Txs[b] /\ Txs[b][pos(t) + 1] = t
  <2> DEFINE I == {i \in DOMAIN Txs[b] : Txs[b][i] = t}
  <2>1. Len(Txs[b]) \in Nat /\ DOMAIN Txs[b] = 1 .. Len(Txs[b])
    BY BodyAssumption, LenProperties
  <2>2. I \in SUBSET (0 .. Len(Txs[b])) /\ I # {}
    BY <1>10, <2>1 DEF TxSet
  <2>3. Max(I) \in I
    BY <2>1, <2>2, MaxOfNaturals
  <2>4. pos(t) + 1 = Max(I)
    BY <2>1, <2>3
  <2> QED BY <2>3, <2>4
<1> HIDE DEF s, pos, old
<1>11. Path(b) = lower \union {b} /\ Path(tip) = {Anc(tip, k) : k \in 0 .. CurrentHeight}
  <2>1. \A k \in 0 .. Height(b) : k = Height(b) \/ k \in 0 .. Height(b) - 1
    BY <1>2
  <2> QED BY <1>2, <1>3, <2>1 DEF Path
\* A transaction that stays is in a block that stays.
<1>12. lower \subseteq Path(tip)
       /\ (Height(b) > CurrentHeight => lower = Path(tip))
       /\ (~(Height(b) > CurrentHeight) => Path(tip) = lower \union {tip})
  <2>1. CASE Height(b) > CurrentHeight
    <3>1. Height(b) - 1 = CurrentHeight
      BY <1>2, <2>1
    <3> QED BY <1>11, <2>1, <3>1
  <2>2. CASE ~(Height(b) > CurrentHeight)
    <3>1. \A k : k \in 0 .. CurrentHeight <=> k \in 0 .. Height(b) - 1 \/ k = CurrentHeight
      BY <1>2, <2>2
    <3> QED BY <1>3, <1>11, <2>2, <3>1
  <2> QED BY <2>1, <2>2
<1> HIDE DEF lower
<1>13. \A t \in DOMAIN txAddr : /\ txAddr[t].block \in Path(tip)
                                /\ Txs[txAddr[t].block][txAddr[t].index + 1] = t
                                /\ txAddr[t].index + 1 \in DOMAIN Txs[txAddr[t].block]
  BY DEF TxInv, AddressesExact, PlacesExist
<1>14. ASSUME NEW t \in DOMAIN txAddr'
       PROVE  /\ txAddr'[t].block \in Path(b)
              /\ Txs[txAddr'[t].block][txAddr'[t].index + 1] = t
              /\ txAddr'[t].index + 1 \in DOMAIN Txs[txAddr'[t].block]
  <2>1. CASE t \in TxSet(b)
    <3>1. txAddr'[t] = [block |-> b, index |-> pos(t)]
      BY <1>9, <2>1
    <3> QED BY <1>10, <1>11, <2>1, <3>1
  <2>2. CASE t \notin TxSet(b)
    <3>1. t \in DOMAIN txAddr \ old /\ txAddr'[t] = txAddr[t]
      BY <1>9, <2>2
    <3>2. t \in TxSet(txAddr[t].block) /\ txAddr[t].block \in Path(tip)
      BY <1>13, <3>1 DEF TxSet
    <3>3. txAddr[t].block \in lower
      <4>1. CASE Height(b) > CurrentHeight
        BY <1>12, <3>2, <4>1
      <4>2. CASE ~(Height(b) > CurrentHeight)
        <5>1. old = TxSet(tip) /\ Path(tip) = lower \union {tip}
          BY <1>12, <4>2 DEF old
        <5> QED BY <3>1, <3>2, <5>1
      <4> QED BY <4>1, <4>2
    <3> QED BY <1>11, <1>13, <3>1, <3>3
  <2> QED BY <2>1, <2>2
\* What is settled below b was settled below the tip, and is not in a tip that b
\* replaces.
<1>15. /\ CurrentHeight' = Height(b) /\ \A x : TxSet(x)' = TxSet(x)
       /\ \A x : BlockTime(x)' = BlockTime(x)
  BY AdoptionPath DEF TxSet, BlockTime
<1>16. ASSUME NEW k \in 1 .. Height(b), NEW t \in TxSet(Anc(b, k)), Settled(t, k)'
       PROVE  t \in DOMAIN txAddr'
  <2>1. CASE k = Height(b)
    BY <1>2, <1>9, <1>16, <2>1
  <2>2. CASE k # Height(b)
    <3>1. /\ k \in 1 .. CurrentHeight /\ k \in 0 .. Height(b) - 1
          /\ \A i \in 0 .. k - 1 : i \in 0 .. Height(b) - 1
          /\ \A i \in k .. CurrentHeight - 1 : i \in 0 .. Height(b) - 1
      BY <1>2, <2>2
    <3>2. t \in TxSet(Anc(tip, k))
      BY <1>2, <1>16, <3>1
    <3>3. Settled(t, k)
      <4>1. \A i \in 0 .. k - 1 : t \notin TxSet(Anc(b, i))
        BY <1>1, <1>15, <1>16 DEF Settled
      <4>2. \A i \in k .. Height(b) - 1 : TxTime[t] <= BlockTime(Anc(b, i))
        BY <1>1, <1>15, <1>16 DEF Settled
      <4>3. \A i \in k .. CurrentHeight - 1 : i \in k .. Height(b) - 1
        BY <1>2
      <4> QED BY <1>2, <3>1, <4>1, <4>2, <4>3 DEF Settled
    <3>4. t \in DOMAIN txAddr
      BY <3>1, <3>2, <3>3 DEF TxInv, AddressesExact
    <3>5. t \notin old
      <4>1. CASE Height(b) > CurrentHeight
        BY <4>1 DEF old
      <4>2. CASE ~(Height(b) > CurrentHeight)
        <5>1. old = TxSet(tip) /\ k \in 0 .. CurrentHeight - 1
          BY <1>2, <2>2, <4>2 DEF old
        <5> QED BY <3>2, <3>3, <5>1, SettledOnce
      <4> QED BY <4>1, <4>2
    <3> QED BY <1>9, <3>4, <3>5
  <2> QED BY <2>1, <2>2
<1> QED BY <1>1, <1>14, <1>15, <1>16 DEF AddressesExact, PlacesExist

\* In the fresh store no transaction is anywhere.
LEMMA InitTxInv == Init => TxInv
<1> SUFFICES ASSUME Init PROVE TxInv
  OBVIOUS
<1>1. tip = Genesis /\ Genesis \in Block /\ CurrentHeight = 0 /\ Anc(Genesis, 0) = Genesis
      /\ TxSet(Genesis) = {}
  BY BlockAssumption, BodyAssumption, PathFacts, TxSetFacts DEF Init, CurrentHeight
<1>2. RepeatsAreLate
  BY <1>1 DEF RepeatsAreLate
<1>3. HeldInWindow
  <2>1. \A j \in 0 .. 0 : j = 0
    OBVIOUS
  <2> QED BY <1>1, <2>1 DEF HeldInWindow, CarriedOnce
<1>4. AddressesExact /\ PlacesExist
  <2>1. DOMAIN txAddr = {}
    BY DEF Init
  <2> QED BY <1>1, <2>1 DEF AddressesExact, PlacesExist
<1> QED BY <1>2, <1>3, <1>4, InitChainInv DEF TxInv

\* No step brings a transaction onto the best chain twice before it is late, or loses
\* a settled one.
LEMMA TxStep == ASSUME TxInv, ChainInv', Next, Extends PROVE TxInv'
<1>1. ASSUME UNCHANGED <<best>>
      PROVE  RepeatsAreLate' /\ AddressesExact' /\ PlacesExist'
  <2>1. UNCHANGED <<tip, txAddr>> /\ CurrentHeight' = CurrentHeight
    BY <1>1 DEF best, CurrentHeight
  <2> QED BY <2>1 DEF TxInv, RepeatsAreLate, AddressesExact, Settled, PlacesExist, BlockTime,
                      TxSet, Path
<1>2. CASE UNCHANGED <<best, cache>> /\ up
  <2>1. UNCHANGED <<tip, hashes>> /\ CurrentHeight' = CurrentHeight
    BY <1>2 DEF best, cache, CurrentHeight
  <2>2. HeldInWindow'
    BY <1>2, <2>1 DEF TxInv, HeldInWindow, CarriedOnce, TxSet
  <2> QED BY <1>1, <1>2, <2>2 DEF TxInv
<1>3. CASE Restart /\ tip = Genesis
  <2>1. UNCHANGED best
    BY <1>3 DEF Restart
  <2>2. tip' = Genesis /\ CurrentHeight' = 0 /\ Anc(Genesis, 0) = Genesis
        /\ TxSet(Genesis) = {} /\ \A j \in 0 .. 0 : j = 0
    BY <1>3, <2>1, BlockAssumption, PathFacts, TxSetFacts DEF best, CurrentHeight
  <2>3. HeldInWindow'
    BY <2>2 DEF HeldInWindow, CarriedOnce, TxSet
  <2> QED BY <1>1, <2>1, <2>3 DEF TxInv
<1>4. ASSUME NEW b \in Block \ {Genesis}, Adoption(b) PROVE TxInv'
  <2>1. RepeatsAreLate'
    BY <1>4, AdoptionRepeats
  <2>2. HeldInWindow'
    BY <1>4, AdoptionHashes
  <2>3. AddressesExact' /\ PlacesExist'
    BY <1>4, AdoptionAddresses
  <2> QED BY <2>1, <2>2, <2>3 DEF TxInv
<1> QED BY <1>2, <1>3, <1>4, StepOfChain DEF TxInv

-----------------------------------------------------------------------------
(* The theorems about such runs.                                            *)

\* Index and queue stay in order in every run whose reorganisations are not deeper
\* than one block, with crashes, panics and blocks beside the best chain.
THEOREM ChainInvariance == SpecTies => []ChainInv
<1>1. SpecTies => Spec
  <2>1. [Next /\ Extends]_vars => [Next]_vars
    OBVIOUS
  <2> QED BY <2>1, PTL DEF SpecTies, Spec
<1>2. ChainInv /\ IInv' /\ [Next /\ Extends]_vars => ChainInv'
  <2>1. ChainInv /\ IInv' /\ UNCHANGED vars => ChainInv'
    BY DEF vars, best, cache, ChainInv, IndexCanonical, QueueOrdered, CurrentHeight, up
  <2> QED BY <2>1, ChainStep
<1> QED BY <1>1, <1>2, Invariance, InitChainInv, PTL DEF SpecTies

\* The index is the path of the tip in every run in which no long fork is switched
\* to, however deep the reorganisations.
THEOREM IndexStaysCanonical == SpecShort => []IndexCanonical
<1>1. SpecShort => Spec
  <2>1. [Next /\ StaysShort]_vars => [Next]_vars
    OBVIOUS
  <2> QED BY <2>1, PTL DEF SpecShort, Spec
<1>2. ShortInv /\ IInv' /\ [Next /\ StaysShort]_vars => ShortInv'
  <2>1. ShortInv /\ IInv' /\ UNCHANGED vars => ShortInv'
    BY DEF vars, best, cache, ShortInv, IndexCanonical, CurrentHeight, up
  <2> QED BY <2>1, ShortStep
<1>3. ShortInv => IndexCanonical
  BY DEF ShortInv
<1> QED BY <1>1, <1>2, <1>3, Invariance, InitShortInv, PTL DEF SpecShort

\* The queue is the window, and the ancestors of all stored blocks are found.
THEOREM QueueStaysWindow == SpecTies => []QueueIsWindow
<1>1. ChainInv => QueueIsWindow
  <2> SUFFICES ASSUME ChainInv, up PROVE QueueIsWindow
    BY DEF QueueIsWindow
  <2>1. \A b \in known : AncBlock(b) = Anc(b, AncHeight(Height(b) + 1))
    BY AncestorFound, TipFacts DEF ChainInv
  <2> QED BY <2>1 DEF ChainInv, QueueOrdered, QueueIsWindow
<1> QED BY ChainInvariance, <1>1, PTL

\* Window, map and transaction index stay in step with the best chain.
LEMMA TxInvariance == SpecTies => []TxInv
<1>1. TxInv /\ ChainInv' /\ [Next /\ Extends]_vars => TxInv'
  <2>1. TxInv /\ ChainInv' /\ UNCHANGED vars => TxInv'
    BY DEF vars, best, cache, TxInv, RepeatsAreLate, HeldInWindow, CarriedOnce,
           AddressesExact, Settled, PlacesExist, BlockTime, CurrentHeight, up, TxSet, Path
  <2> QED BY <2>1, TxStep
<1> QED BY <1>1, ChainInvariance, InitTxInv, PTL DEF SpecTies

\* In every run whose reorganisations are not deeper than one block a transaction
\* that comes onto the best chain again has left the window, and is dated ahead:
\* whatever the transactions' dates, the blocks' times and the miner's clock are.
THEOREM RepeatsStayLate == SpecTies => []RepeatsAreLate
<1>1. TxInv => RepeatsAreLate
  BY DEF TxInv
<1> QED BY TxInvariance, <1>1, PTL

\* In such runs each address names a place of the best chain that holds its
\* transaction, and each settled transaction is found.
THEOREM AddressesStayExact == SpecTies => []AddressesExact
<1>1. TxInv => AddressesExact
  BY DEF TxInv
<1> QED BY TxInvariance, <1>1, PTL

-----------------------------------------------------------------------------
(* The loops over the window.  The steps above use the closed forms of      *)
(* HashCache for what update_txs_cache and tx_cache_roll_back leave in the   *)
(* window; HashCacheLoop runs the two loops one call at a time.              *)

\* remove and insert of the loops are the two operations on the map.
LEMMA SameMethods ==
    /\ \A hs, b : Removed(hs, b) = Done(hs, Leave(b))
    /\ \A hs, b : Inserted(hs, b) = Done(hs, Enter(b))
<1>1. \A b : /\ ~Leave(b).enters /\ Leave(b).block = b
             /\ Enter(b).enters /\ Enter(b).block = b
  BY DEF Enter, Leave
<1>2. \A hs, b : Removed(hs, b) = Done(hs, Leave(b))
  BY <1>1 DEF Removed, Done
<1>3. \A hs, b : Inserted(hs, b) = Done(hs, Enter(b))
  BY <1>1 DEF Inserted, Done
<1> QED BY <1>2, <1>3

\* What a loop has done by its next round: update_txs_cache has placed the first
\* blocks; drop_back has taken out the entries up to the counter; roll_back has
\* taken them all out and put the first ancestors in front.
Begun ==
    /\ began.queue \in Seq(Block) /\ began.queue # << >>
    /\ IsMap(began.hashes)
    /\ given \in Seq(Block) /\ upTo \in Nat /\ round \in Nat
    /\ given = << >> => began.hash \in Block /\ upTo <= Len(began.queue)

Updating ==
    /\ given # << >>
    /\ round >= 1 /\ round - 1 <= Len(given) /\ round - 1 <= upTo
    /\ cacheQueue = PartlyUpdated(began.queue, given, upTo, round - 1)
    /\ cacheHashes = Applied(began.hashes,
                        FirstOps(UpdateOps(began.queue, given, upTo), 2 * (round - 1)))

Dropping ==
    /\ given = << >>
    /\ round \in upTo + 1 .. Len(began.queue) + 1
    /\ cacheQueue = began.queue
    /\ cacheHashes = Applied(began.hashes,
                        FirstOps(RollBackOps(began.queue, began.hash, upTo), round - 1 - upTo))

Pushing ==
    /\ given = << >>
    /\ round \in 1 .. upTo + 1
    /\ cacheQueue = RolledFront(began.hash, round - 1) \o SubSeq(began.queue, 1, upTo)
    /\ cacheHashes = Applied(began.hashes,
                        FirstOps(RollBackOps(began.queue, began.hash, upTo),
                                 Len(began.queue) - upTo + round - 1))

LoopInv ==
    /\ Begun
    /\ stage \in {"update", "drop", "push", "done"}
    /\ stage = "update" => Updating
    /\ stage = "drop" => Dropping
    /\ stage = "push" => Pushing
    /\ LoopsMeetClosedForms

\* A loop starts on the cache it is given.
LEMMA LoopBegins == LoopInit => LoopInv
<1> SUFFICES ASSUME LoopInit PROVE LoopInv
  OBVIOUS
<1>1. \A s \in UNION {[1 .. n -> Block] : n \in 1 .. MaxLen} :
         s \in Seq(Block) /\ s # << >>
  <2> SUFFICES ASSUME NEW n \in 1 .. MaxLen, NEW s \in [1 .. n -> Block]
               PROVE  s \in Seq(Block) /\ s # << >>
    OBVIOUS
  <2>1. n \in Nat
    BY LoopAssumption
  <2>2. s \in Seq(Block) /\ Len(s) = n
    BY <2>1
  <2> QED BY <2>2
<1>2. cacheQueue \in Seq(Block) /\ cacheQueue # << >>
  BY <1>1 DEF LoopInit
<1>3. IsMap(cacheHashes)
  <2>1. \E S, f : cacheHashes = [t \in S |-> f[t]]
    <3> DEFINE hs == NoHashes
               ops == [x \in DOMAIN cacheQueue |-> Enter(cacheQueue[x])]
    <3>1. cacheHashes = Applied(hs, ops)
      BY DEF LoopInit
    <3> HIDE DEF hs, ops
    <3>2. cacheHashes = [t \in DOMAIN cacheHashes |-> cacheHashes[t]]
      BY <3>1 DEF Applied
    <3> QED BY <3>2
  <2> QED BY <2>1 DEF IsMap
<1>4. \A ops : FirstOps(ops, 0) = [x \in {} |-> ops[x]]
  BY DEF FirstOps
<1>5. \A ops : Applied(cacheHashes, FirstOps(ops, 0)) = cacheHashes
  <2>1. \A ops : DOMAIN FirstOps(ops, 0) = {}
    BY <1>4
  <2> QED BY <1>3, <2>1, AppliedNone
<1>6. CASE stage = "update" /\ given # << >>
  <2>1. /\ given \in Seq(Block) /\ upTo \in Nat /\ round = 1
        /\ began = [queue |-> cacheQueue, hashes |-> cacheHashes, hash |-> Genesis]
    BY <1>1, <1>6, LoopAssumption DEF LoopInit
  <2>2. Begun
    BY <1>2, <1>3, <1>6, <2>1 DEF Begun
  <2>3. PartlyUpdated(cacheQueue, given, upTo, 0) = cacheQueue
    BY <1>2, <2>1, UpdateEnds
  <2>4. Updating
    <3>1. round - 1 = 0 /\ 2 * (round - 1) = 0 /\ Len(given) \in Nat
      BY <2>1, LenProperties
    <3> QED BY <1>5, <1>6, <2>1, <2>3, <3>1 DEF Updating
  <2> QED BY <1>6, <2>2, <2>4 DEF LoopInv, LoopsMeetClosedForms
<1>7. CASE stage = "drop" /\ given = << >>
  <2>1. /\ upTo \in 0 .. Len(cacheQueue) /\ round = upTo + 1
        /\ \E h \in Block : began = [queue |-> cacheQueue, hashes |-> cacheHashes, hash |-> h]
    BY <1>7 DEF LoopInit
  <2>2. Len(cacheQueue) \in Nat /\ given \in Seq(Block)
    BY <1>2, <1>7, LenProperties
  <2>3. Begun
    BY <1>2, <1>3, <2>1, <2>2 DEF Begun
  <2>4. Dropping
    <3>1. round - 1 - upTo = 0
      BY <2>1, <2>2
    <3> QED BY <1>5, <1>7, <2>1, <2>2, <3>1 DEF Dropping
  <2> QED BY <1>7, <2>3, <2>4 DEF LoopInv, LoopsMeetClosedForms
<1>8. \/ stage = "update" /\ given # << >>
      \/ stage = "drop" /\ given = << >>
  BY <1>1 DEF LoopInit
<1> QED BY <1>6, <1>7, <1>8

\* A round of update_txs_cache places one block more.
LEMMA LoopUpdate ==
    ASSUME LoopInv, UpdateStep
    PROVE  LoopInv'
<1> DEFINE q   == began.queue
           k   == round - 1
           b   == given[round]
           was == PartlyUpdated(q, given, upTo, k)
           p   == upTo - round
           out == Replaced(q, given, upTo, round)
           ops == UpdateOps(q, given, upTo)
           old == IF p < Len(cacheQueue) THEN cacheQueue[p + 1] ELSE IF p = Len(cacheQueue) THEN b ELSE Genesis
<1>1. /\ stage = "update" /\ round <= Len(given) /\ round <= upTo
      /\ cacheQueue' = SwapRemoved(cacheQueue, p, b)
      /\ cacheHashes' = ReplaceHashes(cacheQueue, cacheHashes, p, b)
      /\ round' = round + 1
      /\ stage' = stage /\ given' = given /\ upTo' = upTo /\ began' = began
  BY DEF UpdateStep
<1>2. /\ Begun /\ given # << >> /\ round >= 1 /\ k <= Len(given) /\ k <= upTo
      /\ cacheQueue = was /\ cacheHashes = Applied(began.hashes, FirstOps(ops, 2 * k))
  BY <1>1 DEF LoopInv, Updating
<1>3. /\ q \in Seq(Block) /\ q # << >> /\ given \in Seq(Block) /\ upTo \in Nat
      /\ round \in Nat
  BY <1>2 DEF Begun
<1>4. Len(given) \in Nat
  BY <1>3, LenProperties
<1>5. /\ k \in Nat /\ k < Len(given) /\ k < upTo /\ k + 1 = round
      /\ round' - 1 = round
  BY <1>1, <1>2, <1>3, <1>4
<1>6. /\ was \in Seq(Block) /\ p \in Nat /\ b \in Block
      /\ p < Len(was) => PartlyUpdated(q, given, upTo, round) = [was EXCEPT ![p + 1] = b]
                         /\ out = was[p + 1]
      /\ p = Len(was) => PartlyUpdated(q, given, upTo, round) = was /\ out = b
      /\ p > Len(was) => PartlyUpdated(q, given, upTo, round) = Append(was, b)
                         /\ out = Genesis
  <2> DEFINE j == k
  <2>1. j \in Nat /\ j < Len(given) /\ j < upTo /\ j + 1 = round
    BY <1>5
  <2> HIDE DEF j
  <2>2. /\ PartlyUpdated(q, given, upTo, j) \in Seq(Block)
        /\ upTo - (j + 1) \in Nat /\ given[j + 1] \in Block
        /\ upTo - (j + 1) < Len(PartlyUpdated(q, given, upTo, j)) =>
              /\ PartlyUpdated(q, given, upTo, j + 1)
                    = [PartlyUpdated(q, given, upTo, j)
                          EXCEPT ![upTo - (j + 1) + 1] = given[j + 1]]
              /\ Replaced(q, given, upTo, j + 1)
                    = PartlyUpdated(q, given, upTo, j)[upTo - (j + 1) + 1]
        /\ upTo - (j + 1) = Len(PartlyUpdated(q, given, upTo, j)) =>
              /\ PartlyUpdated(q, given, upTo, j + 1) = PartlyUpdated(q, given, upTo, j)
              /\ Replaced(q, given, upTo, j + 1) = given[j + 1]
        /\ upTo - (j + 1) > Len(PartlyUpdated(q, given, upTo, j)) =>
              /\ PartlyUpdated(q, given, upTo, j + 1)
                    = Append(PartlyUpdated(q, given, upTo, j), given[j + 1])
              /\ Replaced(q, given, upTo, j + 1) = Genesis
    BY <1>3, <2>1, UpdateRound
  <2> QED BY <2>1, <2>2 DEF j
<1> HIDE DEF was, out, ops, p, b, q
<1>7. Len(was) \in Nat
  BY <1>6, LenProperties
<1>8. cacheQueue' = PartlyUpdated(q, given, upTo, round) /\ old = out
  <2>1. CASE p < Len(was)
    BY <1>1, <1>2, <1>6, <1>7, <2>1, SMTT(20) DEF SwapRemoved
  <2>2. CASE p = Len(was)
    BY <1>1, <1>2, <1>6, <1>7, <2>2, SMTT(20) DEF SwapRemoved
  <2>3. CASE p > Len(was)
    BY <1>1, <1>2, <1>6, <1>7, <2>3, SMTT(20) DEF SwapRemoved
  <2> QED BY <1>6, <1>7, <2>1, <2>2, <2>3
<1>9. cacheHashes' = Applied(began.hashes, FirstOps(ops, 2 * round))
  <2> DEFINE hs == began.hashes
             k2 == 2 * k
  <2>1. ops[k2 + 1] = Leave(out) /\ ops[k2 + 2] = Enter(b)
    <3>1. Placed(given, upTo) \in Nat /\ k < Placed(given, upTo)
      BY <1>3, <1>5, UpdateEnds
    <3> QED BY <1>5, <3>1, UpdateOpsFacts DEF ops, out, b
  <2>2. k2 \in Nat /\ k2 + 1 \in Nat /\ (k2 + 1) + 1 = k2 + 2 /\ k2 + 2 = 2 * round
    BY <1>5
  <2> HIDE DEF hs, k2
  <2>3. Applied(hs, FirstOps(ops, k2 + 1)) = Done(Applied(hs, FirstOps(ops, k2)), Leave(out))
    <3>1. ~Leave(out).enters
      BY DEF Leave
    <3> QED BY <2>1, <2>2, <3>1, AppliedNext
  <2>4. Applied(hs, FirstOps(ops, k2 + 2)) = Done(Applied(hs, FirstOps(ops, k2 + 1)), Enter(b))
    <3> DEFINE n == k2 + 1
    <3>1. n \in Nat /\ ops[n + 1] = Enter(b)
      BY <2>1, <2>2
    <3>2. Enter(b).enters => TxSet(Enter(b).block) \subseteq Tx
      BY <1>6, TxSetFacts DEF Enter
    <3> HIDE DEF n
    <3>3. Applied(hs, FirstOps(ops, n + 1)) = Done(Applied(hs, FirstOps(ops, n)), Enter(b))
      BY <3>1, <3>2, AppliedNext
    <3> QED BY <2>2, <3>3 DEF n
  <2>5. cacheHashes' = Done(Done(cacheHashes, Leave(old)), Enter(b))
    BY <1>1, SameMethods DEF ReplaceHashes
  <2>6. cacheHashes = Applied(hs, FirstOps(ops, k2))
    BY <1>2 DEF hs, k2
  <2> QED BY <1>8, <2>2, <2>3, <2>4, <2>5, <2>6 DEF hs
<1>10. Updating'
  <2>1. round' >= 1 /\ round' - 1 <= Len(given') /\ round' - 1 <= upTo'
    BY <1>1, <1>3, <1>5
  <2> QED BY <1>1, <1>2, <1>5, <1>8, <1>9, <2>1 DEF Updating, q, ops
<1>11. Begun'
  BY <1>1, <1>2, <1>3 DEF Begun
<1> QED BY <1>1, <1>10, <1>11 DEF LoopInv, LoopsMeetClosedForms

\* When the loop of update_txs_cache ends, it has placed all it could.
LEMMA LoopUpdateEnds ==
    ASSUME LoopInv, UpdateEnd
    PROVE  LoopInv'
<1>1. /\ stage = "update" /\ (round > Len(given) \/ round > upTo) /\ stage' = "done"
      /\ UNCHANGED <<cacheQueue, cacheHashes, given, upTo, round, began>>
  BY DEF UpdateEnd
<1>2. Begun /\ Updating
  BY <1>1 DEF LoopInv
<1>3. /\ began.queue \in Seq(Block) /\ began.queue # << >>
      /\ given \in Seq(Block) /\ upTo \in Nat /\ round \in Nat
  BY <1>2 DEF Begun
<1>4. round - 1 = Placed(given, upTo)
  <2>1. /\ Placed(given, upTo) \in Nat
        /\ Placed(given, upTo) <= Len(given) /\ Placed(given, upTo) <= upTo
        /\ Placed(given, upTo) = Len(given) \/ Placed(given, upTo) = upTo
    BY <1>3, UpdateEnds
  <2>2. Len(given) \in Nat
    BY <1>3, LenProperties
  <2> QED BY <1>1, <1>2, <1>3, <2>1, <2>2 DEF Updating
<1>5. cacheQueue = UpdatedQueue(began.queue, given, upTo)
  <2>1. cacheQueue = PartlyUpdated(began.queue, given, upTo, Placed(given, upTo))
    BY <1>2, <1>4 DEF Updating
  <2>2. PartlyUpdated(began.queue, given, upTo, Placed(given, upTo))
           = UpdatedQueue(began.queue, given, upTo)
    BY <1>3, UpdateEnds
  <2> QED BY <2>1, <2>2
<1>6. FirstOps(UpdateOps(began.queue, given, upTo), 2 * (round - 1))
         = UpdateOps(began.queue, given, upTo)
  BY <1>4 DEF FirstOps, UpdateOps
<1>7. cacheHashes = Applied(began.hashes, UpdateOps(began.queue, given, upTo))
  BY <1>2, <1>6 DEF Updating
<1>8. LoopsMeetClosedForms'
  BY <1>1, <1>2, <1>5, <1>7 DEF LoopsMeetClosedForms, Updating
<1>9. Begun'
  BY <1>1, <1>2 DEF Begun
<1> QED BY <1>1, <1>8, <1>9 DEF LoopInv

\* drop_back takes one block's transactions out, or shortens the queue when it
\* has taken out all.
LEMMA LoopDrop ==
    ASSUME LoopInv, DropStep
    PROVE  LoopInv'
<1> DEFINE q   == began.queue
           ops == RollBackOps(q, began.hash, upTo)
           n   == round - 1 - upTo
<1>1. stage = "drop" /\ given' = given /\ upTo' = upTo /\ began' = began
  BY DEF DropStep
<1>2. /\ Begun /\ given = << >> /\ round \in upTo + 1 .. Len(q) + 1
      /\ cacheQueue = q /\ cacheHashes = Applied(began.hashes, FirstOps(ops, n))
  BY <1>1 DEF LoopInv, Dropping
<1>3. /\ q \in Seq(Block) /\ q # << >> /\ upTo \in Nat /\ round \in Nat
      /\ began.hash \in Block /\ upTo <= Len(q) /\ Len(q) \in Nat
  BY <1>2, LenProperties DEF Begun
<1>4. /\ \A x \in 1 .. Len(q) - upTo : ops[x] = Leave(q[upTo + x])
  BY <1>3, RollBackOpsFacts
<1> HIDE DEF ops, q
<1>5. CASE round <= Len(q)
  <2>1. cacheHashes' = Removed(cacheHashes, q[round]) /\ round' = round + 1
        /\ cacheQueue' = cacheQueue /\ stage' = stage
    BY <1>5 DEF DropStep, q
  <2>2. n \in Nat /\ n + 1 \in 1 .. Len(q) - upTo /\ upTo + (n + 1) = round
        /\ round' - 1 - upTo = n + 1
    BY <1>2, <1>3, <1>5, <2>1
  <2>3. ops[n + 1] = Leave(q[round])
    BY <1>4, <2>2
  <2> HIDE DEF n
  <2>4. Applied(began.hashes, FirstOps(ops, n + 1)) = Done(cacheHashes, Leave(q[round]))
    <3>1. n \in Nat /\ ~Leave(q[round]).enters
      BY <2>2 DEF Leave
    <3> QED BY <1>2, <2>3, <3>1, AppliedNext
  <2>5. cacheHashes' = Applied(began.hashes, FirstOps(ops, n + 1))
    BY <2>1, <2>4, SameMethods
  <2>6. Dropping'
    <3>1. round' \in upTo' + 1 .. Len(q) + 1
      BY <1>1, <1>2, <1>3, <1>5, <2>1
    <3> QED BY <1>1, <1>2, <2>1, <2>2, <2>5, <3>1 DEF Dropping, q, ops
  <2>7. Begun'
    BY <1>1, <1>2, <1>3, <2>1 DEF Begun
  <2> QED BY <1>1, <2>1, <2>6, <2>7 DEF LoopInv, LoopsMeetClosedForms
<1>6. CASE ~(round <= Len(q))
  <2>1. cacheQueue' = SubSeq(cacheQueue, 1, upTo) /\ stage' = "push" /\ round' = 1
        /\ cacheHashes' = cacheHashes
    BY <1>6 DEF DropStep, q
  <2>2. n = Len(q) - upTo + round' - 1 /\ round' - 1 = 0
    BY <1>2, <1>3, <1>6, <2>1
  <2>3. cacheQueue' = RolledFront(began.hash, 0) \o SubSeq(q, 1, upTo)
    <3>1. RolledFront(began.hash, 0) = << >>
      BY <1>3, PushRound, EmptySeq
    <3>2. SubSeq(q, 1, upTo) \in Seq(Block)
      <4>1. \A x \in 1 .. upTo : q[x] \in Block
        BY <1>3, ElementOfSeq
      <4> QED BY <1>3, <4>1, SubSeqProperties
    <3>3. << >> \o SubSeq(q, 1, upTo) = SubSeq(q, 1, upTo)
      BY <3>2, ConcatEmptySeq
    <3> QED BY <1>2, <2>1, <3>1, <3>3
  <2>4. Pushing'
    <3>1. round' \in 1 .. upTo' + 1
      BY <1>1, <1>3, <2>1
    <3> QED BY <1>1, <1>2, <2>1, <2>2, <2>3, <3>1 DEF Pushing, q, ops
  <2>5. Begun'
    BY <1>1, <1>2, <1>3, <2>1 DEF Begun
  <2> QED BY <1>1, <2>1, <2>4, <2>5 DEF LoopInv, LoopsMeetClosedForms
<1> QED BY <1>5, <1>6

\* A round of tx_cache_roll_back puts the next ancestor in front.
LEMMA LoopPush ==
    ASSUME LoopInv, PushStep
    PROVE  LoopInv'
<1> DEFINE q   == began.queue
           ops == RollBackOps(q, began.hash, upTo)
           k   == round - 1
           F   == RolledFront(began.hash, k)
           S   == SubSeq(q, 1, upTo)
           above == IF round = 1 THEN began.hash ELSE cacheQueue[1]
           b   == IF Height(above) # 0 THEN Parent(above) ELSE above
           n   == Len(q) - upTo + k
<1>1. /\ stage = "push" /\ round <= upTo /\ round' = round + 1
      /\ cacheQueue' = <<b>> \o cacheQueue /\ cacheHashes' = Inserted(cacheHashes, b)
      /\ stage' = stage /\ given' = given /\ upTo' = upTo /\ began' = began
  BY DEF PushStep
<1>2. /\ Begun /\ given = << >> /\ round \in 1 .. upTo + 1
      /\ cacheQueue = F \o S
      /\ cacheHashes = Applied(began.hashes, FirstOps(ops, Len(q) - upTo + round - 1))
  BY <1>1 DEF LoopInv, Pushing
<1>3. /\ q \in Seq(Block) /\ q # << >> /\ upTo \in Nat /\ round \in Nat
      /\ began.hash \in Block /\ upTo <= Len(q) /\ Len(q) \in Nat
  BY <1>2, LenProperties DEF Begun
<1>4. k \in Nat /\ k < upTo /\ k + 1 = round /\ upTo \in 0 .. Len(q) /\ round \in 1 .. upTo
      /\ (round = 1 <=> k = 0) /\ round' - 1 = k + 1
  <2>1. round <= upTo /\ round' = round + 1 /\ round >= 1
    BY <1>1, <1>2, <1>3
  <2>2. upTo \in Nat /\ round \in Nat /\ upTo <= Len(q) /\ Len(q) \in Nat
    BY <1>3
  <2> HIDE DEF q
  <2> QED BY <2>1, <2>2
<1>5. n \in Nat /\ Len(q) - upTo + round - 1 = n /\ n + 1 = Len(q) - upTo + round
      /\ Len(q) - upTo + round' - 1 = n + 1
  BY <1>1, <1>3, <1>4
<1>6. S \in Seq(Block)
  <2>1. \A x \in 1 .. upTo : q[x] \in Block
    BY <1>3, ElementOfSeq
  <2> QED BY <1>3, <2>1, SubSeqProperties
<1> HIDE DEF ops, q, S, n
<1>7. F \in Seq(Block) /\ Len(F) = k
  BY <1>3, <1>4, PushRound
<1>8. above = IF k = 0 THEN began.hash ELSE F[1]
  <2>1. CASE k # 0
    <3> DEFINE f == F
    <3>1. f \in Seq(Block) /\ 1 \in 1 .. Len(f)
      BY <1>4, <1>7, <2>1
    <3> HIDE DEF f
    <3>2. (f \o S)[1] = f[1]
      <4>1. Len(f) \in Nat /\ Len(S) \in Nat
        BY <1>6, <3>1, LenProperties
      <4>2. 1 \in 1 .. Len(f) + Len(S) /\ 1 <= Len(f)
        BY <3>1, <4>1
      <4> QED BY <1>6, <3>1, <4>2, ConcatProperties
    <3> QED BY <1>2, <1>4, <2>1, <3>2 DEF f
  <2> QED BY <1>4, <2>1
<1>9. /\ b \in Block
      /\ RolledFront(began.hash, k + 1) = <<b>> \o F
      /\ RolledFront(began.hash, upTo)[upTo + 1 - round] = b
  <2> DEFINE j == k
             up0 == IF j = 0 THEN began.hash ELSE RolledFront(began.hash, j)[1]
             b0 == IF Height(up0) # 0 THEN Parent(up0) ELSE up0
  <2>1. j \in Nat /\ j < upTo /\ j + 1 = round
    BY <1>4
  <2>2. above = up0
    BY <1>8
  <2> HIDE DEF j, above
  <2>3. /\ b0 \in Block
        /\ RolledFront(began.hash, j + 1) = <<b0>> \o RolledFront(began.hash, j)
        /\ \A nn \in Nat : nn > j => RolledFront(began.hash, nn)[nn + 1 - (j + 1)] = b0
    BY <1>3, <2>1, PushRound
  <2>4. RolledFront(began.hash, upTo)[upTo + 1 - (j + 1)] = b0
    BY <1>3, <2>1, <2>3
  <2>5. b = b0
    BY <2>2
  <2> HIDE DEF b0, b
  <2> QED BY <2>1, <2>3, <2>4, <2>5 DEF j
<1> HIDE DEF b
<1>10. cacheQueue' = RolledFront(began.hash, k + 1) \o S
  <2> DEFINE s == <<b>>
             f == F
  <2>1. s \in Seq(Block) /\ f \in Seq(Block)
    BY <1>7, <1>9
  <2> HIDE DEF s, f
  <2>2. (s \o f) \o S = s \o (f \o S)
    BY <1>6, <2>1, ConcatAssociative
  <2> QED BY <1>1, <1>2, <1>9, <2>2 DEF s, f
<1>11. ops[n + 1] = Enter(b)
  <2>1. ops[Len(q) - upTo + round] = Enter(RolledFront(began.hash, upTo)[upTo + 1 - round])
    BY <1>3, <1>4, RollBackOpsFacts DEF ops
  <2> QED BY <1>5, <1>9, <2>1
<1>12. cacheHashes' = Applied(began.hashes, FirstOps(ops, n + 1))
  <2>1. Enter(b).enters => TxSet(Enter(b).block) \subseteq Tx
    BY <1>9, TxSetFacts DEF Enter
  <2>2. Applied(began.hashes, FirstOps(ops, n + 1))
           = Done(Applied(began.hashes, FirstOps(ops, n)), Enter(b))
    <3>1. n \in Nat
      BY <1>5
    <3> QED BY <1>11, <2>1, <3>1, AppliedNext
  <2> QED BY <1>1, <1>2, <1>5, <2>2, SameMethods
<1>13. Pushing'
  <2>1. round' \in 1 .. upTo' + 1
    BY <1>1, <1>3
  <2> QED BY <1>1, <1>2, <1>4, <1>5, <1>10, <1>12, <2>1 DEF Pushing, q, ops, S
<1>14. Begun'
  BY <1>1, <1>2, <1>3 DEF Begun
<1> QED BY <1>1, <1>13, <1>14 DEF LoopInv, LoopsMeetClosedForms

\* When the loop of roll_back ends, all n ancestors are in front.
LEMMA LoopPushEnds ==
    ASSUME LoopInv, PushEnd
    PROVE  LoopInv'
<1>1. /\ stage = "push" /\ round > upTo /\ stage' = "done"
      /\ UNCHANGED <<cacheQueue, cacheHashes, given, upTo, round, began>>
  BY DEF PushEnd
<1>2. Begun /\ Pushing
  BY <1>1 DEF LoopInv
<1>3. /\ began.queue \in Seq(Block) /\ upTo \in Nat /\ round \in Nat
      /\ began.hash \in Block /\ upTo <= Len(began.queue) /\ Len(began.queue) \in Nat
  BY <1>2, LenProperties DEF Begun, Pushing
<1>4. round - 1 = upTo /\ Len(began.queue) - upTo + round - 1 = Len(began.queue)
      /\ upTo \in 0 .. Len(began.queue)
  <2>1. round \in 1 .. upTo + 1
    BY <1>2 DEF Pushing
  <2> QED BY <1>1, <1>3, <2>1
<1>5. cacheQueue = RolledBack(began.queue, began.hash, upTo)
  BY <1>2, <1>4 DEF Pushing, RolledBack
<1>6. cacheHashes = Applied(began.hashes, RollBackOps(began.queue, began.hash, upTo))
  <2> DEFINE ops == RollBackOps(began.queue, began.hash, upTo)
  <2>1. DOMAIN ops = 1 .. Len(began.queue)
    BY <1>3, <1>4, RollBackOpsFacts
  <2>2. ops = [x \in DOMAIN ops |-> ops[x]]
    BY <1>3, <1>4, RollBackOpsFacts
  <2> HIDE DEF ops
  <2>3. FirstOps(ops, Len(began.queue)) = ops
    BY <2>1, <2>2 DEF FirstOps
  <2> QED BY <1>2, <1>4, <2>3 DEF Pushing, ops
<1>7. LoopsMeetClosedForms'
  BY <1>1, <1>2, <1>5, <1>6 DEF LoopsMeetClosedForms, Pushing
<1>8. Begun'
  BY <1>1, <1>2 DEF Begun
<1> QED BY <1>1, <1>7, <1>8 DEF LoopInv

\* The loops of update_txs_cache and tx_cache_roll_back, call by call, leave
\* what the closed forms say, for every queue, every list of blocks and every
\* argument.
THEOREM LoopsAreClosedForms == LoopSpec => []LoopsMeetClosedForms
<1>1. LoopInit => LoopInv
  BY LoopBegins
<1>2. LoopInv /\ [LoopNext]_(loopVars) => LoopInv'
  <2>1. ASSUME LoopInv, UNCHANGED loopVars PROVE LoopInv'
    BY <2>1 DEF loopVars, LoopInv, Begun, Updating, Dropping, Pushing,
                LoopsMeetClosedForms
  <2> QED BY <2>1, LoopUpdate, LoopUpdateEnds, LoopDrop, LoopPush, LoopPushEnds
          DEF LoopNext
<1>3. LoopInv => LoopsMeetClosedForms
  BY DEF LoopInv
<1> QED BY <1>1, <1>2, <1>3, PTL DEF LoopSpec

=============================================================================
