----------------------------- MODULE ChainStore -----------------------------
(***************************************************************************)
(* Chain (chain/src/chain.rs): the block store, the index of the best      *)
(* chain, the transaction index and the window of recent transactions.     *)
(*                                                                         *)
(* One action per handler: a block inserted by one of the threads that     *)
(* insert (insert), a block of our own (gen_block), the loss of the        *)
(* process and its restart (init).  A handler is one step; what happens    *)
(* when handlers of several threads overlap is the subject of other        *)
(* modules.                                                                *)
(*                                                                         *)
(* A handler changes the caches as it goes and commits one batch at its    *)
(* very end.  A process that is killed inside a handler leaves on disk     *)
(* what it had found there.  A panic ends the thread it happens in: a node *)
(* that goes on reads from its caches what no batch will ever store.  So   *)
(* what a running node finds (known, verified) and what its database holds *)
(* (onDisk) are told apart; the indices and the tip are moved at the end,  *)
(* after everything that can panic, and are the same in both.  The         *)
(* database key "current_hash" is written with current_hash, so one        *)
(* variable stands for both; current_height is the height of that block.   *)
(*                                                                         *)
(* A header read back from the database has not the hash it is stored      *)
(* under (KeepsHash).  While a node runs, the headers its walks read are   *)
(* taken to be still in block_headers, as they are for some 800 seconds    *)
(* after they were last used; what leaves it is the subject of ReadCache.  *)
(***************************************************************************)
EXTENDS HashCache

CONSTANTS
    Lmt,            \* the window, in blocks, in which a transaction is valid
    BufferSize,     \* buffer_size: the longest fork whose blocks are checked at once
    EpochLen,       \* epoch_len
    Nps             \* nps: slots in a second

ASSUME ParameterAssumption ==
    /\ Lmt \in Nat
    /\ BufferSize \in Nat \ {0}
    /\ EpochLen \in Nat \ {0}
    /\ Nps \in Nat \ {0}

\* HashCache.total: the length of the queue Chain::init makes.
Total == Lmt + BufferSize + 1

VARIABLES
    known,          \* blocks whose header and body a running node finds
    verified,       \* those it finds with verified = true
    onDisk,         \* what the batches have stored: headers, those of them that
                    \* say verified, and bodies
    number,         \* number[k]: the block indexed at height k (block_hashes)
    txAddr,         \* the transaction index (transaction_addresses)
    tip,            \* current_hash
    queue, hashes,  \* txs_cache, lost with the process
    running         \* the threads of the process that have not ended

store == <<known, verified, onDisk>>
best == <<number, txAddr, tip>>
cache == <<queue, hashes>>
vars == <<store, best, cache, running>>

\* The threads that call insert: the one that serves the network, the one that
\* takes up blocks whose parent has come, and the one that takes up blocks whose
\* time has come.
Inserter == {"main", "mario", "pending"}

Thread == Inserter \union {"miner"}

\* The process is that of its main thread.
up == "main" \in running

Database == [headers : SUBSET Block, verified : SUBSET Block, bodies : SUBSET Block]

Address == [block : Block, index : Nat]

CurrentHeight == Height(tip)

-----------------------------------------------------------------------------
(* Reading the best chain.                                                 *)

\* block_hash_by_number: the queue first, then the index.
BlockHashByNumber(k) ==
    IF Cached(queue, k) THEN BlockInfo(queue, k) ELSE number[k]

\* block_hash_by_number(k) = Some(x); above the best block there is none.
OnBestChain(x, k) ==
    /\ Cached(queue, k) \/ k \in DOMAIN number
    /\ BlockHashByNumber(k) = x

\* A faulty variant, for the mutants: the walk takes the first block to be on
\* the best chain.
UnwalkedForkPoint(x) == Height(x)

\* Where the walk from block x down to the best chain stops: the highest
\* ancestor of x found at its own height, else genesis.
ForkPoint(x) ==
    Max({k \in 0 .. Height(x) : k = 0 \/ OnBestChain(Anc(x, k), k)})

\* anc_height
AncHeight(h) == (IF h \div EpochLen > 0 THEN h \div EpochLen - 1 ELSE 0) * EpochLen

\* anc_hash(Height(x), x): the block whose proof the child of x must build on,
\* as block_hash_by_number_fork finds it.
AncBlock(x) ==
    LET n == AncHeight(Height(x) + 1)
        k == Max({n} \union {j \in n .. Height(x) : OnBestChain(Anc(x, j), j)})
    IN IF k = n THEN Anc(x, n) ELSE BlockHashByNumber(n)

-----------------------------------------------------------------------------
(* Checking transactions.                                                  *)

\* A faulty variant: the verified flags on the fork are not looked at.
UncheckedFork(x) ==
    /\ Height(x) + BufferSize >= CurrentHeight
    /\ Height(x) - ForkPoint(x) < BufferSize

\* transactions_diff for a new block on top of x: is the fork it extends short
\* enough, and verified down to the best chain?
ShortFork(x) ==
    /\ Height(x) + BufferSize >= CurrentHeight
    /\ Height(x) - ForkPoint(x) < BufferSize
    /\ \A k \in ForkPoint(x) + 1 .. Height(x) : Anc(x, k) \in verified

ForkTxs(x) == UNION {TxSet(Anc(x, k)) : k \in ForkPoint(x) + 1 .. Height(x)}

\* get_left_bound: the position, from 0, of the oldest block of the window of
\* the block that follows height h.  `get(i).unwrap()' panics when there is none.
LeftBound(h) == BufferSize + h - CurrentHeight

HasLeftBound(q, h) == LeftBound(h) \in 0 .. Len(q) - 1

\* A faulty variant: the age of a transaction is not checked.
FreshAtAnyAge(txs, seen, q, hs, h, max) ==
    LET left == q[LeftBound(h) + 1]
    IN \A i \in DOMAIN txs :
        /\ txs[i] \notin seen
        /\ \A j \in 1 .. i - 1 : txs[j] # txs[i]
        /\ ~HeldWithin(hs, txs[i], Height(left), max)

\* transactions_check and the filter of filter_transactions: every transaction
\* is younger than the window's first block, appears once, and is neither in
\* `seen' nor in the window up to height `max'.
Fresh(txs, seen, q, hs, h, max) ==
    LET left == q[LeftBound(h) + 1]
    IN \A i \in DOMAIN txs :
        /\ TxTime[txs[i]] > (Ts[left] * 1000) \div Nps
        /\ txs[i] \notin seen
        /\ \A j \in 1 .. i - 1 : txs[j] # txs[i]
        /\ ~HeldWithin(hs, txs[i], Height(left), max)

-----------------------------------------------------------------------------
(* Adopting a block: the parts adjust_block_hashes and switch_long_fork    *)
(* share.                                                                  *)

\* A faulty variant: an entry that is there is not overwritten.
NumberFilled(b, a) ==
    [k \in DOMAIN number \union {Height(b)} |->
        IF k \in DOMAIN number THEN number[k] ELSE Anc(b, k)]

\* update_block_number: heights above `a' now belong to the path of b.
NumberAlong(b, a) ==
    [k \in DOMAIN number \union {Height(b)} |->
        IF k > a THEN Anc(b, k) ELSE number[k]]

\* block_transaction_hashes_by_height
TxsByHeight(k) == IF k > CurrentHeight THEN {} ELSE TxSet(BlockHashByNumber(k))

\* A faulty variant: the abandoned blocks' transactions are not deleted.
AddressesKept(blocks) ==
    LET new  == UNION {TxSet(blocks[j]) : j \in DOMAIN blocks}
        at(t) == blocks[Max({j \in DOMAIN blocks : t \in TxSet(blocks[j])})]
        pos(t) == Max({i \in DOMAIN Txs[at(t)] : Txs[at(t)][i] = t}) - 1
    IN [t \in DOMAIN txAddr \union new |->
            IF t \in new THEN [block |-> at(t), index |-> pos(t)] ELSE txAddr[t]]

\* update_transaction_addresses(blocks): what the heights of the blocks held is
\* deleted, then the transactions of the blocks are written in order.
AddressesWith(blocks) ==
    LET old  == UNION {TxsByHeight(Height(blocks[j])) : j \in DOMAIN blocks}
        new  == UNION {TxSet(blocks[j]) : j \in DOMAIN blocks}
        at(t) == blocks[Max({j \in DOMAIN blocks : t \in TxSet(blocks[j])})]
        pos(t) == Max({i \in DOMAIN Txs[at(t)] : Txs[at(t)][i] = t}) - 1
    IN [t \in (DOMAIN txAddr \ old) \union new |->
            IF t \in new THEN [block |-> at(t), index |-> pos(t)] ELSE txAddr[t]]

-----------------------------------------------------------------------------
(* adjust_block_hashes for a verified block.                               *)

\* get_fork_chain(height - 1, parent) is in descending order; the header itself
\* is pushed last.
ShortForkBlocks(b) ==
    LET a == ForkPoint(Parent(b))
    IN [j \in 1 .. Height(b) - a |->
            IF j = Height(b) - a THEN b ELSE Anc(b, Height(b) - j)]

AdjustBlockHashes(b) ==
    LET blocks == ShortForkBlocks(b)
        q == IF CurrentHeight < Height(b) THEN LeftShift(queue) ELSE queue
    IN /\ txAddr' = AddressesWith(blocks)
       /\ number' = NumberAlong(b, ForkPoint(Parent(b)))
       /\ queue' = UpdatedQueue(q, blocks, Total)
       /\ hashes' = Applied(hashes, UpdateOps(q, blocks, Total))
       /\ tip' = b

-----------------------------------------------------------------------------
(* switch_long_fork for an unverified block b.                             *)

\* insert_at adopts the next block, and one as high as the tip: gen_range(0, 1)
\* is always 0.
Adopts(b) == Height(b) \in {CurrentHeight, CurrentHeight + 1}

\* get_unverif_headers, from the lowest up: the unverified end of b's path.
Unverified(b) ==
    LET u == Max({k \in 0 .. Height(b) - 1 : Anc(b, k) \in verified})
    IN [j \in 1 .. Height(b) - u |-> Anc(b, u + j)]

\* The code's n: how many blocks the best chain is rolled back.
RollBack(b) ==
    Min({Total, IF CurrentHeight # Height(b) THEN Len(Unverified(b)) - 1
                                             ELSE Len(Unverified(b))})

\* get_fork_chain(height, hash), descending from b itself.
LongForkBlocks(b) == [j \in 1 .. Height(b) - ForkPoint(b) |-> Anc(b, Height(b) + 1 - j)]

\* The private copy of the cache before the roll back, and the block below
\* which the roll back refills it.
Rewound(b) ==
    IF RollBack(b) < Total
    THEN UpdatedQueue(queue, LongForkBlocks(b), Total - RollBack(b)) ELSE queue

RewoundHashes(b) ==
    IF RollBack(b) < Total
    THEN Applied(hashes, UpdateOps(queue, LongForkBlocks(b), Total - RollBack(b)))
    ELSE hashes

RewindHash(b) == IF RollBack(b) < Total THEN Head(Rewound(b)) ELSE Unverified(b)[1]

\* drain(n..) panics when the queue is shorter than n.
CanRollBack(b) == RollBack(b) <= Len(Rewound(b))

RolledBackQueue(b) == RolledBack(Rewound(b), RewindHash(b), RollBack(b))

RolledBackHashes(b) ==
    Applied(RewoundHashes(b), RollBackOps(Rewound(b), RewindHash(b), RollBack(b)))

\* The private cache when the j-th unverified block is checked: each block
\* before it took the oldest entry's place.
QueueAt(b, j) ==
    LET all == RolledBackQueue(b) \o Unverified(b)
    IN SubSeq(all, j, Len(RolledBackQueue(b)) + j - 1)

HashesAt(b, j) ==
    LET all == RolledBackQueue(b) \o Unverified(b)
    IN Applied(RolledBackHashes(b),
               [x \in 1 .. 2 * (j - 1) |->
                    IF x % 2 = 1 THEN Leave(all[(x + 1) \div 2])
                                 ELSE Enter(Unverified(b)[x \div 2])])

CheckPanics(b, j) == ~HasLeftBound(QueueAt(b, j), Height(Unverified(b)[j]) - 1)

CheckFails(b, j) ==
    LET x == Unverified(b)[j]
    IN ~Fresh(Txs[x], {}, QueueAt(b, j), HashesAt(b, j), Height(x) - 1, Height(x))

\* The first unverified block whose check does not pass, or one past the last.
FirstBad(b) ==
    Min({Len(Unverified(b)) + 1} \union
        {j \in DOMAIN Unverified(b) : CheckPanics(b, j) \/ CheckFails(b, j)})

SwitchPanics(b) ==
    \/ ~CanRollBack(b)
    \/ /\ CanRollBack(b)
       /\ FirstBad(b) \in DOMAIN Unverified(b)
       /\ CheckPanics(b, FirstBad(b))

\* The blocks whose check the switch has passed: they are marked verified, and
\* stay so even when the switch then fails.
Passed(b) ==
    IF CanRollBack(b) THEN {Unverified(b)[j] : j \in 1 .. FirstBad(b) - 1} ELSE {}

\* A faulty variant: a block above an unverified one is not written before it is
\* verified itself.
WritesVerified(b, marked) ==
    IF b \notin marked THEN UNCHANGED onDisk
    ELSE onDisk' = [headers  |-> onDisk.headers \union marked,
                    verified |-> onDisk.verified \union marked,
                    bodies   |-> onDisk.bodies \union {b}]

\* The batch: marking a block verified writes its header, and not its body.
Writes(b, marked) ==
    onDisk' = [headers  |-> onDisk.headers \union {b} \union marked,
               verified |-> onDisk.verified \union marked,
               bodies   |-> onDisk.bodies \union {b}]

SwitchLongFork(b) ==
    LET us == Unverified(b)
        blocks == LongForkBlocks(b) \o us
    IN /\ ~SwitchPanics(b)
       /\ known' = known \union {b}
       /\ verified' = verified \union Passed(b)
       /\ Writes(b, Passed(b))
       /\ \/ /\ FirstBad(b) \in DOMAIN us
             /\ UNCHANGED <<best, cache>>
          \/ /\ FirstBad(b) \notin DOMAIN us
             /\ txAddr' = AddressesWith(blocks)
             /\ number' = NumberAlong(b, ForkPoint(b))
             /\ queue' = QueueAt(b, Len(us) + 1)
             /\ hashes' = HashesAt(b, Len(us) + 1)
             /\ tip' = b

-----------------------------------------------------------------------------
(* insert_at: store the block, and adopt it if Adopts.                     *)

InsertVerified(b) ==
    /\ known' = known \union {b}
    /\ verified' = verified \union {b}
    /\ Writes(b, {b})
    /\ IF Adopts(b) THEN AdjustBlockHashes(b) ELSE UNCHANGED <<best, cache>>

\* A faulty variant: an unverified block is adopted as a verified one is.
InsertUnchecked(b) ==
    /\ known' = known \union {b}
    /\ verified' = verified
    /\ Writes(b, {})
    /\ IF Adopts(b) THEN AdjustBlockHashes(b) ELSE UNCHANGED <<best, cache>>

InsertUnverified(b) ==
    IF Adopts(b) THEN SwitchLongFork(b)
    ELSE /\ known' = known \union {b}
         /\ verified' = verified
         /\ Writes(b, {})
         /\ UNCHANGED <<best, cache>>

\* insert_at up to the panic of the switch: the block and what has passed are in
\* the caches, and the batch is lost.
SwitchStops(b) ==
    /\ Adopts(b)
    /\ SwitchPanics(b)
    /\ known' = known \union {b}
    /\ verified' = verified \union Passed(b)
    /\ UNCHANGED <<onDisk, best, cache>>

-----------------------------------------------------------------------------
(* The handlers.                                                           *)

\* A panic ends its thread, and the process when that is the main thread.  What
\* the process had in memory is never read again.
Ends(t) == running' = IF t = "main" THEN {} ELSE running \ {t}

\* insert then tells mario of the block: `send(hash).unwrap()' panics when mario,
\* which has the other end, is gone.
Sends(t) == IF "mario" \in running THEN UNCHANGED running ELSE Ends(t)

\* A faulty variant: the parent may be missing.
PassesWithoutParent(b) ==
    /\ b \notin known
    /\ Ts[b] > Ts[Parent(b)]

\* block_basic_check, past the clock: the block is new, its parent is stored
\* and older, and its proof, made for its true ancestor, matches the one found.
PassesBasicCheck(b) ==
    /\ b \notin known
    /\ Parent(b) \in known
    /\ Ts[b] > Ts[Parent(b)]
    /\ AncBlock(Parent(b)) = Anc(b, AncHeight(Height(b)))

\* insert(b) in thread t.  The errors of the checks leave the store as it is and
\* are no step; what the thread pending does about them is PendingFails.
Insert(t, b) ==
    /\ up /\ t \in Inserter \intersect running
    /\ PassesBasicCheck(b)
    /\ \/ /\ ShortFork(Parent(b))
          /\ HasLeftBound(queue, Height(b) - 1)
          /\ Fresh(Txs[b], ForkTxs(Parent(b)), queue, hashes, Height(b) - 1,
                   ForkPoint(Parent(b)))
          /\ InsertVerified(b)
          /\ Sends(t)
       \/ /\ ShortFork(Parent(b))
          /\ ~HasLeftBound(queue, Height(b) - 1)
          /\ Ends(t)
          /\ UNCHANGED <<store, best, cache>>
       \/ /\ ~ShortFork(Parent(b))
          /\ InsertUnverified(b)
          /\ Sends(t)
       \/ /\ ~ShortFork(Parent(b))
          /\ SwitchStops(b)
          /\ Ends(t)

\* handle_pending: `expect("insert block failed")', on any error of insert.
PendingFails ==
    /\ up /\ "pending" \in running
    /\ Ends("pending")
    /\ UNCHANGED <<store, best, cache>>

\* gen_block on the tip: b is made of those of the offered transactions that
\* filter_transactions keeps.  It is not checked further, and mario is not told.
Mine(b) ==
    /\ up /\ "miner" \in running
    /\ b \notin known
    /\ Height(b) > 0 /\ Parent(b) = tip
    /\ ShortFork(tip)
    /\ HasLeftBound(queue, ForkPoint(tip))
    /\ Fresh(Txs[b], ForkTxs(tip), queue, hashes, ForkPoint(tip), ForkPoint(tip))
    /\ InsertVerified(b)
    /\ UNCHANGED running

\* filter_transactions unwraps both.
MinerPanics ==
    /\ up /\ "miner" \in running
    /\ ~ShortFork(tip) \/ ~HasLeftBound(queue, ForkPoint(tip))
    /\ Ends("miner")
    /\ UNCHANGED <<store, best, cache>>

\* The process is killed.
Crash ==
    /\ up
    /\ Ends("main")
    /\ UNCHANGED <<store, best, cache>>

\* init takes the body of each block it reads from the hash its header has, and
\* panics when there is none: `expect("invalid block")'.
Startable ==
    \A k \in 0 .. CurrentHeight : CurrentHeight < k + Total => KeepsHash(Anc(tip, k))

\* Chain::init with a database: the queue is filled from the tip down, and the
\* rest of it with entries of genesis, at the back.  The caches are empty, and
\* what is found is what is on disk.
Restart ==
    LET n == Min({Total, CurrentHeight + 1})
        path == [x \in 1 .. n |-> Anc(tip, CurrentHeight - n + x)]
    IN /\ ~up
       /\ Startable
       /\ running' = Thread
       /\ known' = onDisk.headers
       /\ verified' = onDisk.verified
       /\ queue' = path \o [x \in 1 .. Total - n |-> Genesis]
       /\ hashes' = Applied(NoHashes, [x \in 1 .. n |-> Enter(path[n + 1 - x])])
       /\ UNCHANGED <<onDisk, best>>

\* Chain::init without a database: a queue of genesis entries, and genesis
\* inserted as verified.
Init ==
    /\ known = {Genesis}
    /\ verified = {Genesis}
    /\ onDisk = [headers |-> {Genesis}, verified |-> {Genesis}, bodies |-> {Genesis}]
    /\ number = [k \in {0} |-> Genesis]
    /\ txAddr = [t \in {} |-> [block |-> Genesis, index |-> 0]]
    /\ tip = Genesis
    /\ queue = [x \in 1 .. Total |-> Genesis]
    /\ hashes = NoHashes
    /\ running = Thread

\* The handlers of a node that keeps running.
Handle == \/ \E b \in Block \ {Genesis}, t \in Inserter : Insert(t, b)
          \/ \E b \in Block \ {Genesis} : Mine(b)
          \/ PendingFails
          \/ MinerPanics

Next == Handle \/ Crash \/ Restart

Spec == Init /\ [][Next]_vars

\* A run in which no reorganisation is deeper than one block: a new tip follows
\* the tip or replaces it as a child of the same parent.
Extends == tip' = tip \/ Parent(tip') \in {tip, Parent(tip)}

SpecTies == Init /\ [][Next /\ Extends]_vars

\* A run in which no long fork is switched to: a new tip is a block of a fork that
\* is verified and shorter than buffer_size.
StaysShort == tip' = tip \/ ShortFork(Parent(tip'))

SpecShort == Init /\ [][Next /\ StaysShort]_vars

-----------------------------------------------------------------------------
(* Properties.                                                             *)

TypeOK ==
    /\ known \subseteq Block /\ verified \subseteq Block
    /\ onDisk \in Database
    /\ tip \in Block
    /\ number \in [0 .. CurrentHeight -> Block]
    /\ DOMAIN txAddr \subseteq Tx
    /\ \A t \in DOMAIN txAddr : txAddr[t] \in Address
    /\ queue \in Seq(Block)
    /\ DOMAIN hashes \subseteq Tx
    /\ \A t \in DOMAIN hashes : hashes[t] \in Nat
    /\ running \subseteq Thread

\* Every block a running node finds has its whole path there: the walks towards
\* genesis that unwrap a header (transactions_diff, get_unverif_headers,
\* get_fork_chain, tx_cache_roll_back) find one at every step.
StoreClosed == \A b \in known : Path(b) \subseteq known

\* Verification never skips a block: below a block that a running node finds
\* verified it finds verified ones, however long the fork it came by, and wherever
\* a switch failed or a thread ended in one.
VerifiedClosed ==
    /\ verified \subseteq known
    /\ \A b \in verified : Path(b) \subseteq verified

\* Nothing unverified is part of the best chain, in the index or in the queue.
BestChainVerified ==
    /\ tip \in verified
    /\ \A k \in DOMAIN number : number[k] \in verified
    /\ \A x \in DOMAIN queue : queue[x] \in verified

\* The index holds one block of its own height for every height up to the tip
\* and none above, and ends in the tip.
IndexEndsInTip ==
    /\ DOMAIN number = 0 .. CurrentHeight
    /\ number[CurrentHeight] = tip
    /\ \A k \in DOMAIN number : Height(number[k]) = k

\* The index is the path of the tip: no reorganisation leaves at some height a
\* block of the branch it abandoned.
IndexCanonical == \A k \in 0 .. CurrentHeight : number[k] = Anc(tip, k)

\* The queue is the last Total blocks of the best chain, oldest first, and anc_hash
\* finds for every stored block the ancestor that its children's proofs are made
\* for, on the best chain or off it.
QueueIsWindow ==
    up =>
        /\ queue = [x \in 1 .. Total |->
                       Anc(tip, IF CurrentHeight + x > Total
                                THEN CurrentHeight + x - Total ELSE 0)]
        /\ \A b \in known : AncBlock(b) = Anc(b, AncHeight(Height(b) + 1))

\* What get_left_bound compares a transaction with: the time of a block.
BlockTime(b) == (Ts[b] * 1000) \div Nps

\* A transaction comes onto the best chain a second time only when the block that
\* carries it first has left the window, and only if it is dated after a block that
\* came later: no check looks at a transaction that is dated ahead of its block.
RepeatsAreLate ==
    \A k \in 1 .. CurrentHeight : \A j \in 0 .. k - 1 :
        \A t \in TxSet(Anc(tip, j)) \intersect TxSet(Anc(tip, k)) :
            (\A i \in 0 .. k - 1 : i # j => t \notin TxSet(Anc(tip, i))) =>
                /\ j + Lmt < k - 1
                /\ TxTime[t] > BlockTime(Anc(tip, k - 1 - Lmt))

\* t comes onto the best chain at height k, and is not dated after any block from
\* there on, below the tip.
Settled(t, k) ==
    /\ \A i \in 0 .. k - 1 : t \notin TxSet(Anc(tip, i))
    /\ \A i \in k .. CurrentHeight - 1 : TxTime[t] <= BlockTime(Anc(tip, i))

\* get_transaction_address: what is found is a place on the best chain that holds
\* the transaction, whatever is repeated and replaced, and each transaction that can
\* not come back is found.
AddressesExact ==
    /\ \A t \in DOMAIN txAddr :
          /\ txAddr[t].block \in Path(tip)
          /\ Txs[txAddr[t].block][txAddr[t].index + 1] = t
    /\ \A k \in 1 .. CurrentHeight : \A t \in TxSet(Anc(tip, k)) :
          Settled(t, k) => t \in DOMAIN txAddr

\* insert_at: a node reads from its caches what no batch has stored, and its later
\* batches then hold blocks whose parents are not on disk.  Whatever panicked, the
\* difference is one block for each thread that ended, and the blocks below it that
\* were marked verified; a body is never there without its header, and the tip is
\* there whole.
DiskFollows ==
    /\ onDisk.bodies \subseteq onDisk.headers /\ onDisk.headers \subseteq known
    /\ onDisk.verified \subseteq verified
    /\ tip \in onDisk.bodies \intersect onDisk.verified
    /\ Cardinality(known \ onDisk.bodies) <= Cardinality(Inserter \ running)
    /\ verified \ onDisk.verified \subseteq
           UNION {Path(b) : b \in known \ onDisk.bodies}

\* Chain::init: `expect("invalid block")'.  A process that is lost can start again
\* from what it has stored.
CanRestart == ~up => Startable

\* What a running node reads is a fork choice: see ForkChoice.
FC == INSTANCE ForkChoice

ImplementsForkChoice == FC!Spec

=============================================================================
