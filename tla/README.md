# Sleepy in TLA+

A verification development for [Sleepy](../src/README.md), a blockchain node in
Rust: TLA+ modules of its parts, TLC configurations that check them on small
instances, and theorems about them that TLAPS checks for every value of the
constants. `PROJECT.json` maps each definition to the source lines it stands
for and lists runs, mutants, findings, hazards and theorems.

- [The system](#the-system): the parts, their state, how they interact
- [The modules](#the-modules): which module models what, and how
- [The runs](#the-runs): what each shows, bounds, fairness
- [The proofs](#the-proofs): what is proved, and by which argument
- [Where the code departs](#where-the-code-departs) from what it states or wants
- [Not modelled](#not-modelled), and why
- [The plan](#the-plan): what is done, what could come next

To repeat a check: `tlc -config MCChainReorg.cfg MCChainReorg`; to repeat a
proof: `tlapm ChainStore_proofs.tla`.

## The system

A node is one process. `main.rs` opens the database, starts a TCP server and a
client, creates the chain store and the transaction pool, starts the miner and
a collector of cache entries, and then takes messages (`BLOCK`, `SYNCREQ`,
`TX`) from a channel, one at a time, for ever.

| Part | State | Operations |
|---|---|---|
| **Chain** (`chain/src/chain.rs`) | blocks in the database, each with a `verified` flag; `block_hashes`, the index of the best chain by height; `transaction_addresses`; `current_height`, `current_hash` | `insert` a block of the network, `gen_block` one of our own, `init` on start; inside: `insert_at`, `adjust_block_hashes` (a short, verified fork), `switch_long_fork` (a long one) |
| **HashCache** (`chain.rs`) | a queue of the last `lmt + buffer_size + 1` blocks of the best chain, and the heights of their transactions | `push`, `pop`, `replace`, `drop_back`, lookups; `update_txs_cache`, `tx_cache_roll_back` |
| **Intake** (`chain.rs`, `main.rs`) | `unknown_parent`, `future_blocks`, a channel of hashes | threads `mario` (inserts the blocks that waited for a parent) and `pending` (those that waited for their time) beside the main loop |
| **Read caches** (`db.rs`, `cache_manager.rs`) | four maps in front of the database, generations of ids | `read_with_cache`, `write_with_cache`, `note_used`, `collect_garbage` |
| **Transaction pool** (`tx_pool`) | an LRU filter of hashes seen, transactions, their order | `enqueue`, `package`, `update` |
| **Miner** (`miner`) | the last slot it has tried | wins by lottery, packages, `gen_block`, `update`, broadcasts |
| **Network** (`network`) | a `TcpStream` per peer, the client's channel, each server's buffers | `broadcast`, `do_connect`, the frame codec, the server's answer |
| **KVDB** (`util/kvdb`) | RocksDB behind an overlay of buffered writes | `write`, `get`; `write_buffered`, `flush`, `restore`, `add_column`, `drop_column` |
| **AVL trie** (`util/src/avl`) | a tree in memory and its nodes in a hash database | `insert`, `remove`, `commit`; lookup, iteration, `seek` |
| **Data** (`block.rs`, `transaction.rs`, `util`) | none, but for the lists open in an `RlpStream` and the place an RLP view has cached | hashing, signing, RLP, fixed-width integers and hashes, Merkle roots |

**Interactions.** Main loop, `mario`, `pending` and the miner all call into one
`Chain`; it has a lock per map, each held for one access, and no lock for a
handler. A handler puts what it changes into the caches at once and into the
database, in one batch, at its end; a panic in between ends the thread it happens
in, and the process only when that is the main one. The main loop and the miner put messages
into the client's channel; the client writes them to the peers' streams; a
peer's server puts what it decodes into that peer's main loop.

**What is hard here.** Reorganisations, which rewrite an index, a transaction
index and a window at once (deep ones half verified); handlers of four threads
that overlap; blocks that arrive before their parent or their time; a panic that
leaves in the caches of a node that goes on what no batch will store; a clock that is
whichever server answers first; reads that fill a cache with what has been
replaced meanwhile; gossip that ends only because filters remember; frames on
connections that split, stall and break; a database whose flush and restore
take locks one after the other; carries, borrows and lengths at their limits.
`PROJECT.json` lists each at its line.

**What makes each part correct.**

- Chain: what a running node finds is closed under parents; nothing unverified is
  on the best chain; index, queue and transaction index describe the tip's path; a
  transaction comes onto it again only past the window, and only if it is dated
  ahead; the tip moves as the fork choice says; what a failing or panicking handler
  leaves behind in the caches is at most one block, with its path, per dead thread.
- Intake: no interleaving stores a block without its path or before its time;
  threads do not wait in a cycle, but for `pending`, which may wait for itself when
  the clock goes back; what was stranded comes in later.
- Read caches: what is stored is found; caches and database agree; what is not
  used any more is collected.
- Pool and gossip: `package` never panics; a transaction is taken in once, by
  every node; the messages end.
- Network: what is written is decoded once, in order and unchanged; a lost
  connection is replaced; one peer does not hold up the others.
- KVDB: a read is of one moment; a transaction takes effect at once, and what it
  wrote is read until the next, as it was given or compressed; what fails leaves the
  locks and the buffers in use.
- Trie: what was inserted last is found, committed and read back in order.
- Data: what is encoded is decoded, by each reader; words compute what integers
  do, up to their width; a Merkle root has every leaf, in order.

## The modules

```
BlockTree ── HashCache ─┬─ HashCacheLoop
    │                   ├─ ChainStore ───────── refines ForkChoice
    │                   └─ ConcurrentInsert ─── (its disk) refines ForkChoice
    ├─ ForkChoice
    └─ BlockIntake
TxPool ── TxGossip        ReadCache        FrameStream
KvDb ── refines KvMap     Avl ── AvlRead
HashCacheLoop ────────────────┐
Rlp ── RlpStream ─────────────┼─ Algorithms
UintCore ── Uint ── FixedHash ┤
MerkleTree ───────────────────┘
```

`MC*.tla` with `MC*.cfg` are the instances for TLC; `*_proofs` and `*Facts` hold
the theorems. Definitions whose comment says *a faulty variant* are not part of
a model: each is a plausible bug, used to see that a property would notice it.

**BlockTree** A block hash commits to the parent's, so a block is its path
from genesis: a sequence of labels. `Height`, `Anc`, `Parent`, `Path` follow.
Bodies are sequences of transaction hashes; times are constants of the block.
`KeepsHash` says what decoding a header does to its hash (see below).

**HashCache** The queue is a sequence of blocks; a loop over the cache is a
closed form (`UpdatedQueue`, `RolledBack`) and a sequence of *enter* and *leave*
operations, of which the last to touch a hash decides (`Applied`).
**HashCacheLoop** runs the same loops one method call at a time, and compares.

**ChainStore** One action per handler, in the thread `t` that runs it:
`Insert(t, b)` (with `block_basic_check`, `transactions_diff`, `transactions_check`,
both ways of adopting a block, and the panics on the way), `Mine`, `MinerPanics`,
`PendingFails`, `Crash`, `Restart`. A handler is one step, and has two results: the
caches as it leaves them and the batch it writes at its end, if it gets there.
`known` and `verified` are what a running node finds in caches over database;
`onDisk` is what the batches have stored, headers, flags and bodies. `running` are
the threads that have not panicked: a panic in `mario`, `pending` or the miner ends
that thread (`Ends`) and the node goes on with what it had put into the caches
(`SwitchStops`); one in the main thread ends the process, and so does `Crash`, a
kill. `Sends` is the message to `mario`, which panics when `mario` is gone.
`number`, `txAddr` and `tip` change after everything that can panic, in caches and
batch alike (`current_hash` in memory is the same as its key); `queue` and `hashes`
are memory only. `Restart` finds what is on disk.
**ForkChoice** is what a running node promises its readers: a tree of blocks closed
under parents, and a tip that stays or moves to the new block, one higher or as high.

**ConcurrentInsert** `insert_at` split at each access of shared state, in
several threads, with the process lost between any two steps. It takes the
blocks whose fork is short and verified; `headers`, `bodies`, `number`, `queue`,
`tip` are what threads see, `onDisk`, `diskNumber`, `diskTip` what a batch left.
The history variable `overlap` tells runs in which two threads have been inside
at once from those in which each was alone.

**BlockIntake** `insert` split where its checks, pushes, write and send can be
interleaved, in `main`, `mario` and `pending`; the store is a set of blocks.
Locks appear where Rust holds a guard over several steps: `mario` holds
`unknown_parent` and `pending` reads `future_blocks` while they insert. `now` is the
clock of the NTP server that is furthest ahead; a reading is that of any server, and
may be up to `Drift` earlier (`Readings`), so of two readings the later may be the
earlier time. Any thread may panic in an insert (`InsertPanics`) and, once `mario`
is gone, in the send after it (`SendPanics`); a panic in the main thread ends all.
Clock, NTP errors, peers' messages and answers are the surroundings; `calm` marks the
moment from which servers and peers behave and inserts do not panic.

**TxPool**, **TxGossip** The pool is a record and its methods are operators on
it, with the LRU filter and with order numbers that wrap at `OrderSpace`, the
`BTreeSet` dropping a number that is in use. In TxGossip each node has one, with
a stream from each peer, a miner between `package` and `update`, messages that
meet no stream, and crashes.

**ReadCache** Per id: the database, the caches, the generations; per thread: a
read (lookup, database, fill, note) and a batch; and the collector, which
measures before it locks. `ReadBack` is what the database returns of a value.

**FrameStream** Words of four bytes. `Broadcast` is the client thread's next
peer; `Connect`, `Handshake`, `NeedReconnect` the thread of a peer; `Read`,
`Decode` its server; `Break` and writes cut short the network. Answers nobody
reads are counted, and stall the server when they fill the way back.

**KvDb** What each lock of `Database` covers is one step; a lock held over
several steps is a guard of those that want it. `write` goes past the overlay;
`write_buffered` adds to it; `flush` swaps it with `flushing`, writes a batch that
may fail, and swaps again under the locks it has kept or taken anew; `get` looks
into overlay, flushing and disk under three locks; `restore` closes, renames the
directories and opens, where each step may fail or be the process's last.
`add_column` and `drop_column` change what cells there are. `losses` counts the
events after which a cell may read otherwise: `Loses` says which they are. What a
cell reads as has a form: `plain`; `compressible`, a value of `put_compressed` as it
was given; or `compressed`, as a flush or a write stores it, and as `get` returns it
from then on, since nothing decompresses it.
**KvMap** is the promise, and what `InMemory` is: a map that a transaction changes at
once, in which values of `put_compressed` may at any time turn into their compressed
form and never back (`Pack`), and whose contents only a counted loss changes otherwise.

**Avl** `insert_at`, `remove_at`, the rotations and `commit` on trees whose nodes
are loaded one by one, with a death row and a database that counts references; a
hash holds its node, so what can go wrong is that the database has it no more.
Each is a recursive function over `Handle`, the trees of up to `MaxDepth` levels
of branches. `LookUp` is the walk of `get`, on either root; `aux` is what
`FatDBMut` keeps beside the tree. **AvlRead** adds `AVLDB`'s iterator on what is
committed: a trail of crumbs that `Incremented` moves on, `Items`, and `Sought`
for `seek`.

**Rlp**, **RlpStream** A value is a tree; the boundaries 128, 55 and 8 are
constants, so short inputs meet every kind of header. Rlp has the operators of
stream and view: `NoteAppended` with the lists it closes, `At` with its cache of
places, the two readers of a header (`ItemInfo`, `DecodeValue`), integers,
hashes, options, derived structures, and the compression of blocks. RlpStream
calls the stream in any order that does not panic.

**UintCore**, **Uint**, **FixedHash** Arrays of words, the least first, the loops
of the macros with their carries. UintCore has what is computed word by word
(sums, differences, products, comparison) and `ValueOf`, the integer a number
stands for; Uint the rest, shifts, division, powers, bytes and digits, with the
assembly multiplications beside the portable ones. **MerkleTree** has the root
over leaves that stand for themselves; `Leaves` and `Depths` say what is in it.
**Algorithms** composes what shares no state: a behaviour runs a loop, a stream,
or one sample.

## The runs

Eleven runs hold, one refutes a statement of the source. Each property of a
passing run has a mutant in `PROJECT.json`, a change of the modelled code under
which TLC finds it violated.

| Run | Instance | What it shows |
|---|---|---|
| `algorithms` | queues and block lists up to 3, streams of 6 bytes, all strings of up to 5 bytes out of 10 and some with lengths of two bytes, words of 4 bits, up to 17 leaves | The closed forms are what the window's loops do; a stream's bytes encode what was appended and are read back, also through the cache of places; both readers of a header agree on every string, and data or an integer is accepted in two spellings, the stream's and the long form, and no other; words compute what integers do, `overflowing_pow` both in its value and its flag; a Merkle root has each leaf once, in order. |
| `ties` | chain of 5, a rival at each height, queue of 5, window of 2 | While no reorganisation is deeper than one block, with threads and the process lost at any point, and transactions that are repeated, replaced and dated ahead: the queue is the window, ancestors are found, a transaction comes back only past the window and only if it is dated ahead, every entry of the transaction index is a place on the chain that holds it, and each transaction that cannot come back has one. |
| `reorg` | branches of up to 5 from genesis and from height 1, buffer of 4 | The index is the tip's path after reorganisations of several blocks, and what a running node finds implements ForkChoice. |
| `long` | branches of 4, buffer of 2 | Switches to unverified branches that succeed, fail half-way and panic, in any thread: verification never skips a block, the best chain holds nothing unverified, and what the caches have beyond the disk is one block per thread that ended, with what was marked verified below it. |
| `intake` | chain of 2 with a bad rival at each height, a block of our own, clock 0..2, servers one unit apart | Three threads that may die, any order: nothing without its path, nothing early, no cycle of locks but `pending`'s own, which takes a clock that goes back; after the surroundings calm down, a good block is stored with all it misses, while `main` and `mario` are alive. |
| `insert` | two threads, branches of 3 and 2, queue of 3 | Alone, a thread leaves a whole chain on disk and moves it as ForkChoice says; two together still find every header, keep the index up to the tip, and have all on disk when they rest. |
| `gossip` | two nodes, two transactions, three submissions, one loss, one filter of size 1, 3 order numbers | `package` never panics, a node with room takes a transaction in once, each reaches all, gossip ends. |
| `read_cache` | two threads, a header and an address, 2 generations, 3 puts | What was stored is found; caches and database differ only where operations on one id crossed, and not for long. |
| `stream` | a peer that listens and one that does not, 2 requests, 2 connections, 1 fault | What was written before a cut is decoded once and in order; a lost connection is replaced; only a server stalled by its answers holds up the client. |
| `kvdb` | two threads, columns 0..2, one key, 3 transactions of several kinds, 3 losses | A read answers for one moment of its duration; locks, flag and buffers stay usable through failures; but for compression and the counted losses the database is KvMap. |
| `avl` | 5 keys, short and long values, 6 operations | Every key is found with its last value, also from the committed root; what is committed is read back in order, and by `seek` from beyond any key; every branch is higher than its children, so each rotation finds what it takes apart; a tree that only grew is balanced. |
| `restart` | as `ties` | **refuted**: a process that is lost can start again. |

**Bounds.** Every bound is a constant named in the module's header, or the tree
of blocks of the MC module. The trees are chosen so that the cases the code
distinguishes occur: forks shorter, as long as and longer than `buffer_size`;
queues that have lost their genesis entries; transactions that return inside
and outside the window and on both sides of a fork; `epoch_len` crossed by the
chain (`ties`). In `intake` two readings past a block's time suffice for
early, due and too-far-ahead blocks; `Drift = 1` is enough for a block that is due
when `pending` takes it up and early when it inserts it; `MaxFuture = 1` leaves room for a push
while the copy is inserted, the case in which blocks are lost; one bad block per
height makes each check fail once. In `gossip` three order numbers wrap. In
`stream` a message contains the word that begins a frame, a connection holds
one frame and a half, and `MaxUnread = 0` makes handshakes wait for an empty way:
it bounds them, and takes nothing from what requests write. In `kvdb` three
columns are column 0, one of the configuration, and one that is added or
dropped; three losses are a failed flush, a crash and a failed restore in one
run. In `avl` six operations are the fewest that rotate twice and remove an
inner key afterwards; five keys make trees of at most four levels of branches,
below `MaxDepth = 5`, so that the bound cuts nothing off. Nor does `MaxHeight = 5`
for 17 leaves. In `algorithms` a scaled-down constant keeps its part:
words of two halves, a byte below a half, numbers of two words for everything
and of four for the unrolled assembly; the code's own sizes differ in width only.

**Fairness.** `intake`: threads of the operating system run (`InsertStep`,
`MarioReceives`, `MarioNext`), and a peer answers a `SYNCREQ`; nothing is assumed
of `pending`, which may be dead or stuck, and nothing of the network before `calm`.
`calm` says that the NTP servers agree and answer, that peers send new blocks to a
quiet node only, that the peer asked still holds the header in its cache, and that
no insert panics; the code guarantees none of it, and the property is conditional
on it, and on `main` and `mario` being alive. `pending` may have died before.
`gossip`: main loops take their messages, and a miner wins from time to time (the
lottery is the protocol's own liveness assumption). `stream`: the client thread and
the servers run, peer threads come round (they loop with a sleep), a peer with
connections left listens, and a write to a broken connection fails at last, as TCP
sees to. Safety runs assume no fairness.

**Deadlock** is not checked: every system here may stop, in a bounded instance
when its bounds are used up. Threads that wait for each other are the subject of
`StuckOnlyByClock` and `ClientServes`.

## The proofs

All theorems hold for every tree of blocks, set of threads or nodes, size and
bound that the modules' ASSUMEs allow; TLC evaluates these on every run.

**ChainStore_proofs** (on `BlockTreeFacts`). `IInv` is the
types, `StoreClosed`, `VerifiedClosed`, `BestChainVerified`, `IndexEndsInTip`,
`DiskFollows`, `QueueInUse`, `AtStart` and `MissingFinite`. The last conjuncts are
less obvious. Where a fork meets the best chain is decided by
`block_hash_by_number`, which asks the queue before the index, so a reorganisation
keeps the index complete and verified only if what is in the queue is verified
blocks as well, and if the queue is not empty while the process runs. A thread that
panics leaves one more block in the caches that no batch stores, so the disk of a
running node is *not* closed under parents; `DiskFollows` counts how far it is behind
(`MissingFinite`, that there is something to count). That a restart finds a closed
store all the same is `AtStart`: a node that can start has genesis alone, as nothing
else keeps its hash, and while genesis is the tip nothing has been inserted.
Each handler is one lemma; a switch that fails or panics adds to `verified` only the
checked prefix of an unverified path, whose first block stands on a verified one.
From `IInv`: `TypeCorrect`, `StoreStaysClosed`, `VerifiedStaysClosed`,
`BestChainStaysVerified`, `IndexStaysComplete`, `DiskStaysClose` and `Refinement`:
the initial state maps to ForkChoice's, every handler to its `Learn` or a stutter.
They speak of what a running node finds, threads that died included; of the disk it
leaves they say `DiskFollows`, and no more.

What the entries are, and not only their heights, rests on the queue, and there
are two arguments about it, for two kinds of runs:

- `SpecShort`: no long fork is switched to, but reorganisations below
  `buffer_size` may be of any depth. A deep one leaves the queue out of order, and
  entries then *lag*: they are lower than their places say. But an entry
  that is still the answer for its own height is on the tip's path (`Truthful`).
  A walk that asks such a queue may therefore end too low, never off the best
  chain, and what it rewrites below the fork is what was there (`ShortInv`):
  hence `IndexStaysCanonical`, which the run `reorg` checks on its trees.
- `SpecTies`: a new tip follows the tip or replaces it as a child of the same
  parent. Here index and queue stay exact, and each needs the other: the index is
  written from walks that ask the queue, the queue is rolled by walks that ask
  the index (`ChainInv`). From it `QueueStaysWindow`, for every epoch length.
  `TxInv` adds what the map of hashes holds (`HeldInWindow`: each transaction that
  the window carries for the first time) and the places of the transaction index
  (`PlacesExist`): hence `RepeatsStayLate` and `AddressesStayExact`, for any dates
  of blocks and transactions and any clock of the miner. No check of the code sees
  that a transaction is dated after the block that carries it: `filter_transactions`
  (`chain.rs:480`) and `transactions_check` (`chain.rs:655`) compare its time with the
  first block of the window only. Such a transaction may return, so the
  property says which ones may, and when. Once it has, a reorganisation that drops
  its second carrier deletes its entry in the index, so the index is complete for
  those that cannot return (`Settled`) and exact for all.

Finally `LoopsAreClosedForms`: `LoopInv` says, for each round of HashCacheLoop,
what the queue and the map are by then, a closed form of its own; the last
round's is the one ChainStore uses, for every queue, list and argument.

**ConcurrentInsert_proofs** (on `BlockTreeFacts`). Interleaved, the steps of
`insert_at` keep none of what ChainStore_proofs says of whole handlers, so `IInv`
ties memory to disk by the threads' places: the headers and bodies in sight are
those on disk and the blocks of the threads that have put theirs; the heights of
the index are those on disk and those of the walks of the threads that have
numbered theirs (`Headers`, `Bodies`, `Index`). `InSight` adds that headers have
their parents, that the index has no hole and that the tip, the queue and every
cursor a walk has ended at have their height in it: `update_block_number` then
fills exactly the gap between that cursor and the block (`WholeExtends`). `Alone`
says what taking turns adds: the one block inside is new and at most one higher
than the tip on disk, which is the tip in memory but for a batch that adopts. From
it: `TypeCorrect`, `WalksAlwaysFind`, `RestAlwaysDurable` and `DiskRefinement`.
`InTurn` goes on from there to what the entries are, by the place of the one
thread inside: the index on disk is the path of the tip on disk, the one in
memory that of the block once its walk is numbered, and the queue is `Truthful`
for the old tip or for the new one. `AloneStaysWhole` follows for all of `Spec`:
any tree, any number of threads, any `Total`; of runs in which two threads overlap
it says nothing, as `AloneIsWhole` does not.

**BlockIntake_proofs**. `KnownClosed` and `NeverEarly` say nothing of the blocks
threads hold between their lookups and their write. `IInv` adds that, using that
the store only grows and that no server's clock is ahead of `now`, which does not
go back: a thread past its checks holds a block whose parent is stored and whose
time has come; whatever is in the channel or was taken out of `unknown_parent` has
its parent stored; `pending` inserts only what was due by the reading with which it
took it up. A dead thread holds nothing. `StuckByClockAlone` follows: no thread that
holds one of the two locks asks for `unknown_parent`, and `pending` asks for the
`future_blocks` it reads only when its second reading was earlier than its first by
more than the block was overdue, which servers that agree exclude.

**Network_proofs**, in two parts. *Gossip*, per node (`NodeOK`): each order's
transaction is pooled; the filter holds no hash twice, and, while it has room
for all that was seen, exactly what was seen, each once taken in, so that nothing
is ordered or sent again. `PackageNeverPanics` needs no room. *Frames*: `Sound`
says where, in the words a connection has not decoded, each frame that is still
expected begins, up to the cut; writing adds one at the end, breaking removes from
the end, reading moves words from the wire to the buffer and changes nothing of
the concatenation, decoding takes the first.

**ReadCache_proofs**. `Agreement` strengthens `CachesAgree` to ids in a batch and
to readers on their way: an id that is not suspect is in one batch at most;
then nobody is filling the cache with it, and the cache holds the batch's
value; when it is in no batch, cache and readers hold the database's. `Found`
adds that nothing but an address is deleted. `CollectedOnce` is inductive.

**KvDb_proofs**. `Gets` says of a thread inside `get` what the overlay, then
`flushing`, had for its cell and that the answer it would give now is one of its
duration; a flush cannot move the cell past it, because `get` holds the overlay's
lock. `OneRestore`, `Shut` and `Filled` tie
the buffers to the threads' places: one restore at a time, no database and no
room in the buffers until it has opened the new one, and entries only where a
buffer has room; `Directories` and `Sized` relate what is on disk to restore's
steps and the columns to the buffers' lengths. From `IInv`:
`TypeCorrect`, `GetStaysAtomic`, `RemainsUsable`, and `Refinement` of KvMap: what
a caller sees (`Visible`) changes by a transaction, by the compression of values of
`put_compressed` (`Pack`), by a counted loss, or not. A flush is a `Pack` when it
clears `flushing`, not when it writes: until then the buffer is read.

**Data_proofs**, in three parts, over trees, hashes and numbers of every size.
None of the library's induction theorems can be instantiated here (they take an
operator as a parameter), so induction is done through sets: `Counting` gets it
for the natural numbers from their well-foundedness (`WFMin`), and the set is
that of the numbers for which the claim holds. That a recursive definition has
the function it means, which TLA+ does not grant, is itself proved that way
(`Recursion` for trees, `Recursively` for hashes, `Looping` for loops).

*The trie.* `Keys`, `Find`, `Uses`, `Sound` and `Even` say what a tree holds, what
it maps keys to, which stored nodes it needs, whether it is in order with every
branch higher than its children, and whether it is an AVL tree. `InsertCorrect`
and `RemoveCorrect` say what the two recursive calls make of any tree in order: the
keys and values are those of before but for the one key; what the call condemns
was the tree's and is used by it no longer, and the rest of what it uses was its own
before, or is new. For the latter a tree has to be in order: a node on both sides
of a branch would be condemned on one and in use on the other (`UsesApart`).
`PackedSame` and `PackedUses` are `commit`'s part, `LookUpFinds` the reader's. `IInv`
joins them to the database and death row: both roots' nodes are stored; nothing
the root uses is on death row; and a root that is a hash *is* the root on disk.
Without the last, a commit that finds nothing to write but empties death row would
take nodes from under the root. From it: `Lookups` and `HeightsSufficient`, for
any set of keys and values, number of calls and depth. The functions of `IInv`
range over all trees, so TLC cannot evaluate it; the run checks what follows
from it.

*The Merkle root.* `RootKeepsOrder`: for every list of items that `Leaves` and
`Depths` look deep enough for. When the round with distance *d* begins, the places
that are multiples of *d* hold full trees of the items between them (`Covered`);
`Lowest` has it that so many leaves are merged first that a power of two is left.

*The integers.* For every number of words and every base, `AddCorrect`,
`SubCorrect`, `MulHalfCorrect` and `MulCorrect`: the result is the true one modulo
the range, and the flag is up exactly when that is not the true one. Along the
loop, the words that are done and the carry in the weight of the next amount to
what the operands come to so far (`Totals`; for a row of a product `RowCorrect`).
`MulWordsCorrect` and `TwoCarries` prove the comments "No overflow here" and "Only
single overflow possible there" of `full_mul`; `RowCorrect` also that the carry a row
leaves behind, which the code drops, is zero, since the product so far has room
below it. `FullMulCorrect` and `OrderCorrect` are for the product in twice the
words, and the comparison. The hypothesis `HalfBase \in Nat \ {0}` is the only one.

**Model-checked only.** `IteratesInOrder`, `StreamRoundTrips`, `ReadersAgree` and
`UintNumbers`: the iterator, the RLP codec, and of the integers shifts, division,
powers, conversions and the assembly. RLP is written with RECURSIVE operators, and
Uint uses the bitwise ones, and theorems about either are outside the proof
system's reach; what UintCore has in `UintNumbers`, and `MerkleKeepsOrder`, are proved
as above, but not under these names, since Algorithms extends those modules.
Fairness and ENABLED are out of reach as well, hence the liveness properties
`Recovers`, `ReachesAll`, `Settles`, `Reconnects`, `DecodedAtLast`, `ClientServes`.
Of the properties that are proved, `IndexCanonical` holds of `SpecShort`, and
`QueueIsWindow`, `RepeatsAreLate` and `AddressesExact` of `SpecTies` only,
not of `Spec`: see below for what the code does otherwise.

## Where the code departs

Refuted by a run, with the line that states otherwise:

- **A node that has stored a block cannot start again** (`restart`).
  `Block::sign` (`block.rs:298`) computes and caches the hash before the
  signature is set; the block is stored under that hash, and it is the hash that
  travels with the block. A header decoded from the database takes the hash of
  its whole encoding (`block.rs:144`). `Chain::init` asks for the body under it
  (`chain.rs:223`) and panics (`chain.rs:759`). While a node runs, its walks use
  headers that are still cached (an entry is collected some 800 seconds after
  its last use at the earliest); a header that has left the caches makes
  `switch_long_fork` panic and is sent to a peer as a block nobody has signed.

Seen while modelling and part of the models:

- A panic in `mario` or `pending` ends the thread and not the node. What the handler
  had put into the caches, the block (`chain.rs:293`) and verified headers
  (`chain.rs:713`), stays visible and is in no batch; blocks on top of it are stored,
  and indexed, above a gap on disk. `DiskFollows` says how large the gap is. After
  `mario`'s death the next insert panics in `send(hash).unwrap()` (`chain.rs:330`), and
  with it the main thread or `pending`.
- A transaction can be accepted twice within the window after a reorganisation of
  two blocks: `update_txs_cache` removes the hashes of an old block after the new
  block that carries the same ones has entered. TLC finds `RepeatsAreLate` violated
  on the instance of `reorg`; `ties` has no such reorganisation.
- A transaction that is dated after its block passes the check of its age when
  that block has left the window, and may come onto the chain again, as
  `RepeatsAreLate` has it. If the second block is replaced, the entry that the index
  has for it is deleted, and the first is found no more.
- `handle_pending` panics (`expect("insert block failed")`, `chain.rs:861`) when the
  insert it expects to succeed fails, and future blocks are never handled again:
  `PendingSucceeds` of BlockIntake does not hold. `Recovers` is checked with it.
- `ntp_timestamp` takes the first server that answers (`config.rs:154`). If a
  second reading is earlier, `pending` asks for `future_blocks.write` (`chain.rs:394`)
  while its own read guard lives (`chain.rs:859`), waits for itself for ever, and with
  it whoever pushes a future block. `StuckOnlyByClock` says that there is no other case.
- After a reorganisation of two or more blocks the queue is in the order of the
  walk, not of heights, and `QueueIsWindow` fails. `ties` therefore restricts its
  runs (`SpecTies`). The index does not suffer from it as long as forks are short
  (`IndexStaysCanonical`).
- `switch_long_fork` leaves a queue shorter than `Total`; the next block on it
  panics in `get_left_bound` (`chain.rs:454`). After a successful switch on larger
  trees the index may disagree with the tip's path; `IndexCanonical` is checked
  where all forks are short. The addresses and the block itself are read through
  `get_block_body_by_hash` before the batch is written, from the caches.
- Two threads inside `insert_at` at once may lower the tip, leave tip, index and
  queue of different branches, or panic on a header whose body is not cached yet;
  and a child may be on disk when its parent is not (a reason of its own not to
  start again). The properties say what remains true.
- A block that is pushed to `unknown_parent` after its parent's hash has passed
  `mario`, or to `future_blocks` after `pending` has copied it, stays or is
  lost; `Recovers` shows that a later block brings it back.
- Gossip need not end when the filters of two neighbours both overflow.
- Headers and bodies that are never read are never collected; the database key of a
  height has 32 bits.
- Nobody reads the server's answers: when they have filled the way back, the
  server stops reading and the client thread blocks with a stream locked. A
  short write makes the server hand on a message that `main.rs:125` cannot
  decode, or leaves it deaf until the connection is replaced.
- The miner may make a block in the slot of its parent, which peers refuse.
- KVDB (`write_buffered`, `flush` and `restore` have no caller in the node):
  the entries of a flush that failed stay in `flushing`, and the next flush swaps
  them in front of what was buffered since (`FlushKeepsValues` does not hold);
  `write` goes past the overlay, so that a buffered key hides what was written
  later and is flushed over it, against "Values which have been written can
  always be read" (`lib.rs:161`); a flush does not compress the values of the
  default column, and `get` returns compressed ones as they are (`lib.rs:735`), so that
  what a key of `put_compressed` reads as changes with the flush; a restore that
  fails leaves the database closed, where `get` answers `Ok(None)`; a process
  lost between the two renames opens an empty database beside the backup;
  `add_column` leaves the buffers too short, so that a write to the new column
  panics; `drop_column` with buffered entries makes the flush panic with its
  flag set. The model counts the first two as losses, has compression in its
  promise, and keeps the rest as steps.
- AVL trie: `remove` never returns the old value, so `FatDBMut::remove` keeps the
  auxiliary key; heights are not adjusted after a removal (`HeightsAreHeights`
  does not hold), so the tree need not be balanced any more; nodes that a
  removal frees are not all put on death row; an insert that fails on an
  incomplete database leaves the root dangling; `FatDBMut::insert` of an empty value
  removes the key and still stores its auxiliary key (`fatdbmut.rs:69`); `seek` starts
  beyond the key, as the trait's doc (`mod.rs:172`) and the test `iterator_seek` have it,
  and not, as the doc on the function has it (`avldb.rs:243`), at the key itself:
  `IteratesInOrder` states what the code does.
- Integers: `U256::overflowing_mul` in assembly, built with a nightly feature only,
  drops its last carry (`uint.rs:328`); `overflowing_neg` is the complement, with
  the flag always set.
- RLP: bytes after a top-level list count as items of it; the long form of a
  short length is accepted (`b8 01 05` beside `05`, `untrusted_rlp.rs:366`), so that data
  and integers have two spellings; iteration ends at the first malformed item without
  an error, so `as_list` returns the items before; `is_int` reads past the end of
  an item that is cut off; a list completed inside `rlp_append` is counted twice;
  a derived decoder ignores items it has no field for.

## Not modelled

- Eviction of headers inside ChainStore and ConcurrentInsert: ReadCache has it
  per id, and what a re-read header then does is described above. With eviction the
  gaps that a dead thread leaves would come into sight before a restart.
- A write of RocksDB that fails in the chain (`expect("DB write failed.")`), which
  would leave a handler's caches, indices and tip ahead of the disk.
- Block numbers in ReadCache's run: the module has them, and a third id beside
  header and address takes more time than a run is worth.
- Whether proofs, signatures and difficulty check out: a block is good or bad
  (`Bad`), or may be made by this node or not (`Own`).
- `update`'s effect on other nodes' pools: the code has none.
- KVDB's iterators, reads by prefix and statistics; an `add_column` or
  `drop_column` that fails half-way; the flush of an orderly drop. A process that
  comes back opens as many columns as there are.
- RLP's `Rlp` (the view that unwraps), `Display` and the tables of common
  encodings; random hashes, indexing and the bitwise operators of integers.
- The trie's recorder, factory and test maps, and the states after an operation
  that failed half-way (what is wrong with them is listed above). No module of
  the crate declares the directory, so the node does not contain the trie.
- Several nodes with chains of their own: BlockIntake is one node with what its
  peers may send it, TxGossip several nodes without chains.
- Cryptographic bindings, argument parsing, logging, test tools and the
  administration scripts: no behaviour of the node.

## The plan

Done: the chain store with its cache, its abstract specification and the
theorems about it; intake; interleaved inserts and their theorems; pool and
gossip; read caches; network; KVDB with its map and its theorems; the
algorithms; the trie; the theorems about trie, Merkle root and integers.

What could come next:

1. **A network of nodes**: ForkChoice per node with lossy links, `SYNCREQ` and
   miners with clocks, to check that honest nodes come to hold the same blocks;
   BlockIntake as the detailed form of one node. The headers that a node can no
   longer answer for (see above) have to be part of it.
2. **Proofs** about what is read: the trie's iterator (`IteratesInOrder`: the trail
   as the items to the right of it); the RLP codec, with its recursion as functions
   over trees of bounded depth as in Avl; shifts and division, on UintCore's
   theorems.
3. **Windows after deep forks**: how far the queue's entries may lag after several
   reorganisations, and with it which transactions can return.
