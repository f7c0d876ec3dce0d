-------------------------- MODULE ConcurrentInsert --------------------------
(***************************************************************************)
(* Chain::insert_at run by several threads at once, and the process lost   *)
(* between any two of its steps.                                           *)
(*                                                                         *)
(* ChainStore takes insert_at as one step.  Nothing in the code makes it   *)
(* one: every map has a lock of its own, held for one access, and the main *)
(* thread, mario, pending and the miner all insert.  Here insert_at is     *)
(* split at its accesses.  What it puts into the memory caches is seen at  *)
(* once; what it puts into its batch is on disk after db.write.            *)
(*                                                                         *)
(* The blocks are those whose fork is verified and shorter than            *)
(* buffer_size, whose transactions and proofs pass; the transaction index  *)
(* and long forks are left to ChainStore, and eviction from the caches is  *)
(* left out.                                                               *)
(***************************************************************************)
EXTENDS HashCache

CONSTANTS
    Thread,     \* the threads that insert
    Total       \* the length of the queue

ASSUME ConcurrentAssumption == Total \in Nat \ {0}

Place == {"idle", "header", "body", "height", "walk", "number", "shift", "queue",
          "status", "write", "dead"}

VARIABLES
    headers, bodies,    \* blocks found in block_headers and block_bodies, or on disk
    number,             \* block_hashes over the disk's index
    queue,              \* txs_cache
    tip,                \* current_hash, and with it current_height
    onDisk,             \* blocks on disk
    diskNumber,         \* the index on disk
    diskTip,            \* the "current_hash" on disk
    up,                 \* is the process running?
    at,                 \* at[t]: what thread t does next
    block,              \* block[t]: the block it inserts
    walked,             \* walked[t]: the blocks get_fork_chain has found
    adopts,             \* adopts[t]: does its batch hold index and status?
    shifts,             \* shifts[t]: is its block higher than the tip it read?
    overlap             \* history: have two threads been inside at once?

memory == <<headers, bodies, number, queue, tip>>
disk == <<onDisk, diskNumber, diskTip>>
frames == <<block, walked, adopts, shifts>>
vars == <<memory, disk, up, at, frames, overlap>>

-----------------------------------------------------------------------------
(* Reading.                                                                *)

\* block_hash_by_number(Height(x)) = Some(x)
OnBestChain(x) ==
    IF Cached(queue, Height(x)) THEN BlockInfo(queue, Height(x)) = x
    ELSE Height(x) \in DOMAIN number /\ number[Height(x)] = x

\* Where thread t's walk stands.
Cursor(t) == IF walked[t] = << >> THEN Parent(block[t]) ELSE Parent(walked[t][Len(walked[t])])

\* The blocks thread t adopts, its own last.
Adopted(t) == Append(walked[t], block[t])

\* A faulty variant: each block is written one height too high.
WrittenAbove(index, blocks) ==
    LET heights == {Height(blocks[i]) + 1 : i \in DOMAIN blocks}
    IN [k \in DOMAIN index \union heights |->
            IF k \in heights
            THEN blocks[CHOOSE i \in DOMAIN blocks : Height(blocks[i]) + 1 = k]
            ELSE index[k]]

\* The index with the blocks of a sequence written to it.
Written(index, blocks) ==
    LET heights == {Height(blocks[i]) : i \in DOMAIN blocks}
    IN [k \in DOMAIN index \union heights |->
            IF k \in heights THEN blocks[CHOOSE i \in DOMAIN blocks : Height(blocks[i]) = k]
                             ELSE index[k]]

-----------------------------------------------------------------------------
(* insert.                                                                 *)

At(t, p) == up /\ at[t] = p

Goto(t, p) == at' = [at EXCEPT ![t] = p]

\* "none", then "raced" once two threads are inside, then "lost" once the process
\* is lost after that.
Overlaps(t) ==
    overlap' = IF overlap = "none" /\ \E u \in Thread \ {t} : at[u] # "idle"
               THEN "raced" ELSE overlap

Loses == overlap' = IF overlap = "raced" THEN "lost" ELSE overlap

\* A faulty variant: the parent is not looked up.
BeginsAnywhere(t, b) ==
    /\ At(t, "idle")
    /\ b \notin headers
    /\ block' = [block EXCEPT ![t] = b]
    /\ walked' = [walked EXCEPT ![t] = << >>]
    /\ adopts' = [adopts EXCEPT ![t] = FALSE]
    /\ shifts' = [shifts EXCEPT ![t] = FALSE]
    /\ Goto(t, "header")
    /\ Overlaps(t)
    /\ UNCHANGED <<memory, disk, up>>

\* block_basic_check has found the block new and its parent stored; gen_block
\* has made a new block on one.
Begin(t, b) ==
    /\ At(t, "idle")
    /\ b \notin headers
    /\ Parent(b) \in headers
    /\ block' = [block EXCEPT ![t] = b]
    /\ walked' = [walked EXCEPT ![t] = << >>]
    /\ adopts' = [adopts EXCEPT ![t] = FALSE]
    /\ shifts' = [shifts EXCEPT ![t] = FALSE]
    /\ Goto(t, "header")
    /\ Overlaps(t)
    /\ UNCHANGED <<memory, disk, up>>

PutHeader(t) ==
    /\ At(t, "header")
    /\ headers' = headers \union {block[t]}
    /\ Goto(t, "body")
    /\ UNCHANGED <<bodies, number, queue, tip, disk, up, overlap, frames>>

PutBody(t) ==
    /\ At(t, "body")
    /\ bodies' = bodies \union {block[t]}
    /\ Goto(t, "height")
    /\ UNCHANGED <<headers, number, queue, tip, disk, up, overlap, frames>>

\* A faulty variant: a block of any height is adopted.
ReadsAnyHeight(t) ==
    /\ At(t, "height")
    /\ adopts' = [adopts EXCEPT ![t] = TRUE]
    /\ Goto(t, "walk")
    /\ UNCHANGED <<memory, disk, up, overlap, block, walked, shifts>>

\* Is it the next block, or as high as the tip?
ReadHeight(t) ==
    LET yes == Height(block[t]) \in {Height(tip), Height(tip) + 1}
    IN /\ At(t, "height")
       /\ adopts' = [adopts EXCEPT ![t] = yes]
       /\ Goto(t, IF yes THEN "walk" ELSE "write")
       /\ UNCHANGED <<memory, disk, up, overlap, block, walked, shifts>>

-----------------------------------------------------------------------------
(* adjust_block_hashes.                                                    *)

\* get_fork_chain, one block down.  `expect("invalid block")' panics when the
\* block's body is not found.
Walk(t) ==
    LET c == Cursor(t)
        ends == OnBestChain(c) \/ Height(c) = 0
    IN /\ At(t, "walk")
       /\ \/ /\ ends
             /\ Goto(t, "number")
             /\ UNCHANGED walked
          \/ /\ ~ends /\ c \in bodies
             /\ walked' = [walked EXCEPT ![t] = Append(@, c)]
             /\ UNCHANGED at
          \/ /\ ~ends /\ c \notin bodies
             /\ Goto(t, "dead")
             /\ UNCHANGED walked
       /\ UNCHANGED <<memory, disk, up, overlap, block, adopts, shifts>>

\* update_block_number
UpdateNumber(t) ==
    /\ At(t, "number")
    /\ number' = Written(number, Adopted(t))
    /\ Goto(t, "shift")
    /\ UNCHANGED <<headers, bodies, queue, tip, disk, up, overlap, frames>>

\* current_height is read again, before txs_cache is locked.
ReadShift(t) ==
    /\ At(t, "shift")
    /\ shifts' = [shifts EXCEPT ![t] = Height(tip) < Height(block[t])]
    /\ Goto(t, "queue")
    /\ UNCHANGED <<memory, disk, up, overlap, block, walked, adopts>>

UpdateQueue(t) ==
    /\ At(t, "queue")
    /\ queue' = UpdatedQueue(IF shifts[t] THEN LeftShift(queue) ELSE queue, Adopted(t), Total)
    /\ Goto(t, "status")
    /\ UNCHANGED <<headers, bodies, number, tip, disk, up, overlap, frames>>

\* save_status holds current_height and current_hash at once.
SaveStatus(t) ==
    /\ At(t, "status")
    /\ tip' = block[t]
    /\ Goto(t, "write")
    /\ UNCHANGED <<headers, bodies, number, queue, disk, up, overlap, frames>>

\* A faulty variant: the status goes to disk without the rest of the batch.
WritesStatusOnly(t) ==
    /\ At(t, "write")
    /\ diskTip' = IF adopts[t] THEN block[t] ELSE diskTip
    /\ Goto(t, "idle")
    /\ UNCHANGED <<memory, onDisk, diskNumber, up, overlap, frames>>

\* db.write: the batch is atomic.
WriteBatch(t) ==
    /\ At(t, "write")
    /\ onDisk' = onDisk \union {block[t]}
    /\ diskNumber' = IF adopts[t] THEN Written(diskNumber, Adopted(t)) ELSE diskNumber
    /\ diskTip' = IF adopts[t] THEN block[t] ELSE diskTip
    /\ Goto(t, "idle")
    /\ UNCHANGED <<memory, up, overlap, frames>>

-----------------------------------------------------------------------------
(* The process.                                                            *)

\* Chain::init fills the queue with the last blocks of the best chain, and with
\* entries of genesis behind them.
Filled ==
    LET h == Height(diskTip)
        n == Min({Total, h + 1})
    IN [x \in 1 .. n |-> Anc(diskTip, h - n + x)] \o [x \in 1 .. Total - n |-> Genesis]

Crash ==
    /\ up
    /\ up' = FALSE
    /\ headers' = {} /\ bodies' = {}
    /\ number' = [k \in {} |-> Genesis]
    /\ queue' = << >>
    /\ tip' = Genesis
    /\ at' = [t \in Thread |-> "idle"]
    /\ block' = [t \in Thread |-> Genesis]
    /\ walked' = [t \in Thread |-> << >>]
    /\ adopts' = [t \in Thread |-> FALSE]
    /\ shifts' = [t \in Thread |-> FALSE]
    /\ Loses
    /\ UNCHANGED disk

\* init reads the headers that fill the queue, `expect("header not found!")', and
\* takes the bodies from the hashes they have, `expect("invalid block")'.
Startable == \A x \in DOMAIN Filled : Filled[x] \in onDisk /\ KeepsHash(Filled[x])

Restart ==
    /\ ~up /\ Startable
    /\ up' = TRUE
    /\ headers' = onDisk /\ bodies' = onDisk
    /\ number' = diskNumber
    /\ queue' = Filled
    /\ tip' = diskTip
    /\ UNCHANGED <<disk, at, frames, overlap>>

Init ==
    /\ headers = {Genesis} /\ bodies = {Genesis}
    /\ number = [k \in {0} |-> Genesis]
    /\ queue = [x \in 1 .. Total |-> Genesis]
    /\ tip = Genesis
    /\ onDisk = {Genesis}
    /\ diskNumber = [k \in {0} |-> Genesis]
    /\ diskTip = Genesis
    /\ up = TRUE
    /\ overlap = "none"
    /\ at = [t \in Thread |-> "idle"]
    /\ block = [t \in Thread |-> Genesis]
    /\ walked = [t \in Thread |-> << >>]
    /\ adopts = [t \in Thread |-> FALSE]
    /\ shifts = [t \in Thread |-> FALSE]

Next ==
    \/ \E t \in Thread :
          \/ \E b \in Block \ {Genesis} : Begin(t, b)
          \/ PutHeader(t) \/ PutBody(t) \/ ReadHeight(t)
          \/ Walk(t) \/ UpdateNumber(t) \/ ReadShift(t) \/ UpdateQueue(t)
          \/ SaveStatus(t) \/ WriteBatch(t)
    \/ Crash
    \/ Restart

Spec == Init /\ [][Next]_vars

-----------------------------------------------------------------------------
(* Properties.                                                             *)

TypeOK ==
    /\ headers \subseteq Block /\ bodies \subseteq Block /\ onDisk \subseteq Block
    /\ \A k \in DOMAIN number : k \in Nat /\ number[k] \in Block /\ Height(number[k]) = k
    /\ \A k \in DOMAIN diskNumber :
          k \in Nat /\ diskNumber[k] \in Block /\ Height(diskNumber[k]) = k
    /\ queue \in Seq(Block) /\ tip \in Block /\ diskTip \in Block
    /\ up \in BOOLEAN
    /\ at \in [Thread -> Place] /\ block \in [Thread -> Block]
    /\ walked \in [Thread -> Seq(Block)]
    /\ adopts \in [Thread -> BOOLEAN] /\ shifts \in [Thread -> BOOLEAN]
    /\ overlap \in {"none", "raced", "lost"}

AtRest == up /\ \A t \in Thread : at[t] = "idle"

\* As long as no two threads have been inside insert_at at once, what a process
\* that is lost between any two of its steps leaves on disk is a whole chain, with
\* the index of that chain; a thread alone never panics, and leaves in memory what
\* is on disk.
AloneIsWhole ==
    overlap = "none" =>
        /\ Path(diskTip) \subseteq onDisk
        /\ \A k \in 0 .. Height(diskTip) : diskNumber[k] = Anc(diskTip, k)
        /\ \A t \in Thread : at[t] # "dead"
        /\ AtRest => tip = diskTip /\ number = diskNumber /\ headers = onDisk

\* What the threads, one at a time, leave on disk at any moment is a fork choice.
FC == INSTANCE ForkChoice WITH known <- onDisk, tip <- diskTip

DiskIsForkChoice == FC!Init /\ [][overlap' = "none" => [FC!Next]_FC!vars]_vars

\* Until the process is lost, every header that a thread can see has its path of
\* headers in sight, whichever thread has put it there and however far that thread
\* has come, and the index has a block for every height up to the tip, although
\* each thread writes it and the tip at different times: the walks that unwrap a
\* header, `expect("invaild block number")' and `expect("invalid block")' find one.
WalksFind ==
    up /\ overlap # "lost" =>
        /\ \A b \in headers : Path(b) \subseteq headers
        /\ \A k \in 0 .. Height(tip) : k \in DOMAIN number

\* Whatever has overlapped, when the threads are at rest all that was adopted,
\* and all it stands on, is on disk, and the index on disk reaches the tip there.
RestIsDurable ==
    AtRest /\ overlap # "lost" =>
        /\ headers = onDisk /\ bodies = onDisk
        /\ tip \in onDisk /\ Path(diskTip) \subseteq onDisk
        /\ 0 .. Height(diskTip) \subseteq DOMAIN diskNumber

=============================================================================
