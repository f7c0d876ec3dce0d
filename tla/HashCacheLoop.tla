--------------------------- MODULE HashCacheLoop ---------------------------
(***************************************************************************)
(* The loops over a HashCache, one method call at a time: update_txs_cache  *)
(* with its `replace', and tx_cache_roll_back with its `drop_back' and      *)
(* `push_front'.  A run starts one of the two loops on an arbitrary cache   *)
(* and, when the loop has ended, compares the cache with the closed form    *)
(* the chain store uses (HashCache).                                       *)
(***************************************************************************)
EXTENDS HashCache

CONSTANT MaxLen     \* the longest queue and block list a run starts with

ASSUME LoopAssumption == MaxLen \in Nat

VARIABLES
    cacheQueue, cacheHashes,  \* the cache: HashCache's queue and hashes
    stage,          \* the loop that runs: "update", "drop", "push" or "done"
    given, upTo,    \* the arguments of update_txs_cache; upTo is roll_back's n
    round,          \* the loop counter of the code
    began           \* the cache the loop started from, and roll_back's hash

loopVars == <<cacheQueue, cacheHashes, stage, given, upTo, round, began>>

Removed(hs, b) == [t \in DOMAIN hs \ TxSet(b) |-> hs[t]]

Inserted(hs, b) ==
    [t \in DOMAIN hs \union TxSet(b) |->
        IF t \in TxSet(b) THEN Height(b) ELSE hs[t]]

\* A faulty variant, for the mutants: the pushed block is put at p even when p
\* is past the back.
SwapAlways(q, p, b) ==
    IF p < Len(q) THEN [q EXCEPT ![p + 1] = b] ELSE Append(q, b)

\* The queue after `push_back(b)' and `swap_remove_back(p)', p counted from 0.
SwapRemoved(q, p, b) ==
    IF p < Len(q) THEN [q EXCEPT ![p + 1] = b]
    ELSE IF p = Len(q) THEN q
    ELSE Append(q, b)

\* replace(p, b)
ReplaceHashes(q, hs, p, b) ==
    LET old == IF p < Len(q) THEN q[p + 1] ELSE IF p = Len(q) THEN b ELSE Genesis
    IN Inserted(Removed(hs, old), b)

\* One round of update_txs_cache.
UpdateStep ==
    /\ stage = "update"
    /\ round <= Len(given) /\ round <= upTo
    /\ cacheQueue' = SwapRemoved(cacheQueue, upTo - round, given[round])
    /\ cacheHashes' = ReplaceHashes(cacheQueue, cacheHashes, upTo - round, given[round])
    /\ round' = round + 1
    /\ UNCHANGED <<stage, given, upTo, began>>

UpdateEnd ==
    /\ stage = "update"
    /\ round > Len(given) \/ round > upTo
    /\ stage' = "done"
    /\ UNCHANGED <<cacheQueue, cacheHashes, given, upTo, round, began>>

\* drop_back(upTo): drains everything from position upTo, one block's hashes at a time.
DropStep ==
    /\ stage = "drop"
    /\ IF round <= Len(began.queue)
       THEN /\ cacheHashes' = Removed(cacheHashes, began.queue[round])
            /\ round' = round + 1
            /\ UNCHANGED <<cacheQueue, stage>>
       ELSE /\ cacheQueue' = SubSeq(cacheQueue, 1, upTo)
            /\ stage' = "push"
            /\ round' = 1
            /\ UNCHANGED cacheHashes
    /\ UNCHANGED <<given, upTo, began>>

\* One round of tx_cache_roll_back's loop: push_front of the next ancestor.
PushStep ==
    /\ stage = "push" /\ round <= upTo
    /\ LET above == IF round = 1 THEN began.hash ELSE cacheQueue[1]
           b     == IF Height(above) # 0 THEN Parent(above) ELSE above
       IN /\ cacheQueue' = <<b>> \o cacheQueue
          /\ cacheHashes' = Inserted(cacheHashes, b)
    /\ round' = round + 1
    /\ UNCHANGED <<stage, given, upTo, began>>

PushEnd ==
    /\ stage = "push" /\ round > upTo
    /\ stage' = "done"
    /\ UNCHANGED <<cacheQueue, cacheHashes, given, upTo, round, began>>

LoopInit ==
    /\ cacheQueue \in UNION {[1 .. n -> Block] : n \in 1 .. MaxLen}
    /\ cacheHashes = Applied(NoHashes, [x \in DOMAIN cacheQueue |-> Enter(cacheQueue[x])])
    /\ \/ /\ stage = "update"
          /\ given \in UNION {[1 .. n -> Block] : n \in 1 .. MaxLen}
          /\ upTo \in 0 .. 2 * MaxLen
          /\ round = 1
          /\ began = [queue |-> cacheQueue, hashes |-> cacheHashes, hash |-> Genesis]
       \/ /\ stage = "drop"
          /\ given = << >>
          /\ upTo \in 0 .. Len(cacheQueue)
          /\ round = upTo + 1
          /\ \E h \in Block :
                began = [queue |-> cacheQueue, hashes |-> cacheHashes, hash |-> h]

LoopNext == UpdateStep \/ UpdateEnd \/ DropStep \/ PushStep \/ PushEnd

LoopSpec == LoopInit /\ [][LoopNext]_loopVars

-----------------------------------------------------------------------------

\* update_txs_cache, and tx_cache_roll_back for every n up to the length of the
\* queue, leave in the queue and in the map exactly what the closed forms say,
\* whatever the length of the queue is when they run (the code passes `total' or
\* `total - n' for queues that may be shorter).
LoopsMeetClosedForms ==
    stage = "done" =>
        IF given # << >>
        THEN /\ cacheQueue = UpdatedQueue(began.queue, given, upTo)
             /\ cacheHashes = Applied(began.hashes, UpdateOps(began.queue, given, upTo))
        ELSE /\ cacheQueue = RolledBack(began.queue, began.hash, upTo)
             /\ cacheHashes = Applied(began.hashes, RollBackOps(began.queue, began.hash, upTo))

=============================================================================
