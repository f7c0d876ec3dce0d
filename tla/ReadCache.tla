----------------------------- MODULE ReadCache -----------------------------
(***************************************************************************)
(* The chain's caches in front of the database: chain/src/db.rs reads      *)
(* through them and writes to them, chain/src/cache_manager.rs decides     *)
(* what leaves them, and chain/src/chain.rs calls both from every thread.  *)
(*                                                                         *)
(* A handler (insert_at, in any thread) puts its entries into a batch and  *)
(* into the caches at once, and the batch into the database at its end, so *)
(* that other threads read from the caches what is not stored yet.  A      *)
(* reader holds no lock between its lookup in a cache, its read of the     *)
(* database and its fill of the cache.                                     *)
(*                                                                         *)
(* The four caches are one function of ids; an id without a value has      *)
(* NoValue.  What is read back of a signed header is not the value that    *)
(* was put: decoding gives it another hash (block.rs), see Decoded.        *)
(***************************************************************************)
EXTENDS Naturals, FiniteSets

CONSTANTS
    Thread,
    Blocks,         \* ids of headers and bodies, which are not noted when put
    Numbers,        \* ids of block_hashes, which cache_size leaves out
    Addresses,      \* ids of transaction_addresses, the only ones ever deleted
    Values,         \* Values[i]: what is ever put under i
    NoValue,
    Decoded,        \* Decoded[v]: what the database returns of v
    Generations,    \* COLLECTION_QUEUE_SIZE
    PrefSize,       \* pref_cache_size
    MaxSize,        \* max_cache_size
    EntrySize,      \* bytes_per_cache_entry, taken for the size of each entry
    MaxPuts         \* bound: puts and deletes by handlers

Id == Blocks \union Numbers \union Addresses

Encodable == UNION {Values[i] : i \in Id}

ASSUME CacheAssumption ==
    /\ IsFiniteSet(Id) /\ DOMAIN Values = Id /\ \A i \in Id : NoValue \notin Values[i]
    /\ DOMAIN Decoded = Encodable /\ \A v \in Encodable : Decoded[v] # NoValue
    /\ Numbers \intersect Blocks = {} /\ Addresses \intersect (Blocks \union Numbers) = {}
    /\ Generations \in Nat \ {0}
    /\ PrefSize \in Nat /\ MaxSize \in Nat /\ EntrySize \in Nat /\ MaxPuts \in Nat

VARIABLES
    disk,       \* disk[i]: the value in the database
    cache,      \* cache[i]: the value in the caches
    usage,      \* CacheManager.cache_usage: usage[1] is the latest generation
    reading,    \* reading[t]: t's call of read_with_cache and note_used
    batch,      \* batch[t]: the DBTransaction of t's handler
    measured,   \* whether collect_garbage has its current_size, and which
    puts,       \* how many puts and deletes there were
    suspect     \* history: ids whose cached value may not be the database's

vars == <<disk, cache, usage, reading, batch, measured, puts, suspect>>

Stored == Encodable \union {Decoded[v] : v \in Encodable} \union {NoValue}

\* get and decode.  Decoding what was decoded before changes nothing more.
ReadBack(v) == IF v \in Encodable THEN Decoded[v] ELSE v

Idle == [phase |-> "idle"]

Dead == [phase |-> "dead"]

Readings == {Idle, Dead} \union
    [phase : {"missed", "read", "done"}, id : Id, value : Stored, wasStored : BOOLEAN]

NoBatch == [i \in {} |-> NoValue]

Over(f, g) == [i \in DOMAIN f \union DOMAIN g |-> IF i \in DOMAIN f THEN f[i] ELSE g[i]]

\* Handlers that have put i and not stored it; readers of i that have missed
\* the cache and not filled it.
Writers(i) == {t \in Thread : i \in DOMAIN batch[t]}

Readers(i) == {t \in Thread : reading[t].phase \in {"missed", "read"} /\ reading[t].id = i}

-----------------------------------------------------------------------------
(* CacheManager.                                                           *)

\* A faulty variant: the id stays in the generation it was in.
NotedTwice(gens, used) ==
    [g \in DOMAIN gens |-> IF g = 1 THEN gens[g] \union used ELSE gens[g]]

\* note_used, for each id of a set.
Noted(gens, used) ==
    [g \in DOMAIN gens |->
        IF g = 1 THEN gens[1] \union used
        ELSE {i \in gens[g] : i \in used => \E k \in 1 .. g - 1 : i \in gens[k]}]

\* The caches after the last n generations have been collected, and their sizes.
Collected(n) ==
    LET unused == UNION {usage[g] : g \in Generations - n + 1 .. Generations}
    IN [i \in Id |-> IF i \in unused THEN NoValue ELSE cache[i]]

Size(held, ids) == EntrySize * Cardinality({i \in ids : held[i] # NoValue})

Enough(n) == n = Generations \/ Size(Collected(n), Id) < MaxSize

Shifted(n) == [g \in 1 .. Generations |-> IF g <= n THEN {} ELSE usage[g - n]]

\* rotate_cache_if_needed
Rotated ==
    IF EntrySize * Cardinality(usage[1]) > PrefSize \div Generations
    THEN [g \in 1 .. Generations |-> IF g = 1 THEN usage[Generations] ELSE usage[g - 1]]
    ELSE usage

-----------------------------------------------------------------------------
(* read_with_cache, and note_used once it has returned.                    *)

Lookup(t, i) ==
    /\ reading[t] = Idle
    /\ reading' = [reading EXCEPT ![t] =
           [phase |-> IF cache[i] = NoValue THEN "missed" ELSE "done",
            id |-> i, value |-> cache[i], wasStored |-> disk[i] # NoValue]]
    /\ suspect' = IF cache[i] = NoValue /\ Writers(i) # {} THEN suspect \union {i} ELSE suspect
    /\ UNCHANGED <<disk, cache, usage, batch, measured, puts>>

ReadDatabase(t) ==
    /\ reading[t].phase = "missed"
    /\ LET v == ReadBack(disk[reading[t].id])
       IN reading' = [reading EXCEPT ![t].value = v,
                                     ![t].phase = IF v = NoValue THEN "done" ELSE "read"]
    /\ UNCHANGED <<disk, cache, usage, batch, measured, puts, suspect>>

\* A faulty variant: what Cache::insert returns is returned, the old entry.
FillReturningOld(t) ==
    /\ reading[t].phase = "read"
    /\ cache' = [cache EXCEPT ![reading[t].id] = reading[t].value]
    /\ reading' = [reading EXCEPT ![t].phase = "done", ![t].value = cache[reading[t].id]]
    /\ UNCHANGED <<disk, usage, batch, measured, puts, suspect>>

Fill(t) ==
    /\ reading[t].phase = "read"
    /\ cache' = [cache EXCEPT ![reading[t].id] = reading[t].value]
    /\ reading' = [reading EXCEPT ![t].phase = "done"]
    /\ UNCHANGED <<disk, usage, batch, measured, puts, suspect>>

NoteUsed(t) ==
    /\ reading[t].phase = "done"
    /\ usage' = Noted(usage, {reading[t].id})
    /\ reading' = [reading EXCEPT ![t] = Idle]
    /\ UNCHANGED <<disk, cache, batch, measured, puts, suspect>>

-----------------------------------------------------------------------------
(* A handler.                                                              *)

\* What one lock of a cache puts: a header, a body, all of update_block_number,
\* or all of update_transaction_addresses, deletes included.
Puttable ==
    {f \in UNION {[ids -> Stored] : ids \in (SUBSET Id) \ {{}}} :
        /\ \/ \E i \in Blocks : DOMAIN f = {i}
           \/ DOMAIN f \subseteq Numbers
           \/ DOMAIN f \subseteq Addresses
        /\ \A i \in DOMAIN f : f[i] \in Values[i] \/ (i \in Addresses /\ f[i] = NoValue)}

\* A faulty variant: what is deleted stays in the cache.
CachedWith(f) == [i \in Id |-> IF i \in DOMAIN f /\ f[i] # NoValue THEN f[i] ELSE cache[i]]

\* write_with_cache and delete_with_cache, on the cache.
Cached(f) == Over(f, cache)

Put(t, f) ==
    /\ puts < MaxPuts
    /\ puts' = puts + 1
    /\ reading[t] = Idle
    /\ batch' = [batch EXCEPT ![t] = Over(f, @)]
    /\ cache' = Cached(f)
    /\ usage' = Noted(usage, {i \in DOMAIN f \ Blocks : f[i] # NoValue})
    /\ suspect' = (suspect \ DOMAIN f) \union
                  {i \in DOMAIN f : Readers(i) # {} \/ Writers(i) \ {t} # {}}
    /\ UNCHANGED <<disk, reading, measured>>

\* db.write(batch), at the end of insert_at.
WriteBatch(t) ==
    /\ reading[t] = Idle /\ batch[t] # NoBatch
    /\ disk' = Over(batch[t], disk)
    /\ batch' = [batch EXCEPT ![t] = NoBatch]
    /\ UNCHANGED <<cache, usage, reading, measured, puts, suspect>>

\* A handler panics; its thread is gone, and what it has put stays in the caches.
Panic(t) ==
    /\ reading[t] = Idle /\ batch[t] # NoBatch
    /\ reading' = [reading EXCEPT ![t] = Dead]
    /\ batch' = [batch EXCEPT ![t] = NoBatch]
    /\ suspect' = suspect \union DOMAIN batch[t]
    /\ UNCHANGED <<disk, cache, usage, measured, puts>>

-----------------------------------------------------------------------------
(* collect_garbage, in a thread of its own: the size is taken first, then  *)
(* all the caches and the CacheManager are locked.                         *)

NotMeasured == [done |-> FALSE]

CacheSize ==
    /\ measured = NotMeasured
    /\ measured' = [done |-> TRUE, size |-> Size(cache, Blocks \union Addresses)]
    /\ UNCHANGED <<disk, cache, usage, reading, batch, puts, suspect>>

CollectGarbage ==
    /\ measured.done
    /\ measured' = NotMeasured
    /\ \/ /\ measured.size < PrefSize
          /\ usage' = Rotated
          /\ UNCHANGED <<cache, suspect>>
       \/ /\ measured.size >= PrefSize
          /\ \E n \in 1 .. Generations :
                /\ Enough(n) /\ \A k \in 1 .. n - 1 : ~Enough(k)
                /\ cache' = Collected(n)
                /\ usage' = Shifted(n)
                /\ suspect' = {i \in suspect : Collected(n)[i] # NoValue \/ Readers(i) \union Writers(i) # {}}
    /\ UNCHANGED <<disk, reading, batch, puts>>

\* A node that has run for a while, after a collection that left nothing in the
\* caches.
Init ==
    /\ disk \in {d \in [Id -> Stored] : \A i \in Id : d[i] \in Values[i] \union {NoValue}}
    /\ cache = [i \in Id |-> NoValue]
    /\ usage = [g \in 1 .. Generations |-> {}]
    /\ reading = [t \in Thread |-> Idle]
    /\ batch = [t \in Thread |-> NoBatch]
    /\ measured = NotMeasured
    /\ puts = 0
    /\ suspect = {}

Next ==
    \/ \E t \in Thread :
          \/ \E i \in Id : Lookup(t, i)
          \/ ReadDatabase(t) \/ Fill(t) \/ NoteUsed(t)
          \/ \E f \in Puttable : Put(t, f)
          \/ WriteBatch(t) \/ Panic(t)
    \/ CacheSize
    \/ CollectGarbage

Spec == Init /\ [][Next]_vars

-----------------------------------------------------------------------------
(* Properties.                                                             *)

TypeOK ==
    /\ disk \in [Id -> Stored]
    /\ cache \in [Id -> Stored]
    /\ usage \in [1 .. Generations -> SUBSET Id]
    /\ reading \in [Thread -> Readings]
    /\ batch \in [Thread -> UNION {[ids -> Stored] : ids \in SUBSET Id}]
    /\ measured \in {NotMeasured} \union [done : {TRUE}, size : Nat]
    /\ puts \in Nat
    /\ suspect \subseteq Id

\* A read finds a block or a number that was stored before it began, whatever
\* is put, collected and filled while it runs: the chain unwraps such reads.
StoredIsFound ==
    \A t \in Thread :
        reading[t].phase = "done" /\ reading[t].wasStored /\ reading[t].id \notin Addresses =>
            reading[t].value # NoValue

\* The caches hold what was put in the database, or what is read back of it, under
\* an id that no handler has in its batch, unless the last put of the id crossed another handler's, or a read that
\* fills the cache, or was followed by such a read before it was stored, or by
\* the handler's panic.  Even then they agree from the id's next put that nothing
\* crosses, or its next collection, on.
CachesAgree ==
    \A i \in Id :
        Writers(i) = {} /\ i \notin suspect =>
            cache[i] \in {NoValue, disk[i], ReadBack(disk[i])}

\* An id is in one generation at most, and a number or an address is in one as
\* long as it is cached, but for a reader that is about to note it: what is not
\* used any more will be collected.
CollectedOnce ==
    /\ \A i \in Id : \A g, k \in 1 .. Generations : i \in usage[g] \intersect usage[k] => g = k
    /\ \A i \in Numbers \union Addresses :
          cache[i] # NoValue =>
              \/ \E g \in 1 .. Generations : i \in usage[g]
              \/ \E t \in Thread : reading[t].phase = "done" /\ reading[t].id = i

=============================================================================
