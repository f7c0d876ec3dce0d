-------------------------- MODULE ReadCache_proofs --------------------------
(***************************************************************************)
(* Proofs about the read caches: what the runs check of them with two      *)
(* threads holds for any threads, ids, values and sizes.                   *)
(***************************************************************************)
EXTENDS ReadCache, TLAPS, FiniteSetTheorems

\* Over has the ids of both its arguments, and the first one's values where it
\* has one.
LEMMA OverType ==
    ASSUME NEW S, NEW f, NEW g, DOMAIN f \subseteq Id,
           \A i \in DOMAIN f : f[i] \in S, \A i \in DOMAIN g : g[i] \in S
    PROVE  /\ DOMAIN Over(f, g) = DOMAIN f \union DOMAIN g
           /\ \A i \in DOMAIN f \union DOMAIN g : Over(f, g)[i] \in S
           /\ \A i \in DOMAIN f : Over(f, g)[i] = f[i]
           /\ \A i \in DOMAIN g \ DOMAIN f : Over(f, g)[i] = g[i]
  BY DEF Over

\* What a handler puts has ids and values, and no deletion but of addresses.
LEMMA PuttableType ==
    ASSUME CacheAssumption, NEW f \in Puttable
    PROVE  /\ DOMAIN f \in SUBSET Id /\ DOMAIN f # {}
           /\ f = [i \in DOMAIN f |-> f[i]]
           /\ \A i \in DOMAIN f : f[i] \in Stored
           /\ \A i \in DOMAIN f \ Addresses : f[i] # NoValue
<1>1. PICK ids \in (SUBSET Id) \ {{}} : f \in [ids -> Stored]
  BY DEF Puttable
<1>2. DOMAIN f = ids
  BY <1>1
<1>3. \A i \in DOMAIN f : f[i] \in Values[i] \/ (i \in Addresses /\ f[i] = NoValue)
  BY DEF Puttable
<1> QED
  BY <1>1, <1>2, <1>3 DEF CacheAssumption, Id

\* What is read back is a value exactly when something is stored.
LEMMA ReadBackType ==
    ASSUME CacheAssumption, NEW v \in Stored
    PROVE  ReadBack(v) \in Stored /\ (ReadBack(v) = NoValue <=> v = NoValue)
  BY DEF ReadBack, Stored, Encodable, CacheAssumption

\* The size of a cache is a number, as there are finitely many ids.
LEMMA SizeType ==
    ASSUME CacheAssumption, NEW held, NEW ids \in SUBSET Id
    PROVE  Size(held, ids) \in Nat
<1> DEFINE full == {i \in ids : held[i] # NoValue}
<1>1. IsFiniteSet(full)
  BY FS_Subset DEF CacheAssumption
<1>2. Cardinality(full) \in Nat
  BY <1>1, FS_CardinalityType
<1> QED
  BY <1>2 DEF Size, CacheAssumption

Batches == UNION {[ids -> Stored] : ids \in SUBSET Id}

\* A batch is a function of some ids to what may be stored.
LEMMA BatchType ==
    ASSUME NEW f
    PROVE  f \in Batches <=> /\ DOMAIN f \in SUBSET Id
                             /\ f = [i \in DOMAIN f |-> f[i]]
                             /\ \A i \in DOMAIN f : f[i] \in Stored
  BY DEF Batches

Gens == [1 .. Generations -> SUBSET Id]

\* note_used leaves as many generations as there were.
LEMMA NotedType ==
    ASSUME CacheAssumption, NEW gens \in Gens, NEW used \in SUBSET Id
    PROVE  Noted(gens, used) \in Gens
  BY DEF Noted, Gens, CacheAssumption

-----------------------------------------------------------------------------
(* Types.                                                                  *)

\* A thread that writes nothing has the empty batch.
LEMMA NoBatchType == NoBatch \in Batches /\ DOMAIN NoBatch = {}
<1>1. DOMAIN NoBatch = {}
  BY DEF NoBatch
<1>2. NoBatch = [i \in DOMAIN NoBatch |-> NoBatch[i]]
  BY DEF NoBatch
<1> QED
  BY <1>1, <1>2, BatchType

\* Every step keeps the types.
LEMMA TypeStep ==
    ASSUME CacheAssumption, TypeOK, [Next]_vars
    PROVE  TypeOK'
<1> USE DEF TypeOK, CacheAssumption
<1>a. 1 \in 1 .. Generations /\ Generations \in 1 .. Generations
  OBVIOUS
<1>1. ASSUME NEW t \in Thread, NEW i \in Id, Lookup(t, i)
      PROVE  TypeOK'
  <2>1. reading' \in [Thread -> Readings]
    BY <1>1 DEF Lookup, Readings
  <2>2. suspect' \in SUBSET Id
    BY <1>1 DEF Lookup
  <2> QED
    BY <1>1, <2>1, <2>2 DEF Lookup
<1>2. ASSUME NEW t \in Thread, ReadDatabase(t)
      PROVE  TypeOK'
  <2>1. reading[t] \in [phase : {"missed", "read", "done"}, id : Id, value : Stored, wasStored : BOOLEAN]
    BY <1>2 DEF ReadDatabase, Readings, Idle, Dead
  <2>2. reading' \in [Thread -> Readings]
    BY <1>2, <2>1, ReadBackType DEF ReadDatabase, Readings
  <2> QED
    BY <1>2, <2>2 DEF ReadDatabase
<1>3. ASSUME NEW t \in Thread, Fill(t)
      PROVE  TypeOK'
  <2>1. reading[t] \in [phase : {"missed", "read", "done"}, id : Id, value : Stored, wasStored : BOOLEAN]
    BY <1>3 DEF Fill, Readings, Idle, Dead
  <2>2. reading' \in [Thread -> Readings]
    BY <1>3, <2>1 DEF Fill, Readings
  <2>3. cache' \in [Id -> Stored]
    BY <1>3, <2>1 DEF Fill
  <2> QED
    BY <1>3, <2>2, <2>3 DEF Fill
<1>4. ASSUME NEW t \in Thread, NoteUsed(t)
      PROVE  TypeOK'
  <2>1. reading[t] \in [phase : {"missed", "read", "done"}, id : Id, value : Stored, wasStored : BOOLEAN]
    BY <1>4 DEF NoteUsed, Readings, Idle, Dead
  <2>2. reading' \in [Thread -> Readings]
    BY <1>4 DEF NoteUsed, Readings
  <2>3. usage' \in Gens
    BY <1>4, <2>1, NotedType DEF NoteUsed, Gens
  <2> QED
    BY <1>4, <2>2, <2>3 DEF NoteUsed, Gens
<1>5. ASSUME NEW t \in Thread, NEW f \in Puttable, Put(t, f)
      PROVE  TypeOK'
  <2>1. /\ DOMAIN f \in SUBSET Id
        /\ \A i \in DOMAIN f : f[i] \in Stored
    BY PuttableType
  <2>2. Over(f, batch[t]) \in Batches
    <3>1. /\ DOMAIN batch[t] \in SUBSET Id
          /\ \A i \in DOMAIN batch[t] : batch[t][i] \in Stored
      BY BatchType DEF Batches
    <3> QED
      BY <2>1, <3>1, BatchType, SMTT(20) DEF Over
  <2>3. batch' \in [Thread -> Batches]
    BY <1>5, <2>2 DEF Put, Batches
  <2>4. cache' \in [Id -> Stored]
    BY <1>5, <2>1 DEF Put, Cached, Over
  <2>5. usage' \in Gens
    BY <1>5, <2>1, NotedType DEF Put, Gens
  <2>6. suspect' \in SUBSET Id /\ puts' \in Nat
    BY <1>5, <2>1 DEF Put
  <2> QED
    BY <1>5, <2>3, <2>4, <2>5, <2>6 DEF Put, Gens, Batches
<1>6. ASSUME NEW t \in Thread, WriteBatch(t)
      PROVE  TypeOK'
  <2>1. /\ DOMAIN batch[t] \in SUBSET Id
        /\ \A i \in DOMAIN batch[t] : batch[t][i] \in Stored
    BY BatchType DEF Batches
  <2>2. disk' \in [Id -> Stored]
    BY <1>6, <2>1 DEF WriteBatch, Over
  <2>3. batch' \in [Thread -> Batches]
    BY <1>6, NoBatchType DEF WriteBatch, Batches
  <2> QED
    BY <1>6, <2>2, <2>3 DEF WriteBatch, Batches
<1>7. ASSUME NEW t \in Thread, Panic(t)
      PROVE  TypeOK'
  <2>1. DOMAIN batch[t] \in SUBSET Id
    BY BatchType DEF Batches
  <2>2. batch' \in [Thread -> Batches]
    BY <1>7, NoBatchType DEF Panic, Batches
  <2>3. reading' \in [Thread -> Readings]
    BY <1>7 DEF Panic, Readings
  <2> QED
    BY <1>7, <2>1, <2>2, <2>3 DEF Panic, Batches
<1>8. ASSUME CacheSize
      PROVE  TypeOK'
  <2>1. Size(cache, Blocks \union Addresses) \in Nat
    BY SizeType DEF Id
  <2> QED
    BY <1>8, <2>1 DEF CacheSize
<1>9. ASSUME CollectGarbage
      PROVE  TypeOK'
  <2>1. CASE measured.size < PrefSize
    <3>1. Rotated \in Gens
      BY <1>a DEF Rotated, Gens
    <3>2. measured.size \in Nat
      <4>1. measured.done
        BY <1>9 DEF CollectGarbage
      <4>2. measured # NotMeasured
        BY <4>1 DEF NotMeasured
      <4>3. measured \in [done : {TRUE}, size : Nat]
        BY <4>2
      <4> QED
        BY <4>3
    <3>3. ~(measured.size >= PrefSize)
      BY <2>1, <3>2
    <3>4. usage' = Rotated /\ UNCHANGED <<cache, suspect>>
      BY <1>9, <3>3 DEF CollectGarbage
    <3> QED
      BY <1>9, <3>1, <3>4 DEF CollectGarbage, Gens
  <2>2. CASE \E n \in 1 .. Generations :
                /\ cache' = Collected(n) /\ usage' = Shifted(n)
                /\ suspect' = {i \in suspect : Collected(n)[i] # NoValue \/ Readers(i) \union Writers(i) # {}}
    <3>1. PICK n \in 1 .. Generations :
                /\ cache' = Collected(n) /\ usage' = Shifted(n)
                /\ suspect' = {i \in suspect : Collected(n)[i] # NoValue \/ Readers(i) \union Writers(i) # {}}
      BY <2>2
    <3>2. NoValue \in Stored
      BY DEF Stored
    <3>3. cache' \in [Id -> Stored]
      BY <3>1, <3>2 DEF Collected
    <3>4. usage' \in Gens
      BY <3>1 DEF Shifted, Gens
    <3> QED
      BY <1>9, <3>1, <3>3, <3>4 DEF CollectGarbage, Gens
  <2> QED
    BY <1>9, <2>1, <2>2 DEF CollectGarbage
<1>10. CASE UNCHANGED vars
  BY <1>10 DEF vars
<1> QED
  BY <1>1, <1>2, <1>3, <1>4, <1>5, <1>6, <1>7, <1>8, <1>9, <1>10 DEF Next

-----------------------------------------------------------------------------
(* Reads that find what is stored.                                         *)

\* Nothing but an address is ever deleted, and what a read has found of an id
\* that was stored when it began is a value.
Found ==
    /\ \A t \in Thread : \A i \in DOMAIN batch[t] \ Addresses : batch[t][i] # NoValue
    /\ \A t \in Thread :
          /\ reading[t].phase = "read" => reading[t].value # NoValue
          /\ reading[t] \notin {Idle, Dead} /\ reading[t].wasStored /\ reading[t].id \notin Addresses =>
                /\ disk[reading[t].id] # NoValue
                /\ reading[t].phase = "done" => reading[t].value # NoValue

\* Every step of every thread and of the collector keeps Found.
LEMMA FoundStep ==
    ASSUME CacheAssumption, TypeOK, Found, [Next]_vars
    PROVE  Found'
<1> DEFINE B == \A t \in Thread : \A i \in DOMAIN batch[t] \ Addresses : batch[t][i] # NoValue
           R(u) == /\ reading[u].phase = "read" => reading[u].value # NoValue
                   /\ reading[u] \notin {Idle, Dead} /\ reading[u].wasStored /\ reading[u].id \notin Addresses =>
                         /\ disk[reading[u].id] # NoValue
                         /\ reading[u].phase = "done" => reading[u].value # NoValue
<1>a. SUFFICES B' /\ \A u \in Thread : R(u)'
  BY DEF Found
<1>b. B /\ \A u \in Thread : R(u)
  BY DEF Found
<1>c. \A t \in Thread : reading[t].phase \in {"missed", "read", "done"} =>
         /\ reading[t] \in [phase : {"missed", "read", "done"}, id : Id, value : Stored, wasStored : BOOLEAN]
         /\ reading[t] \notin {Idle, Dead}
  BY DEF TypeOK, Readings, Idle, Dead
<1>1. ASSUME NEW t \in Thread, NEW i \in Id, Lookup(t, i)
      PROVE  B' /\ \A u \in Thread : R(u)'
  <2>1. B'
    BY <1>1, <1>b DEF Lookup
  <2>2. R(t)'
    BY <1>1 DEF Lookup, TypeOK
  <2>3. \A u \in Thread \ {t} : R(u)'
    BY <1>1, <1>b DEF Lookup, TypeOK
  <2> QED
    BY <2>1, <2>2, <2>3
<1>2. ASSUME NEW t \in Thread, ReadDatabase(t)
      PROVE  B' /\ \A u \in Thread : R(u)'
  <2>1. B'
    BY <1>2, <1>b DEF ReadDatabase
  <2>2. R(t)'
    <3>1. /\ reading'[t].phase = IF ReadBack(disk[reading[t].id]) = NoValue
                                 THEN "done" ELSE "read"
          /\ reading'[t].value = ReadBack(disk[reading[t].id])
          /\ reading'[t].id = reading[t].id
          /\ reading'[t].wasStored = reading[t].wasStored
      BY <1>2, <1>c DEF ReadDatabase, TypeOK
    <3> QED
      BY <3>1, <1>2, <1>b, <1>c, ReadBackType DEF ReadDatabase, TypeOK
  <2>3. \A u \in Thread \ {t} : R(u)'
    BY <1>2, <1>b DEF ReadDatabase, TypeOK
  <2> QED
    BY <2>1, <2>2, <2>3
<1>3. ASSUME NEW t \in Thread, Fill(t)
      PROVE  B' /\ \A u \in Thread : R(u)'
  <2>1. B'
    BY <1>3, <1>b DEF Fill
  <2>2. R(t)'
    <3>1. /\ reading'[t].phase = "done"
          /\ reading'[t].value = reading[t].value
          /\ reading'[t].id = reading[t].id
          /\ reading'[t].wasStored = reading[t].wasStored
      BY <1>3, <1>c DEF Fill, TypeOK
    <3> QED
      BY <3>1, <1>3, <1>b, <1>c DEF Fill
  <2>3. \A u \in Thread \ {t} : R(u)'
    BY <1>3, <1>b DEF Fill, TypeOK
  <2> QED
    BY <2>1, <2>2, <2>3
<1>4. ASSUME NEW t \in Thread, NoteUsed(t)
      PROVE  B' /\ \A u \in Thread : R(u)'
  <2>1. B'
    BY <1>4, <1>b DEF NoteUsed
  <2>2. R(t)'
    BY <1>4 DEF NoteUsed, TypeOK, Idle
  <2>3. \A u \in Thread \ {t} : R(u)'
    BY <1>4, <1>b DEF NoteUsed, TypeOK
  <2> QED
    BY <2>1, <2>2, <2>3
<1>5. ASSUME NEW t \in Thread, NEW f \in Puttable, Put(t, f)
      PROVE  B' /\ \A u \in Thread : R(u)'
  <2>1. \A i \in DOMAIN f \ Addresses : f[i] # NoValue
    BY PuttableType
  <2>2. batch' = [batch EXCEPT ![t] = Over(f, batch[t])]
    BY <1>5 DEF Put
  <2>3. \A i \in DOMAIN Over(f, batch[t]) \ Addresses : Over(f, batch[t])[i] # NoValue
    BY <2>1, <1>b DEF Over
  <2>4. B'
    BY <2>2, <2>3, <1>b DEF TypeOK
  <2>5. \A u \in Thread : R(u)'
    BY <1>5, <1>b DEF Put
  <2> QED
    BY <2>4, <2>5
<1>6. ASSUME NEW t \in Thread, WriteBatch(t)
      PROVE  B' /\ \A u \in Thread : R(u)'
  <2>1. B'
    BY <1>6, <1>b, NoBatchType DEF WriteBatch, TypeOK
  <2>2. \A i \in Id \ Addresses : disk[i] # NoValue => disk'[i] # NoValue
    BY <1>6, <1>b DEF WriteBatch, Over, TypeOK
  <2>3. ASSUME NEW u \in Thread
        PROVE  R(u)'
    <3>1. reading[u] \notin {Idle, Dead} => reading[u].id \in Id
      BY DEF TypeOK, Readings
    <3> QED
      BY <1>6, <1>b, <2>2, <3>1 DEF WriteBatch
  <2> QED
    BY <2>1, <2>3
<1>7. ASSUME NEW t \in Thread, Panic(t)
      PROVE  B' /\ \A u \in Thread : R(u)'
  <2>1. B'
    BY <1>7, <1>b, NoBatchType DEF Panic, TypeOK
  <2>2. R(t)'
    BY <1>7 DEF Panic, TypeOK, Dead
  <2>3. \A u \in Thread \ {t} : R(u)'
    BY <1>7, <1>b DEF Panic, TypeOK
  <2> QED
    BY <2>1, <2>2, <2>3
<1>8. ASSUME CacheSize
      PROVE  B' /\ \A u \in Thread : R(u)'
  BY <1>8, <1>b DEF CacheSize
<1>9. ASSUME CollectGarbage
      PROVE  B' /\ \A u \in Thread : R(u)'
  BY <1>9, <1>b DEF CollectGarbage
<1>10. ASSUME UNCHANGED vars
       PROVE  B' /\ \A u \in Thread : R(u)'
  BY <1>10, <1>b DEF vars
<1> QED
  BY <1>1, <1>2, <1>3, <1>4, <1>5, <1>6, <1>7, <1>8, <1>9, <1>10 DEF Next

-----------------------------------------------------------------------------
(* Caches that agree with the database.                                    *)

\* An id that is not suspect is in one batch at most.  While it is in one, nobody
\* reads it from the database, and the cache holds what the batch does; while it
\* is in none, the cache and the readers hold what the database does, or what is read back.
Agrees(i) ==
    /\ \A t, u \in Writers(i) : t = u
    /\ \A t \in Writers(i) : Readers(i) = {} /\ cache[i] \in {NoValue, batch[t][i]}
    /\ Writers(i) = {} =>
          /\ cache[i] \in {NoValue, disk[i], ReadBack(disk[i])}
          /\ \A t \in Readers(i) :
                reading[t].phase = "read" => reading[t].value = ReadBack(disk[i])

Agreement == \A i \in Id \ suspect : Agrees(i)

\* Every step keeps caches, batches, readers and database in agreement for each
\* id that is not suspect after it.
LEMMA AgreementStep ==
    ASSUME CacheAssumption, TypeOK, Agreement, [Next]_vars
    PROVE  Agreement'
<1> SUFFICES ASSUME NEW i \in Id, i \notin suspect'
             PROVE  Agrees(i)'
  BY DEF Agreement, Id
<1>a. i \notin suspect => Agrees(i)
  BY DEF Agreement
<1>b. \A t \in Thread : reading[t].phase \in {"missed", "read", "done"} =>
         /\ reading[t] \in [phase : {"missed", "read", "done"}, id : Id, value : Stored, wasStored : BOOLEAN]
         /\ reading[t] \notin {Idle, Dead}
  BY DEF TypeOK, Readings, Idle, Dead
<1>1. ASSUME NEW t \in Thread, NEW j \in Id, Lookup(t, j)
      PROVE  Agrees(i)'
  <2>1. i \notin suspect /\ Writers(i)' = Writers(i)
    BY <1>1 DEF Lookup, Writers
  <2>2. CASE i = j /\ cache[j] = NoValue
    <3>1. Writers(i) = {}
      BY <1>1, <2>2 DEF Lookup
    <3>2. reading'[t].phase = "missed"
      BY <1>1, <2>2 DEF Lookup, TypeOK
    <3>3. \A u \in Thread \ {t} : reading'[u] = reading[u]
      BY <1>1 DEF Lookup, TypeOK
    <3> QED
      BY <1>1, <1>a, <2>1, <3>1, <3>2, <3>3 DEF Lookup, Agrees, Readers, Writers
  <2>3. CASE ~(i = j /\ cache[j] = NoValue)
    <3>1. t \notin Readers(i)'
      <4>1. reading'[t].id = j /\ reading'[t].phase = IF cache[j] = NoValue THEN "missed" ELSE "done"
        BY <1>1 DEF Lookup, TypeOK
      <4> QED
        BY <4>1, <2>3 DEF Readers
    <3>2. \A u \in Thread \ {t} : reading'[u] = reading[u]
      BY <1>1 DEF Lookup, TypeOK
    <3>3. t \notin Readers(i)
      BY <1>1 DEF Lookup, Readers, Idle
    <3>4. Readers(i)' = Readers(i)
      BY <3>1, <3>2, <3>3 DEF Readers
    <3>5. \A u \in Readers(i) : reading'[u] = reading[u]
      BY <3>2, <3>3 DEF Readers
    <3> QED
      BY <1>1, <1>a, <2>1, <3>4, <3>5 DEF Lookup, Agrees
  <2> QED
    BY <2>2, <2>3
<1>2. ASSUME NEW t \in Thread, ReadDatabase(t)
      PROVE  Agrees(i)'
  <2>1. /\ reading'[t].value = ReadBack(disk[reading[t].id])
        /\ reading'[t].id = reading[t].id
        /\ reading[t].phase = "missed"
    BY <1>2, <1>b DEF ReadDatabase, TypeOK
  <2>2. \A u \in Thread \ {t} : reading'[u] = reading[u]
    BY <1>2 DEF ReadDatabase, TypeOK
  <2>3. Writers(i)' = Writers(i) /\ i \notin suspect
    BY <1>2 DEF ReadDatabase, Writers
  <2>4. Readers(i)' \subseteq Readers(i)
    BY <2>1, <2>2 DEF Readers
  <2>5. \A u \in Readers(i)' : reading'[u].phase = "read" =>
           reading'[u].value = ReadBack(disk[i]) \/ reading'[u] = reading[u]
    BY <2>1, <2>2 DEF Readers
  <2> QED
    BY <1>2, <1>a, <2>3, <2>4, <2>5 DEF ReadDatabase, Agrees
<1>3. ASSUME NEW t \in Thread, Fill(t)
      PROVE  Agrees(i)'
  <2>1. /\ reading'[t].phase = "done" /\ reading[t].phase = "read"
        /\ reading[t].id \in Id
    BY <1>3, <1>b DEF Fill, TypeOK
  <2>2. \A u \in Thread \ {t} : reading'[u] = reading[u]
    BY <1>3 DEF Fill, TypeOK
  <2>3. Writers(i)' = Writers(i) /\ i \notin suspect
    BY <1>3 DEF Fill, Writers
  <2>4. Readers(i)' \subseteq Readers(i) /\ \A u \in Readers(i)' : reading'[u] = reading[u]
    BY <2>1, <2>2 DEF Readers
  <2>5. CASE reading[t].id = i
    <3>1. t \in Readers(i)
      BY <2>1, <2>5 DEF Readers
    <3>2. Writers(i) = {} /\ reading[t].value = ReadBack(disk[i])
      BY <3>1, <2>1, <2>3, <1>a DEF Agrees
    <3>3. cache'[i] = ReadBack(disk[i])
      BY <1>3, <2>5, <3>2 DEF Fill, TypeOK
    <3> QED
      BY <1>3, <1>a, <2>3, <2>4, <3>2, <3>3 DEF Fill, Agrees
  <2>6. CASE reading[t].id # i
    <3>1. cache'[i] = cache[i]
      BY <1>3, <2>6 DEF Fill, TypeOK
    <3> QED
      BY <1>3, <1>a, <2>3, <2>4, <3>1 DEF Fill, Agrees
  <2> QED
    BY <2>5, <2>6
<1>4. ASSUME NEW t \in Thread, NoteUsed(t)
      PROVE  Agrees(i)'
  <2>1. \A u \in Thread \ {t} : reading'[u] = reading[u]
    BY <1>4 DEF NoteUsed, TypeOK
  <2>2. reading'[t] = Idle /\ reading[t].phase = "done"
    BY <1>4 DEF NoteUsed, TypeOK
  <2>3. Readers(i)' = Readers(i) /\ \A u \in Readers(i) : reading'[u] = reading[u]
    BY <2>1, <2>2 DEF Readers, Idle
  <2>4. Writers(i)' = Writers(i) /\ i \notin suspect
    BY <1>4 DEF NoteUsed, Writers
  <2> QED
    BY <1>4, <1>a, <2>3, <2>4 DEF NoteUsed, Agrees
<1>5. ASSUME NEW t \in Thread, NEW f \in Puttable, Put(t, f)
      PROVE  Agrees(i)'
  <2>1. Readers(i)' = Readers(i)
    BY <1>5 DEF Put, Readers
  <2>2. batch'[t] = Over(f, batch[t]) /\ \A u \in Thread \ {t} : batch'[u] = batch[u]
    BY <1>5 DEF Put, TypeOK
  <2>3. cache' = Over(f, cache)
    BY <1>5 DEF Put, Cached
  <2>4. DOMAIN cache = Id
    BY DEF TypeOK
  <2>5. CASE i \in DOMAIN f
    <3>1. Readers(i) = {} /\ Writers(i) \ {t} = {}
      BY <1>5, <2>5 DEF Put
    <3>2. Writers(i)' = {t}
      BY <2>2, <2>5, <3>1 DEF Writers, Over
    <3>3. batch'[t][i] = f[i] /\ cache'[i] = f[i]
      BY <2>2, <2>3, <2>5 DEF Over
    <3> QED
      BY <2>1, <3>1, <3>2, <3>3 DEF Agrees
  <2>6. CASE i \notin DOMAIN f
    <3>1. i \notin suspect
      BY <1>5, <2>6 DEF Put
    <3>2. Writers(i)' = Writers(i)
      BY <2>2, <2>6 DEF Writers, Over
    <3>3. cache'[i] = cache[i]
      BY <2>3, <2>4, <2>6 DEF Over
    <3>4. \A u \in Writers(i) : batch'[u][i] = batch[u][i]
      BY <2>2, <2>6 DEF Writers, Over
    <3> QED
      BY <1>5, <1>a, <2>1, <3>1, <3>2, <3>3, <3>4 DEF Put, Agrees
  <2> QED
    BY <2>5, <2>6
<1>6. ASSUME NEW t \in Thread, WriteBatch(t)
      PROVE  Agrees(i)'
  <2>1. Readers(i)' = Readers(i) /\ i \notin suspect /\ disk' = Over(batch[t], disk)
    BY <1>6 DEF WriteBatch, Readers
  <2>2. batch'[t] = NoBatch /\ \A u \in Thread \ {t} : batch'[u] = batch[u]
    BY <1>6 DEF WriteBatch, TypeOK
  <2>3. DOMAIN disk = Id
    BY DEF TypeOK
  <2>4. CASE t \in Writers(i)
    <3>1. Writers(i)' = {}
      BY <1>a, <2>1, <2>2, <2>4, NoBatchType DEF Agrees, Writers
    <3>2. disk'[i] = batch[t][i]
      BY <2>1, <2>4 DEF Writers, Over
    <3>3. Readers(i) = {} /\ cache[i] \in {NoValue, batch[t][i]}
      BY <1>a, <2>1, <2>4 DEF Agrees
    <3> QED
      BY <1>6, <2>1, <3>1, <3>2, <3>3 DEF WriteBatch, Agrees
  <2>5. CASE t \notin Writers(i)
    <3>1. Writers(i)' = Writers(i)
      BY <2>2, <2>5, NoBatchType DEF Writers
    <3>2. disk'[i] = disk[i]
      BY <2>1, <2>3, <2>5 DEF Writers, Over
    <3>3. \A u \in Writers(i) : batch'[u] = batch[u]
      BY <2>2, <2>5 DEF Writers
    <3> QED
      BY <1>6, <1>a, <2>1, <3>1, <3>2, <3>3 DEF WriteBatch, Agrees
  <2> QED
    BY <2>4, <2>5
<1>7. ASSUME NEW t \in Thread, Panic(t)
      PROVE  Agrees(i)'
  <2>1. i \notin suspect /\ t \notin Writers(i)
    BY <1>7 DEF Panic, Writers
  <2>2. batch'[t] = NoBatch /\ \A u \in Thread \ {t} : batch'[u] = batch[u]
    BY <1>7 DEF Panic, TypeOK
  <2>3. Writers(i)' = Writers(i) /\ \A u \in Writers(i) : batch'[u] = batch[u]
    BY <2>1, <2>2, NoBatchType DEF Writers
  <2>4. /\ reading[t] = Idle /\ reading'[t] = Dead
        /\ \A u \in Thread \ {t} : reading'[u] = reading[u]
    BY <1>7 DEF Panic, TypeOK
  <2>5. Readers(i)' = Readers(i) /\ \A u \in Readers(i) : reading'[u] = reading[u]
    BY <2>4 DEF Readers, Idle, Dead
  <2> QED
    BY <1>7, <1>a, <2>1, <2>3, <2>5 DEF Panic, Agrees
<1>8. ASSUME CacheSize
      PROVE  Agrees(i)'
  BY <1>8, <1>a DEF CacheSize, Agrees, Readers, Writers
<1>9. ASSUME CollectGarbage
      PROVE  Agrees(i)'
  <2>1. Readers(i)' = Readers(i) /\ Writers(i)' = Writers(i)
    BY <1>9 DEF CollectGarbage, Readers, Writers
  <2>2. CASE i \notin suspect
    <3>1. cache'[i] = cache[i] \/ cache'[i] = NoValue
      BY <1>9 DEF CollectGarbage, Collected
    <3> QED
      BY <1>9, <1>a, <2>1, <2>2, <3>1 DEF CollectGarbage, Agrees
  <2>3. CASE i \in suspect
    <3>1. cache'[i] = NoValue /\ Readers(i) \union Writers(i) = {}
      BY <1>9, <2>3 DEF CollectGarbage
    <3> QED
      BY <2>1, <3>1 DEF Agrees
  <2> QED
    BY <2>2, <2>3
<1>10. ASSUME UNCHANGED vars
       PROVE  Agrees(i)'
  BY <1>10, <1>a DEF vars, Agrees, Readers, Writers
<1> QED
  BY <1>1, <1>2, <1>3, <1>4, <1>5, <1>6, <1>7, <1>8, <1>9, <1>10 DEF Next

-----------------------------------------------------------------------------
(* Generations.                                                            *)

InOneAtMost(gens) ==
    \A i \in Id : \A g, k \in 1 .. Generations : i \in gens[g] \intersect gens[k] => g = k

Tracked(i) ==
    cache[i] # NoValue =>
        \/ \E g \in 1 .. Generations : i \in usage[g]
        \/ \E t \in Thread : reading[t].phase = "done" /\ reading[t].id = i

\* CollectedOnce in two parts: one generation at most, and every cached number
\* or address tracked.
LEMMA CollectedOnceParts ==
    CollectedOnce <=> InOneAtMost(usage) /\ \A i \in Numbers \union Addresses : Tracked(i)
  BY DEF CollectedOnce, InOneAtMost, Tracked

\* note_used leaves an id in one generation and every other id where it was.
LEMMA NotedOnce ==
    ASSUME CacheAssumption, NEW gens \in Gens, NEW used \in SUBSET Id, InOneAtMost(gens)
    PROVE  /\ InOneAtMost(Noted(gens, used))
           /\ \A i \in used : i \in Noted(gens, used)[1]
           /\ \A i \in Id : (\E g \in 1 .. Generations : i \in gens[g])
                 => \E g \in 1 .. Generations : i \in Noted(gens, used)[g]
<1> DEFINE new == Noted(gens, used)
<1>a. DOMAIN gens = 1 .. Generations /\ 1 \in 1 .. Generations
  BY DEF Gens, CacheAssumption
<1>1. new[1] = gens[1] \union used
  BY <1>a DEF Noted
<1>2. \A g \in 2 .. Generations :
         new[g] = {i \in gens[g] : i \in used => \E k \in 1 .. g - 1 : i \in gens[k]}
  BY <1>a DEF Noted
<1>3. \A i \in Id : \A g \in 2 .. Generations : i \in new[g] <=> i \in gens[g] /\ i \notin used
  <2> TAKE i \in Id
  <2> TAKE g \in 2 .. Generations
  <2>1. i \in gens[g] => \A k \in 1 .. g - 1 : i \notin gens[k]
    BY DEF InOneAtMost, CacheAssumption
  <2> QED
    BY <1>2, <2>1
<1>4. InOneAtMost(new)
  <2> SUFFICES ASSUME NEW i \in Id, NEW g \in 1 .. Generations, NEW k \in 1 .. Generations,
                      i \in new[g], i \in new[k]
               PROVE  g = k
    BY DEF InOneAtMost
  <2>1. CASE g = 1 /\ k = 1
    BY <2>1
  <2>2. CASE g \in 2 .. Generations /\ k \in 2 .. Generations
    BY <2>2, <1>3 DEF InOneAtMost
  <2>3. CASE g = 1 /\ k \in 2 .. Generations
    BY <2>3, <1>1, <1>3, <1>a DEF InOneAtMost
  <2>4. CASE k = 1 /\ g \in 2 .. Generations
    BY <2>4, <1>1, <1>3, <1>a DEF InOneAtMost
  <2> QED
    BY <2>1, <2>2, <2>3, <2>4 DEF CacheAssumption
<1>5. ASSUME NEW i \in Id, NEW g \in 1 .. Generations, i \in gens[g]
      PROVE  \E k \in 1 .. Generations : i \in new[k]
  <2>1. CASE g = 1 \/ i \in used
    BY <2>1, <1>1, <1>5, <1>a
  <2>2. CASE g \in 2 .. Generations /\ i \notin used
    BY <2>2, <1>3, <1>5
  <2> QED
    BY <2>1, <2>2 DEF CacheAssumption
<1> QED
  BY <1>1, <1>4, <1>5

\* Every step keeps each id in one generation at most, and what is cached in
\* one.
LEMMA CollectedOnceStep ==
    ASSUME CacheAssumption, TypeOK, CollectedOnce, [Next]_vars
    PROVE  CollectedOnce'
<1> DEFINE Noting == Numbers \union Addresses
<1>a. InOneAtMost(usage) /\ \A i \in Noting : Tracked(i)
  BY CollectedOnceParts
<1>b. SUFFICES InOneAtMost(usage') /\ \A i \in Noting : Tracked(i)'
  BY DEF CollectedOnce, InOneAtMost, Tracked
<1>c. usage \in Gens /\ Noting \subseteq Id
  BY DEF TypeOK, Gens, Id
<1>d. \A t \in Thread : reading[t].phase \in {"missed", "read", "done"} =>
         /\ reading[t] \in [phase : {"missed", "read", "done"}, id : Id, value : Stored, wasStored : BOOLEAN]
         /\ reading[t] \notin {Idle, Dead}
  BY DEF TypeOK, Readings, Idle, Dead
<1>1. ASSUME NEW t \in Thread, NEW i \in Id, Lookup(t, i)
      PROVE  InOneAtMost(usage') /\ \A j \in Noting : Tracked(j)'
  <2>1. \A u \in Thread : reading[u].phase = "done" => reading'[u] = reading[u]
    BY <1>1 DEF Lookup, Idle, TypeOK
  <2> QED
    BY <1>1, <1>a, <2>1 DEF Lookup, Tracked
<1>2. ASSUME NEW t \in Thread, ReadDatabase(t)
      PROVE  InOneAtMost(usage') /\ \A j \in Noting : Tracked(j)'
  <2>1. \A u \in Thread : reading[u].phase = "done" => reading'[u] = reading[u]
    BY <1>2 DEF ReadDatabase, TypeOK
  <2>2. UNCHANGED <<cache, usage>>
    BY <1>2 DEF ReadDatabase
  <2>3. \A j \in Noting : Tracked(j)'
    BY <1>a, <2>1, <2>2 DEF Tracked
  <2> QED
    BY <1>a, <2>2, <2>3
<1>3. ASSUME NEW t \in Thread, Fill(t)
      PROVE  InOneAtMost(usage') /\ \A j \in Noting : Tracked(j)'
  <2>1. \A u \in Thread : reading[u].phase = "done" => reading'[u] = reading[u]
    BY <1>3 DEF Fill, TypeOK
  <2>2. reading'[t].phase = "done" /\ reading'[t].id = reading[t].id
    BY <1>3, <1>d DEF Fill, TypeOK
  <2>3. \A j \in Id : j # reading[t].id => cache'[j] = cache[j]
    BY <1>3 DEF Fill, TypeOK
  <2> QED
    BY <1>3, <1>a, <1>c, <2>1, <2>2, <2>3 DEF Fill, Tracked
<1>4. ASSUME NEW t \in Thread, NoteUsed(t)
      PROVE  InOneAtMost(usage') /\ \A j \in Noting : Tracked(j)'
  <2>1. reading[t].id \in Id /\ usage' = Noted(usage, {reading[t].id})
    BY <1>4, <1>d DEF NoteUsed
  <2>2. /\ InOneAtMost(usage')
        /\ reading[t].id \in usage'[1]
        /\ \A i \in Id : (\E g \in 1 .. Generations : i \in usage[g])
              => \E g \in 1 .. Generations : i \in usage'[g]
    BY <2>1, <1>a, <1>c, NotedOnce
  <2>3. \A u \in Thread \ {t} : reading'[u] = reading[u]
    BY <1>4 DEF NoteUsed, TypeOK
  <2>4. 1 \in 1 .. Generations
    BY DEF CacheAssumption
  <2>5. cache' = cache
    BY <1>4 DEF NoteUsed
  <2>6. ASSUME NEW j \in Noting
        PROVE  Tracked(j)'
    <3>1. j \in Id /\ Tracked(j)
      BY <1>a, <1>c
    <3>2. CASE \E g \in 1 .. Generations : j \in usage[g]
      BY <2>2, <3>1, <3>2 DEF Tracked
    <3>3. CASE j = reading[t].id
      BY <2>2, <2>4, <3>3 DEF Tracked
    <3>4. CASE \E u \in Thread \ {t} : reading[u].phase = "done" /\ reading[u].id = j
      BY <2>3, <3>4 DEF Tracked
    <3> QED
      BY <2>5, <3>1, <3>2, <3>3, <3>4 DEF Tracked
  <2> QED
    BY <2>2, <2>6
<1>5. ASSUME NEW t \in Thread, NEW f \in Puttable, Put(t, f)
      PROVE  InOneAtMost(usage') /\ \A j \in Noting : Tracked(j)'
  <2> DEFINE used == {i \in DOMAIN f \ Blocks : f[i] # NoValue}
  <2>1. used \in SUBSET Id /\ usage' = Noted(usage, used)
    BY <1>5, PuttableType DEF Put
  <2>2. /\ InOneAtMost(usage')
        /\ \A i \in used : i \in usage'[1]
        /\ \A i \in Id : (\E g \in 1 .. Generations : i \in usage[g])
              => \E g \in 1 .. Generations : i \in usage'[g]
    BY <2>1, <1>a, <1>c, NotedOnce
  <2>3. \A j \in Id : cache'[j] = IF j \in DOMAIN f THEN f[j] ELSE cache[j]
    BY <1>5, PuttableType DEF Put, Cached, Over, TypeOK
  <2>4. 1 \in 1 .. Generations
    BY DEF CacheAssumption
  <2>5. ASSUME NEW j \in Noting
        PROVE  Tracked(j)'
    <3>1. j \in Id /\ j \notin Blocks
      BY DEF CacheAssumption, Id
    <3>2. CASE j \in DOMAIN f
      BY <2>2, <2>3, <2>4, <3>1, <3>2 DEF Tracked
    <3>3. CASE j \notin DOMAIN f
      BY <1>5, <1>a, <2>2, <2>3, <3>1, <3>3 DEF Put, Tracked
    <3> QED
      BY <3>2, <3>3
  <2> QED
    BY <2>2, <2>5
<1>6. ASSUME NEW t \in Thread, WriteBatch(t)
      PROVE  InOneAtMost(usage') /\ \A j \in Noting : Tracked(j)'
  BY <1>6, <1>a DEF WriteBatch, Tracked
<1>7. ASSUME NEW t \in Thread, Panic(t)
      PROVE  InOneAtMost(usage') /\ \A j \in Noting : Tracked(j)'
  <2>1. \A u \in Thread : reading[u].phase = "done" => reading'[u] = reading[u]
    BY <1>7 DEF Panic, Idle, TypeOK
  <2> QED
    BY <1>7, <1>a, <2>1 DEF Panic, Tracked
<1>8. ASSUME CacheSize
      PROVE  InOneAtMost(usage') /\ \A j \in Noting : Tracked(j)'
  BY <1>8, <1>a DEF CacheSize, Tracked
<1>9. ASSUME CollectGarbage
      PROVE  InOneAtMost(usage') /\ \A j \in Noting : Tracked(j)'
  <2>1. CASE usage' = Rotated /\ UNCHANGED <<cache, reading>>
    <3>1. CASE usage' = usage
      BY <2>1, <3>1, <1>a DEF Tracked
    <3>2. CASE usage' = [g \in 1 .. Generations |-> IF g = 1 THEN usage[Generations] ELSE usage[g - 1]]
      <4>1. InOneAtMost(usage')
        BY <3>2, <1>a DEF InOneAtMost, CacheAssumption
      <4>2. ASSUME NEW i, NEW g \in 1 .. Generations, i \in usage[g]
            PROVE  \E k \in 1 .. Generations : i \in usage'[k]
        <5>1. CASE g = Generations
          <6>1. usage'[1] = usage[Generations] /\ 1 \in 1 .. Generations
            BY <3>2 DEF CacheAssumption
          <6> QED
            BY <5>1, <6>1, <4>2
        <5>2. CASE g # Generations
          <6>1. usage'[g + 1] = usage[g] /\ g + 1 \in 1 .. Generations
            BY <3>2, <5>2 DEF CacheAssumption
          <6> QED
            BY <6>1, <4>2
        <5> QED
          BY <5>1, <5>2
      <4> QED
        BY <2>1, <4>1, <4>2, <1>a DEF Tracked
    <3> QED
      BY <2>1, <3>1, <3>2 DEF Rotated
  <2>2. ASSUME NEW n \in 1 .. Generations, cache' = Collected(n), usage' = Shifted(n), UNCHANGED reading
        PROVE  InOneAtMost(usage') /\ \A j \in Noting : Tracked(j)'
    <3>1. InOneAtMost(usage')
      <4> SUFFICES ASSUME NEW i \in Id, NEW g \in 1 .. Generations, NEW k \in 1 .. Generations,
                          i \in usage'[g], i \in usage'[k]
                   PROVE  g = k
        BY DEF InOneAtMost
      <4>1. g > n /\ k > n /\ i \in usage[g - n] /\ i \in usage[k - n]
        BY <2>2 DEF Shifted, CacheAssumption
      <4>2. g - n \in 1 .. Generations /\ k - n \in 1 .. Generations
        BY <4>1 DEF CacheAssumption
      <4>3. g - n = k - n
        BY <4>1, <4>2, <1>a DEF InOneAtMost
      <4> QED
        BY <4>3
    <3>2. ASSUME NEW j \in Noting, cache'[j] # NoValue
          PROVE  Tracked(j)'
      <4>1. /\ cache'[j] = cache[j]
            /\ \A g \in Generations - n + 1 .. Generations : j \notin usage[g]
        BY <2>2, <3>2, <1>c DEF Collected
      <4>2. ASSUME NEW g \in 1 .. Generations, j \in usage[g]
            PROVE  g + n \in 1 .. Generations /\ j \in usage'[g + n]
        <5>1. g <= Generations - n
          BY <4>1, <4>2 DEF CacheAssumption
        <5>2. g + n \in 1 .. Generations /\ ~(g + n <= n) /\ (g + n) - n = g
          BY <5>1 DEF CacheAssumption
        <5> QED
          BY <2>2, <4>2, <5>2 DEF Shifted
      <4>3. Tracked(j)
        BY <1>a
      <4> QED
        BY <2>2, <4>1, <4>2, <4>3 DEF Tracked
    <3>3. \A j \in Noting : Tracked(j)'
      BY <3>2 DEF Tracked
    <3> QED
      BY <3>1, <3>3
  <2> QED
    BY <1>9, <2>1, <2>2 DEF CollectGarbage
<1>10. ASSUME UNCHANGED vars
       PROVE  InOneAtMost(usage') /\ \A j \in Noting : Tracked(j)'
  BY <1>10, <1>a DEF vars, Tracked
<1> QED
  BY <1>1, <1>2, <1>3, <1>4, <1>5, <1>6, <1>7, <1>8, <1>9, <1>10 DEF Next

-----------------------------------------------------------------------------
(* Theorems of the specification.                                          *)

IInv == TypeOK /\ Found /\ Agreement /\ CollectedOnce

\* The invariant holds of empty caches, whatever is in the database.
LEMMA InitHolds ==
    ASSUME CacheAssumption, Init
    PROVE  IInv
<1> USE DEF Init, CacheAssumption
<1>1. TypeOK
  <2>1. batch \in [Thread -> Batches]
    BY NoBatchType
  <2>2. cache \in [Id -> Stored]
    BY DEF Stored
  <2>3. usage \in [1 .. Generations -> SUBSET Id]
    OBVIOUS
  <2>4. reading \in [Thread -> Readings]
    BY DEF Readings
  <2> QED
    BY <2>1, <2>2, <2>3, <2>4 DEF TypeOK, Batches
<1>2. Found
  BY NoBatchType DEF Found, Idle
<1>3. Agreement
  <2>1. \A i \in Id : Writers(i) = {} /\ Readers(i) = {}
    BY NoBatchType DEF Writers, Readers, Idle
  <2> QED
    BY <2>1 DEF Agreement, Agrees
<1>4. CollectedOnce
  BY DEF CollectedOnce, Id
<1> QED
  BY <1>1, <1>2, <1>3, <1>4 DEF IInv

\* The inductive invariant holds of every run, for every set of threads, ids and
\* values, every size and number of generations, with handlers that panic.
THEOREM Invariance == Spec => []IInv
<1>1. Init => IInv
  BY InitHolds, CacheAssumption
<1>2. IInv /\ [Next]_vars => IInv'
  BY TypeStep, FoundStep, AgreementStep, CollectedOnceStep, CacheAssumption DEF IInv
<1> QED
  BY <1>1, <1>2, PTL DEF Spec

\* The variables keep their types.
THEOREM TypeCorrect == Spec => []TypeOK
  BY Invariance, PTL DEF IInv

\* read_with_cache finds a block or a number that was stored when it began.
THEOREM ReadsFindStored == Spec => []StoredIsFound
<1>1. IInv => StoredIsFound
  <2> SUFFICES ASSUME IInv, NEW t \in Thread, reading[t].phase = "done",
                      reading[t].wasStored, reading[t].id \notin Addresses
               PROVE  reading[t].value # NoValue
    BY DEF StoredIsFound
  <2>1. reading[t] \notin {Idle, Dead}
    BY DEF Idle, Dead
  <2> QED
    BY <2>1 DEF IInv, Found
<1> QED
  BY <1>1, Invariance, PTL

\* The caches hold what the database holds of every id that no batch holds, but
\* for those an operation crossed.
THEOREM CachesStayInAgreement == Spec => []CachesAgree
<1>1. IInv => CachesAgree
  BY DEF IInv, Agreement, Agrees, CachesAgree
<1> QED
  BY <1>1, Invariance, PTL

\* Whatever is noted, rotated and collected, an id is in one generation at most,
\* and no cached number or address escapes them.
THEOREM EachCollectedOnce == Spec => []CollectedOnce
  BY Invariance, PTL DEF IInv

=============================================================================
