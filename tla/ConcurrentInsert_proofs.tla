------------------------ MODULE ConcurrentInsert_proofs ------------------------
(***************************************************************************)
(* What holds of interleaved inserts for every tree of blocks, any number  *)
(* of threads and every length of the queue.  The invariant says what each *)
(* thread, by its place, has still to write: memory holds the disk and     *)
(* what is in the threads' batches.                                        *)
(***************************************************************************)
EXTENDS ConcurrentInsert, BlockTreeFacts

-----------------------------------------------------------------------------
(* The inductive invariant.                                                *)

Inside(t) == at[t] # "idle"

HasPutHeader(t) == at[t] \notin {"idle", "header"}
HasPutBody(t) == at[t] \notin {"idle", "header", "body"}

\* The batch of t holds index entries, and memory has them.
HasNumbered(t) == at[t] \in {"shift", "queue", "status"} \/ (at[t] = "write" /\ adopts[t])

Heights(blocks) == {Height(blocks[i]) : i \in DOMAIN blocks}

\* The heights of an index without holes, from genesis on.
Whole(ks) == 0 \in ks /\ ks \subseteq Nat /\ \A k \in ks : 0 .. k \subseteq ks

\* The walk of t: block by block down the path of its block, not to genesis.
WalkOK(t) ==
    /\ block[t] # Genesis
    /\ Len(walked[t]) < Height(block[t])
    /\ \A i \in 1 .. Len(walked[t]) : walked[t][i] = Anc(block[t], Height(block[t]) - i)

Frames ==
    /\ up => queue # << >>
    /\ ~up => overlap # "raced" /\ \A t \in Thread : ~Inside(t)
    /\ \A t \in Thread : Inside(t) => WalkOK(t)
    /\ \A t \in Thread :
          /\ at[t] \in {"header", "body", "height"} => ~adopts[t]
          /\ at[t] \in {"walk", "number", "shift", "queue", "status"} => adopts[t]

\* Memory is the disk and the batches.
Headers ==
    \A b \in Block : b \in headers <=>
        b \in onDisk \/ \E t \in Thread : HasPutHeader(t) /\ b = block[t]
Bodies ==
    \A b \in Block : b \in bodies <=>
        b \in onDisk \/ \E t \in Thread : HasPutBody(t) /\ b = block[t]
Index ==
    \A k \in Nat : k \in DOMAIN number <=>
        \/ k \in DOMAIN diskNumber
        \/ \E t \in Thread : HasNumbered(t) /\ k \in Heights(Adopted(t))

\* Headers have their parents, and what is read has its height in the index.
InSight ==
    /\ Genesis \in headers /\ tip \in headers
    /\ \A b \in headers : b # Genesis => Parent(b) \in headers
    /\ \A t \in Thread : Inside(t) => Parent(block[t]) \in headers
    /\ Whole(DOMAIN number)
    /\ Height(tip) \in DOMAIN number
    /\ \A i \in DOMAIN queue : Height(queue[i]) \in DOMAIN number
    /\ \A t \in Thread : at[t] = "number" => Height(Cursor(t)) \in DOMAIN number

Memory == up /\ overlap # "lost" => Headers /\ Bodies /\ Index /\ InSight

\* The disk, as long as threads have taken turns.
Alone ==
    overlap = "none" =>
        /\ \A t, u \in Thread : Inside(t) /\ Inside(u) => t = u
        /\ Genesis \in onDisk
        /\ \A b \in onDisk : b # Genesis => Parent(b) \in onDisk
        /\ Whole(DOMAIN diskNumber)
        /\ up => /\ \A t \in Thread : Inside(t) =>
                       /\ block[t] \notin onDisk
                       /\ adopts[t] => Height(block[t]) \in {Height(diskTip), Height(diskTip) + 1}
                 /\ (\A t \in Thread : at[t] = "write" => ~adopts[t]) => tip = diskTip
                 /\ \A t \in Thread : at[t] = "write" /\ adopts[t] => tip = block[t]

Durable == diskTip \in onDisk /\ (overlap # "lost" => Height(diskTip) \in DOMAIN diskNumber)

IInv == TypeOK /\ Frames /\ Memory /\ Alone /\ Durable

-----------------------------------------------------------------------------
(* Walks and indices.                                                      *)

\* The walk of a thread is above its cursor, on the path of its block.
LEMMA WalkFacts ==
    ASSUME TypeOK, NEW t \in Thread, WalkOK(t)
    PROVE  /\ Height(block[t]) \in Nat \ {0} /\ Len(walked[t]) \in Nat
           /\ Cursor(t) = Anc(block[t], Height(block[t]) - 1 - Len(walked[t]))
           /\ Cursor(t) \in Block
           /\ Height(Cursor(t)) = Height(block[t]) - 1 - Len(walked[t])
           /\ Adopted(t) \in Seq(Block)
           /\ Heights(Adopted(t)) = Height(Cursor(t)) + 1 .. Height(block[t])
<1> DEFINE b == block[t]
           w == walked[t]
           n == Len(w)
           h == Height(b)
<1>1. b \in Block /\ b # Genesis /\ w \in Seq(Block)
  BY DEF TypeOK, WalkOK
<1>2. n \in Nat /\ DOMAIN w = 1 .. n /\ h \in Nat \ {0}
  BY <1>1, LenProperties, PathFacts
<1>3. n < h /\ \A i \in 1 .. n : w[i] = Anc(b, h - i)
  BY DEF WalkOK
<1>4. \A i \in 0 .. h : Anc(b, i) \in Block /\ Height(Anc(b, i)) = i
  BY <1>1, AncestorFacts
<1>5. \A i \in 1 .. n : w[i] \in Block /\ Height(w[i]) = h - i
  <2> SUFFICES ASSUME NEW i \in 1 .. n PROVE w[i] \in Block /\ Height(w[i]) = h - i
    OBVIOUS
  <2>1. h - i \in 0 .. h
    BY <1>2, <1>3
  <2> QED BY <1>3, <1>4, <2>1
<1>6. h - 1 - n \in 0 .. h
  BY <1>2, <1>3
<1>7. Cursor(t) = Anc(b, h - 1 - n)
  <2>1. CASE w = << >>
    <3>1. n = 0
      BY <2>1, EmptySeq
    <3> QED BY <1>2, <2>1, <3>1 DEF Cursor, Parent
  <2>2. CASE w # << >>
    <3>1. n \in 1 .. n
      BY <1>1, <1>2, <2>2, EmptySeq
    <3>2. w[n] = Anc(b, h - n) /\ Height(w[n]) = h - n
      BY <1>3, <1>5, <3>1
    <3>3. h - n \in 0 .. h /\ h - n - 1 \in 0 .. h - n
      BY <1>2, <1>3
    <3>4. Anc(Anc(b, h - n), h - n - 1) = Anc(b, h - n - 1)
      BY <1>1, <3>3, AncestorFacts
    <3>5. h - n - 1 = h - 1 - n
      BY <1>2
    <3> QED BY <2>2, <3>2, <3>4, <3>5 DEF Cursor, Parent
  <2> QED BY <2>1, <2>2
<1>8. Cursor(t) \in Block /\ Height(Cursor(t)) = h - 1 - n
  BY <1>4, <1>6, <1>7
<1>9. /\ Adopted(t) \in Seq(Block) /\ Len(Adopted(t)) = n + 1
      /\ \A i \in 1 .. n : Adopted(t)[i] = w[i]
      /\ Adopted(t)[n + 1] = b
  BY <1>1, <1>2, AppendProperties DEF Adopted
<1>10. DOMAIN Adopted(t) = 1 .. n + 1
  BY <1>9, LenProperties
<1>11. \A i \in 1 .. n + 1 : Height(Adopted(t)[i]) = IF i = n + 1 THEN h ELSE h - i
  BY <1>2, <1>5, <1>9
<1>12. Heights(Adopted(t)) = h - n .. h
  <2>1. ASSUME NEW k \in h - n .. h PROVE \E i \in 1 .. n + 1 : Height(Adopted(t)[i]) = k
    <3>1. CASE k = h
      BY <1>2, <1>11, <3>1
    <3>2. CASE k # h
      <4>1. h - k \in 1 .. n /\ h - (h - k) = k
        BY <1>2, <3>2
      <4> QED BY <1>2, <1>11, <4>1
    <3> QED BY <3>1, <3>2
  <2>2. ASSUME NEW i \in 1 .. n + 1 PROVE Height(Adopted(t)[i]) \in h - n .. h
    BY <1>2, <1>11
  <2> QED BY <1>10, <2>1, <2>2 DEF Heights
<1> QED BY <1>1, <1>2, <1>7, <1>8, <1>9, <1>12

IndexOK(index) ==
    \A k \in DOMAIN index : k \in Nat /\ index[k] \in Block /\ Height(index[k]) = k

\* Writing blocks to an index adds their heights, and each is at its own.
LEMMA WrittenFacts ==
    ASSUME NEW index, IndexOK(index), NEW blocks \in Seq(Block)
    PROVE  /\ IndexOK(Written(index, blocks))
           /\ DOMAIN Written(index, blocks) = DOMAIN index \union Heights(blocks)
<1> DEFINE place(k) == CHOOSE i \in DOMAIN blocks : Height(blocks[i]) = k
<1>1. \A i \in DOMAIN blocks : blocks[i] \in Block /\ Height(blocks[i]) \in Nat
  <2> SUFFICES ASSUME NEW i \in DOMAIN blocks PROVE blocks[i] \in Block
    BY PathFacts
  <2> QED BY LenProperties, ElementOfSeq
<1>2. ASSUME NEW k \in Heights(blocks)
      PROVE  k \in Nat /\ blocks[place(k)] \in Block /\ Height(blocks[place(k)]) = k
  BY <1>1 DEF Heights
<1>3. Written(index, blocks) = [k \in DOMAIN index \union Heights(blocks) |->
         IF k \in Heights(blocks) THEN blocks[place(k)] ELSE index[k]]
  BY DEF Written, Heights
<1> HIDE DEF place
<1> QED BY <1>2, <1>3 DEF IndexOK

\* An index without holes stays so when what follows one of its heights is added.
LEMMA WholeExtends ==
    ASSUME NEW ks, Whole(ks), NEW j \in ks, NEW h \in Nat
    PROVE  Whole(ks \union (j + 1 .. h))
<1>1. j \in Nat /\ ks \subseteq Nat
  BY DEF Whole
<1>2. ASSUME NEW k \in ks \union (j + 1 .. h), NEW i \in 0 .. k
      PROVE  i \in ks \union (j + 1 .. h)
  <2>1. CASE k \in ks
    BY <2>1 DEF Whole
  <2>2. CASE k \in j + 1 .. h /\ i <= j
    <3>1. i \in 0 .. j
      BY <1>1, <2>2
    <3> QED BY <3>1 DEF Whole
  <2>3. CASE k \in j + 1 .. h /\ i > j
    BY <1>1, <2>3
  <2> QED BY <1>1, <2>1, <2>2, <2>3
<1>3. \A k \in ks \union (j + 1 .. h) : 0 .. k \subseteq ks \union (j + 1 .. h)
  BY <1>2
<1> QED BY <1>1, <1>3 DEF Whole

\* Where a walk ends, the index has an entry.
LEMMA WalkEnds ==
    ASSUME TypeOK, InSight, queue # << >>, NEW c \in Block, OnBestChain(c) \/ Height(c) = 0
    PROVE  Height(c) \in DOMAIN number
<1>1. Height(c) \in Nat /\ 0 \in DOMAIN number
  BY PathFacts DEF InSight, Whole
<1>2. CASE OnBestChain(c) /\ Cached(queue, Height(c))
  <2>1. queue \in Seq(Block)
    BY DEF TypeOK
  <2>2. Len(queue) \in Nat \ {0} /\ DOMAIN queue = 1 .. Len(queue)
    BY <2>1, EmptySeq, LenProperties
  <2>3. BestHeight(queue) \in Nat
    BY <2>1, <2>2, ElementOfSeq, PathFacts DEF BestHeight
  <2>4. Len(queue) - (BestHeight(queue) - Height(c)) \in 1 .. Len(queue)
    BY <1>1, <1>2, <2>2, <2>3 DEF Cached
  <2>5. c = queue[Len(queue) - (BestHeight(queue) - Height(c))]
    BY <1>2 DEF OnBestChain, BlockInfo
  <2> QED BY <2>2, <2>4, <2>5 DEF InSight
<1>3. CASE OnBestChain(c) /\ ~Cached(queue, Height(c))
  BY <1>3 DEF OnBestChain
<1> QED BY <1>1, <1>2, <1>3

\* A set closed under parents holds paths.
LEMMA ParentsMakePaths ==
    ASSUME NEW S \in SUBSET Block, \A b \in S : b # Genesis => Parent(b) \in S
    PROVE  \A b \in S : Path(b) \subseteq S
<1> SUFFICES ASSUME NEW b \in S, NEW k \in 0 .. Height(b), Anc(b, k) \notin S PROVE FALSE
  BY DEF Path
<1>1. Height(b) \in Nat /\ Anc(b, Height(b)) = b
  BY PathFacts
<1> DEFINE Out == {j \in 0 .. Height(b) : Anc(b, j) \notin S}
<1>2. Out \in SUBSET (0 .. Height(b)) /\ Out # {}
  OBVIOUS
<1>3. Max(Out) \in Out /\ \A y \in Out : Max(Out) >= y
  BY <1>1, <1>2, MaxOfNaturals
<1> DEFINE m == Max(Out)
<1> HIDE DEF m, Out
<1>4. m \in 0 .. Height(b) /\ Anc(b, m) \notin S /\ m # Height(b)
  BY <1>1, <1>3 DEF m, Out
<1>5. m + 1 \in 0 .. Height(b) /\ m + 1 \notin Out
  BY <1>1, <1>3, <1>4 DEF m, Out
<1>6. Anc(b, m + 1) \in S
  BY <1>5 DEF Out
<1>7. Height(Anc(b, m + 1)) = m + 1 /\ Anc(Anc(b, m + 1), m) = Anc(b, m)
  BY <1>4, <1>5, AncestorFacts
<1>8. Anc(b, m + 1) # Genesis
  BY <1>4, <1>7, PathFacts
<1>9. Parent(Anc(b, m + 1)) = Anc(b, m)
  BY <1>4, <1>7 DEF Parent
<1> QED BY <1>4, <1>6, <1>8, <1>9

-----------------------------------------------------------------------------
(* The steps of a thread that is inside.                                   *)

\* A thread that goes on keeps its block; when it does not walk, its walk too.
LEMMA Moving ==
    ASSUME TypeOK, NEW t \in Thread, at[t] # "idle", NEW p \in Place \ {"idle"}, Goto(t, p),
           UNCHANGED <<block, walked>>
    PROVE  /\ at' \in [Thread -> Place] /\ at'[t] = p
           /\ \A u \in Thread \ {t} : at'[u] = at[u]
           /\ \A u \in Thread : /\ Inside(u)' <=> Inside(u)
                                /\ WalkOK(u)' <=> WalkOK(u)
                                /\ Adopted(u)' = Adopted(u)
                                /\ Cursor(u)' = Cursor(u)
<1>1. at' \in [Thread -> Place] /\ at'[t] = p /\ \A u \in Thread \ {t} : at'[u] = at[u]
  BY DEF TypeOK, Goto
<1>2. \A u \in Thread : Inside(u)' <=> Inside(u)
  BY <1>1 DEF Inside
<1> QED BY <1>1, <1>2 DEF WalkOK, Adopted, Cursor

\* The header: its parent is in sight.
LEMMA PutHeaderSafe == ASSUME IInv, NEW t \in Thread, PutHeader(t) PROVE IInv'
<1>1. /\ TypeOK /\ Frames /\ Memory /\ Alone /\ Durable
      /\ at[t] = "header" /\ Inside(t) /\ block[t] \in Block /\ Goto(t, "body")
      /\ headers' = headers \union {block[t]}
      /\ UNCHANGED <<bodies, number, queue, tip, disk, up, overlap, frames>>
  BY DEF IInv, PutHeader, Inside, TypeOK, At
<1>2. /\ at' \in [Thread -> Place] /\ at'[t] = "body"
      /\ \A u \in Thread \ {t} : at'[u] = at[u]
      /\ \A u \in Thread : /\ Inside(u)' <=> Inside(u)
                           /\ WalkOK(u)' <=> WalkOK(u)
                           /\ Adopted(u)' = Adopted(u)
                           /\ Cursor(u)' = Cursor(u)
  BY <1>1, Moving DEF Place, frames, Inside
<1>3. TypeOK'
  BY <1>1, <1>2 DEF TypeOK, disk, frames
<1>4. Frames'
  BY <1>1, <1>2 DEF Frames, disk, frames
<1>5. ASSUME up, overlap # "lost" PROVE Headers' /\ Bodies' /\ Index' /\ InSight'
  <2>1. Headers /\ Bodies /\ Index /\ InSight
    BY <1>1, <1>5 DEF Memory
  <2>2. Headers'
    BY <1>1, <1>2, <2>1 DEF Headers, HasPutHeader, disk, frames
  <2>3. Bodies'
    BY <1>1, <1>2, <2>1 DEF Bodies, HasPutBody, disk, frames
  <2>4. \A u \in Thread : HasNumbered(u)' <=> HasNumbered(u)
    BY <1>1, <1>2 DEF HasNumbered, frames
  <2>5. Index'
    BY <1>1, <1>2, <2>1, <2>4 DEF Index, disk
  <2>6. InSight'
    BY <1>1, <1>2, <2>1 DEF InSight, frames
  <2> QED BY <2>2, <2>3, <2>5, <2>6
<1>6. Alone'
  BY <1>1, <1>2 DEF Alone, disk, frames
<1>7. Memory' /\ Durable'
  BY <1>1, <1>5 DEF Memory, Durable, disk
<1> QED BY <1>3, <1>4, <1>6, <1>7 DEF IInv

\* The body.
LEMMA PutBodySafe == ASSUME IInv, NEW t \in Thread, PutBody(t) PROVE IInv'
<1>1. /\ TypeOK /\ Frames /\ Memory /\ Alone /\ Durable
      /\ at[t] = "body" /\ Inside(t) /\ block[t] \in Block /\ Goto(t, "height")
      /\ bodies' = bodies \union {block[t]}
      /\ UNCHANGED <<headers, number, queue, tip, disk, up, overlap, frames>>
  BY DEF IInv, PutBody, Inside, TypeOK, At
<1>2. /\ at' \in [Thread -> Place] /\ at'[t] = "height"
      /\ \A u \in Thread \ {t} : at'[u] = at[u]
      /\ \A u \in Thread : /\ Inside(u)' <=> Inside(u)
                           /\ WalkOK(u)' <=> WalkOK(u)
                           /\ Adopted(u)' = Adopted(u)
                           /\ Cursor(u)' = Cursor(u)
  BY <1>1, Moving DEF Place, frames, Inside
<1>3. TypeOK'
  BY <1>1, <1>2 DEF TypeOK, disk, frames
<1>4. Frames'
  BY <1>1, <1>2 DEF Frames, disk, frames
<1>5. ASSUME up, overlap # "lost" PROVE Headers' /\ Bodies' /\ Index' /\ InSight'
  <2>1. Headers /\ Bodies /\ Index /\ InSight
    BY <1>1, <1>5 DEF Memory
  <2>2. Headers'
    BY <1>1, <1>2, <2>1 DEF Headers, HasPutHeader, disk, frames
  <2>3. Bodies'
    BY <1>1, <1>2, <2>1 DEF Bodies, HasPutBody, disk, frames
  <2>4. \A u \in Thread : HasNumbered(u)' <=> HasNumbered(u)
    BY <1>1, <1>2 DEF HasNumbered, frames
  <2>5. Index'
    BY <1>1, <1>2, <2>1, <2>4 DEF Index, disk
  <2>6. InSight'
    BY <1>1, <1>2, <2>1 DEF InSight, frames
  <2> QED BY <2>2, <2>3, <2>5, <2>6
<1>6. Alone'
  BY <1>1, <1>2 DEF Alone, disk, frames
<1>7. Memory' /\ Durable'
  BY <1>1, <1>5 DEF Memory, Durable, disk
<1> QED BY <1>3, <1>4, <1>6, <1>7 DEF IInv

\* The height: a thread alone reads the tip that is on disk.
LEMMA ReadHeightSafe == ASSUME IInv, NEW t \in Thread, ReadHeight(t) PROVE IInv'
<1> DEFINE yes == Height(block[t]) \in {Height(tip), Height(tip) + 1}
<1>1. /\ TypeOK /\ Frames /\ Memory /\ Alone /\ Durable
      /\ at[t] = "height" /\ up /\ Inside(t) /\ Goto(t, IF yes THEN "walk" ELSE "write")
      /\ adopts' = [adopts EXCEPT ![t] = yes]
      /\ UNCHANGED <<memory, disk, up, overlap, block, walked, shifts>>
  BY DEF IInv, ReadHeight, Inside, At
<1> HIDE DEF yes
<1>2. /\ at' \in [Thread -> Place] /\ at'[t] = IF yes THEN "walk" ELSE "write"
      /\ \A u \in Thread \ {t} : at'[u] = at[u]
      /\ \A u \in Thread : /\ Inside(u)' <=> Inside(u)
                           /\ WalkOK(u)' <=> WalkOK(u)
                           /\ Adopted(u)' = Adopted(u)
                           /\ Cursor(u)' = Cursor(u)
  BY <1>1, Moving DEF Place, Inside
<1>3. /\ adopts' \in [Thread -> BOOLEAN] /\ adopts'[t] = yes
      /\ \A u \in Thread \ {t} : adopts'[u] = adopts[u]
  BY <1>1 DEF TypeOK, yes
<1>4. TypeOK'
  BY <1>1, <1>2, <1>3 DEF TypeOK, disk, memory
<1>5. Frames'
  BY <1>1, <1>2, <1>3 DEF Frames, disk, memory
<1>6. ASSUME overlap # "lost" PROVE Headers' /\ Bodies' /\ Index' /\ InSight'
  <2>1. Headers /\ Bodies /\ Index /\ InSight
    BY <1>1, <1>6 DEF Memory
  <2>2. Headers'
    BY <1>1, <1>2, <2>1 DEF Headers, HasPutHeader, disk, memory
  <2>3. Bodies'
    BY <1>1, <1>2, <2>1 DEF Bodies, HasPutBody, disk, memory
  <2>4. \A u \in Thread : HasNumbered(u)' <=> HasNumbered(u)
    BY <1>1, <1>2, <1>3 DEF HasNumbered
  <2>5. Index'
    BY <1>1, <1>2, <2>1, <2>4 DEF Index, disk, memory
  <2>6. InSight'
    BY <1>1, <1>2, <2>1 DEF InSight, memory
  <2> QED BY <2>2, <2>3, <2>5, <2>6
<1>7. Alone'
  <2> SUFFICES ASSUME overlap = "none" PROVE Alone'
    BY <1>1 DEF Alone
  <2>1. tip = diskTip
    <3>1. \A u \in Thread : at[u] # "write"
      BY <1>1 DEF Alone, Inside
    <3> QED BY <1>1, <3>1 DEF Alone
  <2>2. yes => Height(block[t]) \in {Height(diskTip), Height(diskTip) + 1}
    BY <2>1 DEF yes
  <2>3. \A u, v \in Thread : Inside(u)' /\ Inside(v)' => u = v
    BY <1>1, <1>2 DEF Alone
  <2>4. ASSUME NEW u \in Thread, Inside(u)'
        PROVE  /\ block'[u] \notin onDisk'
               /\ adopts'[u] => Height(block'[u]) \in {Height(diskTip'), Height(diskTip') + 1}
    <3>1. u = t
      BY <1>1, <1>2, <2>4 DEF Alone
    <3> QED BY <1>1, <1>3, <2>2, <3>1 DEF Alone, disk
  <2>5. tip' = diskTip'
    BY <1>1, <2>1 DEF disk, memory
  <2>6. \A u \in Thread : at'[u] = "write" => ~adopts'[u]
    BY <1>1, <1>2, <1>3 DEF Alone, Inside
  <2> QED BY <1>1, <2>3, <2>4, <2>5, <2>6 DEF Alone, disk
<1>8. Memory' /\ Durable'
  BY <1>1, <1>6 DEF Memory, Durable, disk
<1> QED BY <1>4, <1>5, <1>7, <1>8 DEF IInv

\* The walk: it ends at a block whose height the index has.
LEMMA WalkSafe == ASSUME IInv, NEW t \in Thread, Walk(t) PROVE IInv'
<1> DEFINE c == Cursor(t)
<1>1. /\ TypeOK /\ Frames /\ Memory /\ Alone /\ Durable
      /\ at[t] = "walk" /\ up /\ Inside(t) /\ WalkOK(t) /\ adopts[t] /\ queue # << >>
      /\ UNCHANGED <<memory, disk, up, overlap, block, adopts, shifts>>
  BY DEF IInv, Walk, Inside, At, Frames
<1>2. /\ Height(block[t]) \in Nat \ {0} /\ Len(walked[t]) \in Nat /\ c \in Block
      /\ c = Anc(block[t], Height(block[t]) - 1 - Len(walked[t]))
      /\ Height(c) = Height(block[t]) - 1 - Len(walked[t])
      /\ block[t] \in Block /\ walked[t] \in Seq(Block) /\ walked \in [Thread -> Seq(Block)]
  BY <1>1, WalkFacts DEF TypeOK
<1>3. /\ at' \in [Thread -> Place] /\ at'[t] \in {"walk", "number", "dead"}
      /\ \A u \in Thread \ {t} : at'[u] = at[u]
      /\ \A u \in Thread : Inside(u)' <=> Inside(u)
  BY <1>1 DEF Walk, Goto, TypeOK, Place, Inside
<1>4. /\ walked' \in [Thread -> Seq(Block)] /\ WalkOK(t)'
      /\ \A u \in Thread \ {t} : walked'[u] = walked[u]
      /\ at'[t] = "number" => walked' = walked /\ (OnBestChain(c) \/ Height(c) = 0)
  <2>1. CASE walked' = walked
    <3>1. WalkOK(t)'
      BY <1>1, <2>1 DEF WalkOK
    <3>2. at'[t] = "number" => OnBestChain(c) \/ Height(c) = 0
      BY <1>1 DEF Walk, Goto, TypeOK, Place
    <3> QED BY <1>2, <2>1, <3>1, <3>2
  <2>2. CASE walked' = [walked EXCEPT ![t] = Append(@, c)] /\ at' = at /\ Height(c) # 0
    <3> DEFINE w == walked[t]
    <3>1. /\ walked'[t] = Append(w, c) /\ walked'[t] \in Seq(Block)
          /\ \A u \in Thread \ {t} : walked'[u] = walked[u]
      BY <1>2, <2>2, AppendProperties
    <3>2. /\ Len(Append(w, c)) = Len(w) + 1 /\ Append(w, c)[Len(w) + 1] = c
          /\ \A i \in 1 .. Len(w) : Append(w, c)[i] = w[i]
      BY <1>2, AppendProperties
    <3>3. Len(w) + 1 < Height(block[t])
      BY <1>1, <1>2, <2>2 DEF WalkOK
    <3>4. \A i \in 1 .. Len(w) + 1 : Append(w, c)[i] = Anc(block[t], Height(block[t]) - i)
      <4>1. Height(block[t]) - 1 - Len(w) = Height(block[t]) - (Len(w) + 1)
        BY <1>2
      <4> QED BY <1>1, <1>2, <3>2, <4>1 DEF WalkOK
    <3>5. WalkOK(t)'
      BY <1>1, <3>1, <3>2, <3>3, <3>4 DEF WalkOK
    <3>6. walked' \in [Thread -> Seq(Block)]
      BY <1>2, <2>2, <3>1
    <3> QED BY <1>1, <2>2, <3>1, <3>5, <3>6
  <2> QED BY <2>1, <2>2 DEF Walk
<1>5. \A u \in Thread \ {t} : /\ WalkOK(u)' <=> WalkOK(u)
                              /\ Adopted(u)' = Adopted(u)
                              /\ Cursor(u)' = Cursor(u)
  BY <1>1, <1>4 DEF WalkOK, Adopted, Cursor
<1>6. TypeOK'
  BY <1>1, <1>3, <1>4 DEF TypeOK, disk, memory
<1>7. Frames'
  BY <1>1, <1>3, <1>4, <1>5 DEF Frames, disk, memory
<1>8. ASSUME overlap # "lost" PROVE Headers' /\ Bodies' /\ Index' /\ InSight'
  <2>1. Headers /\ Bodies /\ Index /\ InSight
    BY <1>1, <1>8 DEF Memory
  <2>2. Headers'
    BY <1>1, <1>3, <2>1 DEF Headers, HasPutHeader, disk, memory
  <2>3. Bodies'
    BY <1>1, <1>3, <2>1 DEF Bodies, HasPutBody, disk, memory
  <2>4. \A u \in Thread : HasNumbered(u)' <=> HasNumbered(u)
    BY <1>1, <1>3 DEF HasNumbered
  <2>5. ~HasNumbered(t)
    BY <1>1 DEF HasNumbered
  <2>6. Index'
    BY <1>1, <1>5, <2>1, <2>4, <2>5 DEF Index, disk, memory
  <2>7. at'[t] = "number" => Height(Cursor(t)') \in DOMAIN number
    <3>1. at'[t] = "number" => Cursor(t)' = c
      BY <1>1, <1>4 DEF Cursor
    <3> QED BY <1>1, <1>2, <1>4, <2>1, <3>1, WalkEnds
  <2>8. InSight'
    BY <1>1, <1>3, <1>5, <2>1, <2>7 DEF InSight, memory
  <2> QED BY <2>2, <2>3, <2>6, <2>8
<1>9. Alone'
  BY <1>1, <1>3 DEF Alone, disk, memory
<1>10. Memory' /\ Durable'
  BY <1>1, <1>8 DEF Memory, Durable, disk
<1> QED BY <1>6, <1>7, <1>9, <1>10 DEF IInv

\* The index: the heights of the walk follow the height of its end.
LEMMA UpdateNumberSafe == ASSUME IInv, NEW t \in Thread, UpdateNumber(t) PROVE IInv'
<1>1. /\ TypeOK /\ Frames /\ Memory /\ Alone /\ Durable
      /\ at[t] = "number" /\ up /\ Inside(t) /\ WalkOK(t) /\ Goto(t, "shift")
      /\ number' = Written(number, Adopted(t))
      /\ UNCHANGED <<headers, bodies, queue, tip, disk, up, overlap, frames>>
  BY DEF IInv, UpdateNumber, Inside, At, Frames
<1>2. /\ at' \in [Thread -> Place] /\ at'[t] = "shift"
      /\ \A u \in Thread \ {t} : at'[u] = at[u]
      /\ \A u \in Thread : /\ Inside(u)' <=> Inside(u)
                           /\ WalkOK(u)' <=> WalkOK(u)
                           /\ Adopted(u)' = Adopted(u)
                           /\ Cursor(u)' = Cursor(u)
  BY <1>1, Moving DEF Place, frames, Inside
<1>3. /\ Height(block[t]) \in Nat /\ Cursor(t) \in Block /\ Adopted(t) \in Seq(Block)
      /\ Heights(Adopted(t)) = Height(Cursor(t)) + 1 .. Height(block[t])
  BY <1>1, WalkFacts
<1>4. IndexOK(number') /\ DOMAIN number' = DOMAIN number \union Heights(Adopted(t))
  <2>1. IndexOK(number)
    BY <1>1 DEF TypeOK, IndexOK
  <2> QED BY <1>1, <1>3, <2>1, WrittenFacts
<1>5. TypeOK'
  BY <1>1, <1>2, <1>4 DEF TypeOK, IndexOK, disk, frames
<1>6. Frames'
  BY <1>1, <1>2 DEF Frames, disk, frames
<1>7. ASSUME overlap # "lost" PROVE Headers' /\ Bodies' /\ Index' /\ InSight'
  <2>1. Headers /\ Bodies /\ Index /\ InSight
    BY <1>1, <1>7 DEF Memory
  <2>2. Headers'
    BY <1>1, <1>2, <2>1 DEF Headers, HasPutHeader, disk, frames
  <2>3. Bodies'
    BY <1>1, <1>2, <2>1 DEF Bodies, HasPutBody, disk, frames
  <2>4. /\ HasNumbered(t)' /\ ~HasNumbered(t)
        /\ \A u \in Thread \ {t} : HasNumbered(u)' <=> HasNumbered(u)
    BY <1>1, <1>2 DEF HasNumbered, frames
  <2>5. Index'
    BY <1>1, <1>2, <1>4, <2>1, <2>4 DEF Index, disk
  <2>6. Whole(DOMAIN number')
    <3>1. Whole(DOMAIN number) /\ Height(Cursor(t)) \in DOMAIN number
      BY <1>1, <2>1 DEF InSight
    <3> QED BY <1>3, <1>4, <3>1, WholeExtends
  <2>7. InSight'
    BY <1>1, <1>2, <1>4, <2>1, <2>6 DEF InSight, frames
  <2> QED BY <2>2, <2>3, <2>5, <2>7
<1>8. Alone'
  BY <1>1, <1>2 DEF Alone, disk, frames
<1>9. Memory' /\ Durable'
  BY <1>1, <1>7 DEF Memory, Durable, disk
<1> QED BY <1>5, <1>6, <1>8, <1>9 DEF IInv

\* The height again, to decide whether the queue is shifted.
LEMMA ReadShiftSafe == ASSUME IInv, NEW t \in Thread, ReadShift(t) PROVE IInv'
<1>1. /\ TypeOK /\ Frames /\ Memory /\ Alone /\ Durable
      /\ at[t] = "shift" /\ up /\ Inside(t) /\ Goto(t, "queue")
      /\ shifts' = [shifts EXCEPT ![t] = Height(tip) < Height(block[t])]
      /\ UNCHANGED <<memory, disk, up, overlap, block, walked, adopts>>
  BY DEF IInv, ReadShift, Inside, At
<1>2. /\ at' \in [Thread -> Place] /\ at'[t] = "queue"
      /\ \A u \in Thread \ {t} : at'[u] = at[u]
      /\ \A u \in Thread : /\ Inside(u)' <=> Inside(u)
                           /\ WalkOK(u)' <=> WalkOK(u)
                           /\ Adopted(u)' = Adopted(u)
                           /\ Cursor(u)' = Cursor(u)
  BY <1>1, Moving DEF Place, Inside
<1>3. TypeOK'
  <2>1. shifts' \in [Thread -> BOOLEAN]
    BY <1>1 DEF TypeOK
  <2> QED BY <1>1, <1>2, <2>1 DEF TypeOK, disk, memory
<1>4. Frames'
  BY <1>1, <1>2 DEF Frames, disk, memory
<1>5. ASSUME overlap # "lost" PROVE Headers' /\ Bodies' /\ Index' /\ InSight'
  <2>1. Headers /\ Bodies /\ Index /\ InSight
    BY <1>1, <1>5 DEF Memory
  <2>2. Headers'
    BY <1>1, <1>2, <2>1 DEF Headers, HasPutHeader, disk, memory
  <2>3. Bodies'
    BY <1>1, <1>2, <2>1 DEF Bodies, HasPutBody, disk, memory
  <2>4. \A u \in Thread : HasNumbered(u)' <=> HasNumbered(u)
    BY <1>1, <1>2 DEF HasNumbered
  <2>5. Index'
    BY <1>1, <1>2, <2>1, <2>4 DEF Index, disk, memory
  <2>6. InSight'
    BY <1>1, <1>2, <2>1 DEF InSight, memory
  <2> QED BY <2>2, <2>3, <2>5, <2>6
<1>6. Alone'
  BY <1>1, <1>2 DEF Alone, disk, memory
<1>7. Memory' /\ Durable'
  BY <1>1, <1>5 DEF Memory, Durable, disk
<1> QED BY <1>3, <1>4, <1>6, <1>7 DEF IInv

\* The queue holds what it held and what was adopted.
LEMMA QueueFacts ==
    ASSUME NEW V \in SUBSET Block, NEW q \in Seq(V), q # << >>, NEW blocks \in Seq(V),
           NEW shift \in BOOLEAN
    PROVE  /\ UpdatedQueue(IF shift THEN LeftShift(q) ELSE q, blocks, Total) \in Seq(V)
           /\ UpdatedQueue(IF shift THEN LeftShift(q) ELSE q, blocks, Total) # << >>
<1>1. LeftShift(q) \in Seq(V) /\ LeftShift(q) # << >>
  <2>1. Tail(q) \in Seq(V) /\ <<Head(q)>> \in Seq(V) /\ Len(<<Head(q)>>) = 1
    BY HeadTailProperties
  <2>2. /\ Tail(q) \o <<Head(q)>> \in Seq(V)
        /\ Len(Tail(q) \o <<Head(q)>>) = Len(Tail(q)) + 1 /\ Len(Tail(q)) \in Nat
    BY <2>1, ConcatProperties, LenProperties
  <2> QED BY <2>2, EmptySeq DEF LeftShift
<1>2. Total \in Nat
  BY ConcurrentAssumption
<1> QED BY <1>1, <1>2, UpdatedQueueType

\* The queue: what enters it is in the index.
LEMMA UpdateQueueSafe == ASSUME IInv, NEW t \in Thread, UpdateQueue(t) PROVE IInv'
<1>1. /\ TypeOK /\ Frames /\ Memory /\ Alone /\ Durable
      /\ at[t] = "queue" /\ up /\ Inside(t) /\ WalkOK(t) /\ Goto(t, "status")
      /\ queue # << >> /\ queue \in Seq(Block) /\ shifts[t] \in BOOLEAN
      /\ queue' = UpdatedQueue(IF shifts[t] THEN LeftShift(queue) ELSE queue, Adopted(t), Total)
      /\ UNCHANGED <<headers, bodies, number, tip, disk, up, overlap, frames>>
  BY DEF IInv, UpdateQueue, Inside, At, Frames, TypeOK
<1>2. /\ at' \in [Thread -> Place] /\ at'[t] = "status"
      /\ \A u \in Thread \ {t} : at'[u] = at[u]
      /\ \A u \in Thread : /\ Inside(u)' <=> Inside(u)
                           /\ WalkOK(u)' <=> WalkOK(u)
                           /\ Adopted(u)' = Adopted(u)
                           /\ Cursor(u)' = Cursor(u)
  BY <1>1, Moving DEF Place, frames, Inside
<1>3. Adopted(t) \in Seq(Block)
  BY <1>1, WalkFacts
<1>4. queue' \in Seq(Block) /\ queue' # << >>
  BY <1>1, <1>3, QueueFacts
<1>5. TypeOK'
  BY <1>1, <1>2, <1>4 DEF TypeOK, disk, frames
<1>6. Frames'
  BY <1>1, <1>2, <1>4 DEF Frames, disk, frames
<1>7. ASSUME overlap # "lost" PROVE Headers' /\ Bodies' /\ Index' /\ InSight'
  <2>1. Headers /\ Bodies /\ Index /\ InSight
    BY <1>1, <1>7 DEF Memory
  <2>2. Headers'
    BY <1>1, <1>2, <2>1 DEF Headers, HasPutHeader, disk, frames
  <2>3. Bodies'
    BY <1>1, <1>2, <2>1 DEF Bodies, HasPutBody, disk, frames
  <2>4. \A u \in Thread : HasNumbered(u)' <=> HasNumbered(u)
    BY <1>1, <1>2 DEF HasNumbered, frames
  <2>5. Index'
    BY <1>1, <1>2, <2>1, <2>4 DEF Index, disk
  <2>6. \A i \in DOMAIN queue' : Height(queue'[i]) \in DOMAIN number
    <3> DEFINE V == {b \in Block : Height(b) \in DOMAIN number}
    <3>1. queue \in Seq(V)
      <4>1. \A i \in 1 .. Len(queue) : queue[i] \in V
        BY <1>1, <2>1, ElementOfSeq, LenProperties DEF InSight
      <4> QED BY <1>1, <4>1, LenProperties
    <3>2. Adopted(t) \in Seq(V)
      <4>1. HasNumbered(t)
        BY <1>1 DEF HasNumbered
      <4>2. \A i \in 1 .. Len(Adopted(t)) : Adopted(t)[i] \in Block
        BY <1>3, ElementOfSeq
      <4>3. \A i \in 1 .. Len(Adopted(t)) : Height(Adopted(t)[i]) \in Heights(Adopted(t))
        BY <1>3, LenProperties DEF Heights
      <4>4. \A i \in 1 .. Len(Adopted(t)) : Height(Adopted(t)[i]) \in Nat
        BY <4>2, PathFacts
      <4>5. \A i \in 1 .. Len(Adopted(t)) : Adopted(t)[i] \in V
        BY <2>1, <4>1, <4>2, <4>3, <4>4 DEF Index
      <4> QED BY <1>3, <4>5, LenProperties
    <3>3. queue' \in Seq(V)
      BY <1>1, <3>1, <3>2, QueueFacts
    <3> QED BY <3>3, ElementOfSeq, LenProperties
  <2>7. InSight'
    BY <1>1, <1>2, <2>1, <2>6 DEF InSight, frames
  <2> QED BY <2>2, <2>3, <2>5, <2>7
<1>8. Alone'
  BY <1>1, <1>2 DEF Alone, disk, frames
<1>9. Memory' /\ Durable'
  BY <1>1, <1>7 DEF Memory, Durable, disk
<1> QED BY <1>5, <1>6, <1>8, <1>9 DEF IInv

\* The tip: its header is put and its height is in the index.
LEMMA SaveStatusSafe == ASSUME IInv, NEW t \in Thread, SaveStatus(t) PROVE IInv'
<1>1. /\ TypeOK /\ Frames /\ Memory /\ Alone /\ Durable
      /\ at[t] = "status" /\ up /\ Inside(t) /\ WalkOK(t) /\ adopts[t] /\ Goto(t, "write")
      /\ tip' = block[t] /\ block[t] \in Block
      /\ UNCHANGED <<headers, bodies, number, queue, disk, up, overlap, frames>>
  BY DEF IInv, SaveStatus, Inside, At, Frames, TypeOK
<1>2. /\ at' \in [Thread -> Place] /\ at'[t] = "write"
      /\ \A u \in Thread \ {t} : at'[u] = at[u]
      /\ \A u \in Thread : /\ Inside(u)' <=> Inside(u)
                           /\ WalkOK(u)' <=> WalkOK(u)
                           /\ Adopted(u)' = Adopted(u)
                           /\ Cursor(u)' = Cursor(u)
  BY <1>1, Moving DEF Place, frames, Inside
<1>3. TypeOK'
  BY <1>1, <1>2 DEF TypeOK, disk, frames
<1>4. Frames'
  BY <1>1, <1>2 DEF Frames, disk, frames
<1>5. ASSUME overlap # "lost" PROVE Headers' /\ Bodies' /\ Index' /\ InSight'
  <2>1. Headers /\ Bodies /\ Index /\ InSight
    BY <1>1, <1>5 DEF Memory
  <2>2. Headers'
    BY <1>1, <1>2, <2>1 DEF Headers, HasPutHeader, disk, frames
  <2>3. Bodies'
    BY <1>1, <1>2, <2>1 DEF Bodies, HasPutBody, disk, frames
  <2>4. HasNumbered(t) /\ \A u \in Thread : HasNumbered(u)' <=> HasNumbered(u)
    BY <1>1, <1>2 DEF HasNumbered, frames
  <2>5. Index'
    BY <1>1, <1>2, <2>1, <2>4 DEF Index, disk
  <2>6. block[t] \in headers
    BY <1>1, <2>1 DEF Headers, HasPutHeader
  <2>7. Height(block[t]) \in DOMAIN number
    <3>1. Height(block[t]) \in Nat /\ Height(block[t]) \in Heights(Adopted(t))
      <4>1. /\ Height(block[t]) \in Nat \ {0} /\ Len(walked[t]) \in Nat
            /\ Height(Cursor(t)) = Height(block[t]) - 1 - Len(walked[t])
            /\ Heights(Adopted(t)) = Height(Cursor(t)) + 1 .. Height(block[t])
        BY <1>1, WalkFacts
      <4> QED BY <4>1
    <3> QED BY <2>1, <2>4, <3>1 DEF Index
  <2>8. InSight'
    BY <1>1, <1>2, <2>1, <2>6, <2>7 DEF InSight, frames
  <2> QED BY <2>2, <2>3, <2>5, <2>8
<1>6. Alone'
  <2> SUFFICES ASSUME overlap = "none" PROVE Alone'
    BY <1>1 DEF Alone
  <2>1. \A u \in Thread : at'[u] = "write" => u = t
    BY <1>1, <1>2 DEF Alone, Inside
  <2> QED BY <1>1, <1>2, <2>1 DEF Alone, disk, frames
<1>7. Memory' /\ Durable'
  BY <1>1, <1>5 DEF Memory, Durable, disk
<1> QED BY <1>3, <1>4, <1>6, <1>7 DEF IInv

\* The parent of the block a thread alone inserts is on disk.
LEMMA OwnParent ==
    ASSUME IInv, up, overlap = "none", NEW t \in Thread, Inside(t)
    PROVE  Parent(block[t]) \in onDisk
<1>1. TypeOK /\ WalkOK(t) /\ Headers /\ InSight /\ \A u \in Thread : Inside(u) => u = t
  BY DEF IInv, Frames, Memory, Alone
<1>2. Parent(block[t]) \in headers
  BY <1>1 DEF InSight
<1>3. Parent(block[t]) \in Block /\ Parent(block[t]) # block[t]
  <2>1. Height(block[t]) \in Nat \ {0} /\ block[t] \in Block
    BY <1>1, WalkFacts DEF TypeOK
  <2>2. Height(block[t]) - 1 \in 0 .. Height(block[t])
    BY <2>1
  <2>3. Parent(block[t]) \in Block /\ Height(Parent(block[t])) = Height(block[t]) - 1
    BY <2>1, <2>2, AncestorFacts DEF Parent
  <2> QED BY <2>1, <2>3
<1>4. \A u \in Thread : HasPutHeader(u) => u = t
  BY <1>1 DEF HasPutHeader, Inside
<1> QED BY <1>1, <1>2, <1>3, <1>4 DEF Headers

\* The batch: what memory had before the disk has now.
LEMMA WriteBatchSafe == ASSUME IInv, NEW t \in Thread, WriteBatch(t) PROVE IInv'
<1>1. /\ TypeOK /\ Frames /\ Memory /\ Alone /\ Durable
      /\ at[t] = "write" /\ up /\ Inside(t) /\ WalkOK(t) /\ Goto(t, "idle")
      /\ onDisk' = onDisk \union {block[t]} /\ block[t] \in Block /\ adopts[t] \in BOOLEAN
      /\ diskNumber' = IF adopts[t] THEN Written(diskNumber, Adopted(t)) ELSE diskNumber
      /\ diskTip' = IF adopts[t] THEN block[t] ELSE diskTip
      /\ UNCHANGED <<memory, up, overlap, frames>>
  BY DEF IInv, WriteBatch, Inside, At, Frames, TypeOK
<1>2. /\ at' \in [Thread -> Place] /\ at'[t] = "idle"
      /\ \A u \in Thread \ {t} : at'[u] = at[u]
  BY <1>1 DEF Goto, TypeOK, Place
<1>3. /\ ~Inside(t)' /\ \A u \in Thread \ {t} : Inside(u)' <=> Inside(u)
      /\ \A u \in Thread : /\ WalkOK(u)' <=> WalkOK(u)
                           /\ Adopted(u)' = Adopted(u)
                           /\ Cursor(u)' = Cursor(u)
  BY <1>1, <1>2 DEF Inside, WalkOK, Adopted, Cursor, frames
<1>4. /\ Height(block[t]) \in Nat \ {0} /\ Height(block[t]) \in Heights(Adopted(t))
      /\ Adopted(t) \in Seq(Block)
  <2>1. /\ Height(block[t]) \in Nat \ {0} /\ Len(walked[t]) \in Nat
        /\ Height(Cursor(t)) = Height(block[t]) - 1 - Len(walked[t])
        /\ Heights(Adopted(t)) = Height(Cursor(t)) + 1 .. Height(block[t])
        /\ Adopted(t) \in Seq(Block)
    BY <1>1, WalkFacts
  <2> QED BY <2>1
<1>5. /\ IndexOK(diskNumber')
      /\ DOMAIN diskNumber' = IF adopts[t] THEN DOMAIN diskNumber \union Heights(Adopted(t))
                              ELSE DOMAIN diskNumber
  <2>1. IndexOK(diskNumber)
    BY <1>1 DEF TypeOK, IndexOK
  <2> QED BY <1>1, <1>4, <2>1, WrittenFacts
<1>6. TypeOK'
  BY <1>1, <1>2, <1>5 DEF TypeOK, IndexOK, memory, frames
<1>7. Frames'
  BY <1>1, <1>2, <1>3 DEF Frames, memory, frames
<1>8. ASSUME overlap # "lost" PROVE Headers' /\ Bodies' /\ Index' /\ InSight'
  <2>1. Headers /\ Bodies /\ Index /\ InSight
    BY <1>1, <1>8 DEF Memory
  <2>2. Headers'
    <3>1. HasPutHeader(t) /\ ~HasPutHeader(t)'
      BY <1>1, <1>2 DEF HasPutHeader
    <3>2. \A u \in Thread \ {t} : HasPutHeader(u)' <=> HasPutHeader(u)
      BY <1>2 DEF HasPutHeader
    <3> QED BY <1>1, <2>1, <3>1, <3>2 DEF Headers, memory, frames
  <2>3. Bodies'
    <3>1. HasPutBody(t) /\ ~HasPutBody(t)'
      BY <1>1, <1>2 DEF HasPutBody
    <3>2. \A u \in Thread \ {t} : HasPutBody(u)' <=> HasPutBody(u)
      BY <1>2 DEF HasPutBody
    <3> QED BY <1>1, <2>1, <3>1, <3>2 DEF Bodies, memory, frames
  <2>4. Index'
    <3>1. (HasNumbered(t) <=> adopts[t]) /\ ~HasNumbered(t)'
      BY <1>1, <1>2 DEF HasNumbered
    <3>2. \A u \in Thread \ {t} : HasNumbered(u)' <=> HasNumbered(u)
      BY <1>1, <1>2 DEF HasNumbered, frames
    <3>3. \A u \in Thread : Heights(Adopted(u))' = Heights(Adopted(u))
      BY <1>3 DEF Heights
    <3> QED BY <1>1, <1>5, <2>1, <3>1, <3>2, <3>3 DEF Index, memory
  <2>5. InSight'
    BY <1>1, <1>2, <1>3, <2>1 DEF InSight, memory, frames
  <2> QED BY <2>2, <2>3, <2>4, <2>5
<1>9. Alone'
  <2> SUFFICES ASSUME overlap = "none" PROVE Alone'
    BY <1>1 DEF Alone
  <2>1. \A u \in Thread : Inside(u) => u = t
    BY <1>1 DEF Alone
  <2>2. \A u \in Thread : ~Inside(u)'
    BY <1>3, <2>1
  <2>3. Headers /\ InSight /\ Index' /\ InSight'
    BY <1>1, <1>8 DEF Memory
  <2>4. Parent(block[t]) \in onDisk
    BY <1>1, OwnParent
  <2>5. \A b \in onDisk' : b # Genesis => Parent(b) \in onDisk'
    BY <1>1, <2>4 DEF Alone
  <2>6. Whole(DOMAIN diskNumber')
    <3>1. \A u \in Thread : ~HasNumbered(u)'
      BY <2>2 DEF HasNumbered, Inside
    <3>2. \A k \in Nat : k \in DOMAIN number' <=> k \in DOMAIN diskNumber'
      BY <2>3, <3>1 DEF Index
    <3>3. DOMAIN number' \subseteq Nat /\ DOMAIN diskNumber' \subseteq Nat
      BY <1>6 DEF TypeOK
    <3>4. DOMAIN number' = DOMAIN diskNumber'
      BY <3>2, <3>3
    <3>5. Whole(DOMAIN number')
      BY <2>3 DEF InSight
    <3> QED BY <3>4, <3>5
  <2>7. tip' = diskTip'
    <3>1. CASE adopts[t]
      BY <1>1, <3>1 DEF Alone, memory
    <3>2. CASE ~adopts[t]
      <4>1. \A u \in Thread : at[u] = "write" => ~adopts[u]
        BY <2>1, <3>2 DEF Inside
      <4> QED BY <1>1, <3>2, <4>1 DEF Alone, memory
    <3> QED BY <1>1, <3>1, <3>2
  <2>8. \A u \in Thread : at'[u] # "write"
    BY <2>2 DEF Inside
  <2>9. Genesis \in onDisk'
    BY <1>1 DEF Alone
  <2> QED BY <2>2, <2>5, <2>6, <2>7, <2>8, <2>9 DEF Alone
<1>10. Memory' /\ Durable'
  BY <1>1, <1>4, <1>5, <1>8 DEF Memory, Durable
<1> QED BY <1>6, <1>7, <1>9, <1>10 DEF IInv

-----------------------------------------------------------------------------
(* A thread comes in; the process is lost and started again.                *)

\* A new block, on a header in sight.
LEMMA BeginSafe ==
    ASSUME IInv, NEW t \in Thread, NEW b \in Block \ {Genesis}, Begin(t, b) PROVE IInv'
<1>1. /\ TypeOK /\ Frames /\ Memory /\ Alone /\ Durable
      /\ at[t] = "idle" /\ up /\ ~Inside(t) /\ Goto(t, "header") /\ Overlaps(t)
      /\ b \notin headers /\ Parent(b) \in headers
      /\ block' = [block EXCEPT ![t] = b] /\ walked' = [walked EXCEPT ![t] = << >>]
      /\ adopts' = [adopts EXCEPT ![t] = FALSE] /\ shifts' = [shifts EXCEPT ![t] = FALSE]
      /\ UNCHANGED <<memory, disk, up>>
  BY DEF IInv, Begin, Inside, At
<1>2. /\ at' \in [Thread -> Place] /\ at'[t] = "header"
      /\ \A u \in Thread \ {t} : at'[u] = at[u]
  BY <1>1 DEF Goto, TypeOK, Place
<1>3. /\ block' \in [Thread -> Block] /\ block'[t] = b
      /\ walked' \in [Thread -> Seq(Block)] /\ walked'[t] = << >>
      /\ adopts' \in [Thread -> BOOLEAN] /\ adopts'[t] = FALSE
      /\ shifts' \in [Thread -> BOOLEAN]
      /\ \A u \in Thread \ {t} : /\ block'[u] = block[u] /\ walked'[u] = walked[u]
                                 /\ adopts'[u] = adopts[u]
  <2>1. << >> \in Seq(Block)
    BY EmptySeq
  <2> QED BY <1>1, <2>1 DEF TypeOK
<1>4. /\ Inside(t)' /\ \A u \in Thread \ {t} : /\ Inside(u)' <=> Inside(u)
                                               /\ WalkOK(u)' <=> WalkOK(u)
                                               /\ Adopted(u)' = Adopted(u)
                                               /\ Cursor(u)' = Cursor(u)
  BY <1>2, <1>3 DEF Inside, WalkOK, Adopted, Cursor
<1>5. WalkOK(t)'
  <2>1. Height(b) \in Nat \ {0} /\ Len(<< >>) = 0
    BY PathFacts, EmptySeq
  <2> QED BY <1>3, <2>1 DEF WalkOK
<1>6. /\ overlap' \in {"none", "raced", "lost"}
      /\ overlap' = "lost" <=> overlap = "lost"
      /\ overlap' = "none" => overlap = "none" /\ \A u \in Thread \ {t} : ~Inside(u)
  BY <1>1 DEF Overlaps, TypeOK, Inside
<1>7. TypeOK'
  BY <1>1, <1>2, <1>3, <1>6 DEF TypeOK, disk, memory
<1>8. Frames'
  BY <1>1, <1>2, <1>3, <1>4, <1>5 DEF Frames, memory
<1>9. ASSUME overlap # "lost" PROVE b \notin onDisk /\ Headers' /\ Bodies' /\ Index' /\ InSight'
  <2>1. Headers /\ Bodies /\ Index /\ InSight
    BY <1>1, <1>9 DEF Memory
  <2>2. Headers'
    <3>1. ~HasPutHeader(t) /\ ~HasPutHeader(t)'
      BY <1>1, <1>2 DEF HasPutHeader
    <3>2. \A u \in Thread \ {t} : HasPutHeader(u)' <=> HasPutHeader(u)
      BY <1>2 DEF HasPutHeader
    <3> QED BY <1>1, <1>3, <2>1, <3>1, <3>2 DEF Headers, memory, disk
  <2>3. Bodies'
    <3>1. ~HasPutBody(t) /\ ~HasPutBody(t)'
      BY <1>1, <1>2 DEF HasPutBody
    <3>2. \A u \in Thread \ {t} : HasPutBody(u)' <=> HasPutBody(u)
      BY <1>2 DEF HasPutBody
    <3> QED BY <1>1, <1>3, <2>1, <3>1, <3>2 DEF Bodies, memory, disk
  <2>4. Index'
    <3>1. ~HasNumbered(t) /\ ~HasNumbered(t)'
      BY <1>1, <1>2 DEF HasNumbered
    <3>2. \A u \in Thread \ {t} : HasNumbered(u)' <=> HasNumbered(u)
      BY <1>2, <1>3 DEF HasNumbered
    <3>3. \A u \in Thread \ {t} : Heights(Adopted(u))' = Heights(Adopted(u))
      BY <1>4 DEF Heights
    <3> QED BY <1>1, <2>1, <3>1, <3>2, <3>3 DEF Index, memory, disk
  <2>5. InSight'
    BY <1>1, <1>2, <1>3, <1>4, <2>1 DEF InSight, memory
  <2>6. b \notin onDisk
    BY <1>1, <2>1 DEF Headers
  <2> QED BY <2>2, <2>3, <2>4, <2>5, <2>6
<1>10. Alone'
  <2> SUFFICES ASSUME overlap' = "none" PROVE Alone'
    BY DEF Alone
  <2>1. overlap = "none" /\ \A u \in Thread : ~Inside(u)
    BY <1>1, <1>6
  <2>2. \A u \in Thread : Inside(u)' => u = t
    BY <1>4, <2>1
  <2>3. \A u \in Thread : at[u] # "write" /\ at'[u] # "write"
    BY <1>2, <2>1 DEF Inside
  <2>4. tip' = diskTip'
    BY <1>1, <2>1, <2>3 DEF Alone, memory, disk
  <2>5. b \notin onDisk'
    BY <1>1, <1>9, <2>1 DEF disk
  <2>6. \A u \in Thread : Inside(u)' => block'[u] \notin onDisk' /\ ~adopts'[u]
    BY <1>3, <2>2, <2>5
  <2>7. /\ Genesis \in onDisk' /\ Whole(DOMAIN diskNumber')
        /\ \A x \in onDisk' : x # Genesis => Parent(x) \in onDisk'
    BY <1>1, <2>1 DEF Alone, disk
  <2> QED BY <2>2, <2>3, <2>4, <2>6, <2>7 DEF Alone
<1>11. Memory' /\ Durable'
  BY <1>1, <1>6, <1>9 DEF Memory, Durable, disk
<1> QED BY <1>7, <1>8, <1>10, <1>11 DEF IInv

\* The process is lost: the disk stays.
LEMMA CrashSafe == ASSUME IInv, Crash PROVE IInv'
<1>1. /\ TypeOK /\ Frames /\ Memory /\ Alone /\ Durable /\ Crash
  BY DEF IInv
<1>2. /\ \A t \in Thread : at'[t] = "idle"
      /\ ~up' /\ UNCHANGED disk
      /\ overlap' \in {"none", "lost"}
      /\ overlap' = "none" => overlap = "none"
  BY <1>1 DEF Crash, Loses, TypeOK
<1>3. \A t \in Thread : ~Inside(t)'
  BY <1>2 DEF Inside
<1>4. TypeOK'
  <2>1. << >> \in Seq(Block) /\ Genesis \in Block
    BY EmptySeq, PathFacts, BlockAssumption
  <2> QED BY <1>1, <1>2, <2>1, ZenonT(40) DEF TypeOK, Crash, Place, disk
<1>5. Frames'
  BY <1>2, <1>3 DEF Frames
<1>6. Memory' /\ Alone' /\ Durable'
  BY <1>1, <1>2, <1>3 DEF Memory, Alone, Durable, disk
<1> QED BY <1>4, <1>5, <1>6 DEF IInv

\* The queue that init fills is of blocks no higher than the tip, which is one of them.
LEMMA FilledFacts ==
    ASSUME diskTip \in Block
    PROVE  /\ Filled \in Seq({b \in Block : Height(b) \in 0 .. Height(diskTip)})
           /\ Filled # << >>
           /\ Len(Filled) = Total
           /\ \E x \in DOMAIN Filled : Filled[x] = diskTip
<1> DEFINE h == Height(diskTip)
           n == Min({Total, h + 1})
           V == {b \in Block : Height(b) \in 0 .. h}
           last == [x \in 1 .. n |-> Anc(diskTip, h - n + x)]
           rest == [x \in 1 .. Total - n |-> Genesis]
<1>1. h \in Nat /\ Total \in Nat \ {0}
  BY PathFacts, ConcurrentAssumption
<1>2. n \in Nat \ {0} /\ n <= h + 1 /\ n <= Total
  BY <1>1, MinOfTwo
<1> HIDE DEF n
<1>3. \A x \in 1 .. n : Anc(diskTip, h - n + x) \in V
  <2> SUFFICES ASSUME NEW x \in 1 .. n PROVE Anc(diskTip, h - n + x) \in V
    OBVIOUS
  <2>1. h - n + x \in 0 .. h
    BY <1>1, <1>2
  <2> QED BY <2>1, AncestorFacts
<1>4. last \in Seq(V) /\ Len(last) = n
  BY <1>2, <1>3
<1>5. rest \in Seq(V) /\ Len(rest) = Total - n
  <2>1. Genesis \in V
    BY <1>1, PathFacts
  <2>2. Total - n \in Nat
    BY <1>1, <1>2
  <2> QED BY <2>1, <2>2
<1>6. last[n] = diskTip
  <2>1. n \in 1 .. n /\ h - n + n = h
    BY <1>1, <1>2
  <2> QED BY <2>1, PathFacts
<1> HIDE DEF last, rest, V
<1>7. /\ last \o rest \in Seq(V) /\ Len(last \o rest) = Total
      /\ (last \o rest)[n] = diskTip
  <2>1. /\ last \o rest \in Seq(V) /\ Len(last \o rest) = Len(last) + Len(rest)
        /\ \A x \in 1 .. Len(last) + Len(rest) :
              (last \o rest)[x] = IF x <= Len(last) THEN last[x] ELSE rest[x - Len(last)]
    BY ONLY <1>4, <1>5, ConcatProperties
  <2>2. Len(last) + Len(rest) = Total /\ n \in 1 .. Total
    BY <1>1, <1>2, <1>4, <1>5
  <2> QED BY <1>2, <1>4, <1>6, <2>1, <2>2
<1>8. Filled = last \o rest
  BY DEF Filled, n, last, rest
<1>9. Len(<< >>) = 0
  BY EmptySeq
<1>10. n \in DOMAIN (last \o rest)
  BY <1>2, <1>7, LenProperties
<1> QED BY <1>1, <1>7, <1>8, <1>9, <1>10 DEF V

\* The process starts: memory is the disk.
LEMMA RestartSafe == ASSUME IInv, Restart PROVE IInv'
<1>1. /\ TypeOK /\ Frames /\ Alone /\ Durable /\ diskTip \in Block
      /\ ~up /\ up' /\ headers' = onDisk /\ bodies' = onDisk /\ number' = diskNumber
      /\ queue' = Filled /\ tip' = diskTip
      /\ UNCHANGED <<disk, at, frames, overlap>>
  BY DEF IInv, Restart, TypeOK
<1>2. /\ \A t \in Thread : at[t] = "idle" /\ at'[t] = "idle"
      /\ overlap = "none" \/ overlap = "lost"
  BY <1>1 DEF Frames, Inside, TypeOK
<1>3. \A t \in Thread : ~Inside(t)'
  BY <1>2 DEF Inside
<1>4. /\ queue' \in Seq({b \in Block : Height(b) \in 0 .. Height(diskTip)})
      /\ queue' # << >>
  BY <1>1, FilledFacts
<1>5. queue' \in Seq(Block)
  <2>1. \A i \in 1 .. Len(queue') : queue'[i] \in Block
    BY <1>4, ElementOfSeq
  <2> QED BY <1>4, <2>1, LenProperties
<1>6. TypeOK'
  BY <1>1, <1>5 DEF TypeOK, disk, frames
<1>7. Frames'
  BY <1>1, <1>2, <1>3, <1>4 DEF Frames
<1>8. ASSUME overlap # "lost" PROVE Headers' /\ Bodies' /\ Index' /\ InSight'
  <2>1. overlap = "none"
    BY <1>2, <1>8
  <2>2. Headers' /\ Bodies' /\ Index'
    BY <1>1, <1>2 DEF Headers, Bodies, Index, HasPutHeader, HasPutBody, HasNumbered, disk
  <2>3. \A i \in DOMAIN queue' : Height(queue'[i]) \in DOMAIN diskNumber
    <3>1. 0 .. Height(diskTip) \subseteq DOMAIN diskNumber
      BY <1>1, <2>1 DEF Alone, Durable, Whole
    <3>2. \A i \in DOMAIN queue' : Height(queue'[i]) \in 0 .. Height(diskTip)
      BY <1>4, ElementOfSeq, LenProperties
    <3> QED BY <3>1, <3>2
  <2>4. InSight'
    BY <1>1, <1>2, <1>3, <2>1, <2>3 DEF InSight, Alone, Durable, disk
  <2> QED BY <2>2, <2>4
<1>9. Alone'
  BY <1>1, <1>2, <1>3 DEF Alone, disk, frames
<1>10. Memory' /\ Durable'
  BY <1>1, <1>8 DEF Memory, Durable, disk
<1> QED BY <1>6, <1>7, <1>9, <1>10 DEF IInv

\* At first there is genesis, in memory and on disk.
LEMMA InitIInv == ASSUME Init PROVE IInv
<1>1. /\ Genesis \in Block /\ Height(Genesis) = 0 /\ Total \in Nat \ {0}
  BY PathFacts, BlockAssumption, ConcurrentAssumption
<1>2. queue \in Seq(Block) /\ queue # << >>
  <2>1. queue = [x \in 1 .. Total |-> Genesis]
    BY DEF Init
  <2>2. queue \in Seq(Block) /\ Len(queue) = Total
    BY <1>1, <2>1
  <2> QED BY <1>1, <2>2, EmptySeq
<1>3. << >> \in Seq(Block)
  BY EmptySeq
<1>4. TypeOK
  BY <1>1, <1>2, <1>3 DEF Init, TypeOK, Place
<1>5. \A t \in Thread : at[t] = "idle" /\ ~Inside(t)
  BY DEF Init, Inside
<1>6. Frames
  BY <1>2, <1>5 DEF Init, Frames
<1>7. Whole({0})
  BY DEF Whole
<1>8. Headers /\ Bodies /\ Index
  BY <1>5 DEF Init, Headers, Bodies, Index, HasPutHeader, HasPutBody, HasNumbered
<1>9. InSight
  <2>1. \A i \in DOMAIN queue : Height(queue[i]) \in DOMAIN number
    BY <1>1 DEF Init
  <2> QED BY <1>1, <1>5, <1>7, <2>1 DEF Init, InSight
<1>10. Memory /\ Alone /\ Durable
  BY <1>1, <1>5, <1>7, <1>8, <1>9 DEF Init, Memory, Alone, Durable
<1> QED BY <1>4, <1>6, <1>10 DEF IInv

\* Every step of every thread, the loss of the process and its return keep the
\* invariant.
LEMMA NextSafe == ASSUME IInv, [Next]_vars PROVE IInv'
<1>1. ASSUME NEW t \in Thread, NEW b \in Block \ {Genesis}, Begin(t, b) PROVE IInv'
  BY <1>1, BeginSafe
<1>2. ASSUME NEW t \in Thread, PutHeader(t) PROVE IInv'
  BY <1>2, PutHeaderSafe
<1>3. ASSUME NEW t \in Thread, PutBody(t) PROVE IInv'
  BY <1>3, PutBodySafe
<1>4. ASSUME NEW t \in Thread, ReadHeight(t) PROVE IInv'
  BY <1>4, ReadHeightSafe
<1>5. ASSUME NEW t \in Thread, Walk(t) PROVE IInv'
  BY <1>5, WalkSafe
<1>6. ASSUME NEW t \in Thread, UpdateNumber(t) PROVE IInv'
  BY <1>6, UpdateNumberSafe
<1>7. ASSUME NEW t \in Thread, ReadShift(t) PROVE IInv'
  BY <1>7, ReadShiftSafe
<1>8. ASSUME NEW t \in Thread, UpdateQueue(t) PROVE IInv'
  BY <1>8, UpdateQueueSafe
<1>9. ASSUME NEW t \in Thread, SaveStatus(t) PROVE IInv'
  BY <1>9, SaveStatusSafe
<1>10. ASSUME NEW t \in Thread, WriteBatch(t) PROVE IInv'
  BY <1>10, WriteBatchSafe
<1>11. CASE Crash
  BY <1>11, CrashSafe
<1>12. CASE Restart
  BY <1>12, RestartSafe
<1>13. CASE UNCHANGED vars
  <2>1. UNCHANGED <<headers, bodies, number, queue, tip, onDisk, diskNumber, diskTip, up, at,
                    block, walked, adopts, shifts, overlap>>
    BY <1>13 DEF vars, memory, disk, frames
  <2>2. \A t \in Thread : /\ Inside(t)' <=> Inside(t)
                          /\ HasPutHeader(t)' <=> HasPutHeader(t)
                          /\ HasPutBody(t)' <=> HasPutBody(t)
                          /\ HasNumbered(t)' <=> HasNumbered(t)
                          /\ WalkOK(t)' <=> WalkOK(t)
                          /\ Adopted(t)' = Adopted(t) /\ Cursor(t)' = Cursor(t)
    BY <2>1 DEF Inside, HasPutHeader, HasPutBody, HasNumbered, WalkOK, Adopted, Cursor
  <2>3. TypeOK'
    BY <2>1 DEF IInv, TypeOK
  <2>4. Frames'
    BY <2>1, <2>2 DEF IInv, Frames
  <2>5. (Headers' <=> Headers) /\ (Bodies' <=> Bodies)
    BY <2>1, <2>2 DEF Headers, Bodies
  <2>6. Index' <=> Index
    BY <2>1, <2>2 DEF Index
  <2>7. InSight' <=> InSight
    BY <2>1, <2>2 DEF InSight
  <2>8. Memory'
    BY <2>1, <2>5, <2>6, <2>7 DEF IInv, Memory
  <2>9. Alone' /\ Durable'
    BY <2>1, <2>2 DEF IInv, Alone, Durable
  <2> QED BY <2>3, <2>4, <2>8, <2>9 DEF IInv
<1> QED BY <1>1, <1>2, <1>3, <1>4, <1>5, <1>6, <1>7, <1>8, <1>9, <1>10, <1>11, <1>12, <1>13
        DEF Next

-----------------------------------------------------------------------------
(* What follows.                                                           *)

\* What memory and disk hold follows from where the threads are, whichever way they
\* interleave and whenever the process is lost.
THEOREM Invariance == Spec => []IInv
<1>1. Init => IInv
  BY InitIInv
<1>2. IInv /\ [Next]_vars => IInv'
  BY NextSafe
<1> QED BY <1>1, <1>2, PTL DEF Spec

\* Every variable of the interleaved inserts keeps its type; each entry of both
\* indices is at its own height.
THEOREM TypeCorrect == Spec => []TypeOK
<1>1. IInv => TypeOK
  BY DEF IInv
<1> QED BY <1>1, Invariance, PTL

\* However the inserts interleave, a header that is in sight has its path in
\* sight, and no height up to the tip is missing from the index.
THEOREM WalksAlwaysFind == Spec => []WalksFind
<1>1. ASSUME IInv PROVE WalksFind
  <2> SUFFICES ASSUME up, overlap # "lost"
               PROVE  /\ \A b \in headers : Path(b) \subseteq headers
                      /\ \A k \in 0 .. Height(tip) : k \in DOMAIN number
    BY DEF WalksFind
  <2>1. InSight /\ headers \in SUBSET Block
    BY <1>1 DEF IInv, Memory, TypeOK
  <2>2. \A b \in headers : Path(b) \subseteq headers
    BY <2>1, ParentsMakePaths DEF InSight
  <2>3. \A k \in 0 .. Height(tip) : k \in DOMAIN number
    BY <2>1 DEF InSight, Whole
  <2> QED BY <2>2, <2>3
<1> QED BY <1>1, Invariance, PTL

\* When the inserts are over, whatever has overlapped, what was adopted is on disk
\* with all it stands on, and the index on disk reaches it.
THEOREM RestAlwaysDurable == Spec => []RestIsDurable
<1>1. ASSUME IInv PROVE RestIsDurable
  <2> SUFFICES ASSUME AtRest, overlap # "lost"
               PROVE  /\ headers = onDisk /\ bodies = onDisk
                      /\ tip \in onDisk /\ Path(diskTip) \subseteq onDisk
                      /\ 0 .. Height(diskTip) \subseteq DOMAIN diskNumber
    BY DEF RestIsDurable
  <2>1. /\ up /\ \A t \in Thread : at[t] = "idle"
        /\ Headers /\ Bodies /\ Index /\ InSight /\ Durable /\ TypeOK
    BY <1>1 DEF AtRest, IInv, Memory
  <2>2. headers = onDisk
    <3>1. headers \subseteq Block /\ onDisk \subseteq Block
      BY <2>1 DEF TypeOK
    <3>2. \A b \in Block : b \in headers <=> b \in onDisk
      BY <2>1 DEF Headers, HasPutHeader
    <3> QED BY <3>1, <3>2
  <2>3. bodies = onDisk
    <3>1. bodies \subseteq Block /\ onDisk \subseteq Block
      BY <2>1 DEF TypeOK
    <3>2. \A b \in Block : b \in bodies <=> b \in onDisk
      BY <2>1 DEF Bodies, HasPutBody
    <3> QED BY <3>1, <3>2
  <2>4. DOMAIN number = DOMAIN diskNumber
    <3>1. DOMAIN number \subseteq Nat /\ DOMAIN diskNumber \subseteq Nat
      BY <2>1 DEF TypeOK
    <3>2. \A k \in Nat : k \in DOMAIN number <=> k \in DOMAIN diskNumber
      BY <2>1 DEF Index, HasNumbered
    <3> QED BY <3>1, <3>2
  <2>5. Path(diskTip) \subseteq onDisk
    <3>1. headers \in SUBSET Block /\ diskTip \in headers
      BY <2>1, <2>2 DEF TypeOK, Durable
    <3>2. \A b \in headers : Path(b) \subseteq headers
      BY <2>1, <3>1, ParentsMakePaths DEF InSight
    <3> QED BY <2>2, <3>1, <3>2
  <2>6. 0 .. Height(diskTip) \subseteq DOMAIN diskNumber
    <3>1. Height(diskTip) \in DOMAIN diskNumber
      BY <2>1 DEF Durable
    <3> QED BY <2>1, <2>4, <3>1 DEF InSight, Whole
  <2>7. tip \in onDisk
    BY <2>1, <2>2 DEF InSight
  <2> QED BY <2>2, <2>3, <2>5, <2>6, <2>7
<1> QED BY <1>1, Invariance, PTL

\* As long as the threads take turns, what is on disk changes as the fork choice
\* does, block by block, and a loss of the process changes nothing.
THEOREM DiskRefinement == Spec => DiskIsForkChoice
<1>1. Init => FC!Init
  BY DEF Init, FC!Init, Genesis, FC!Genesis
<1>2. IInv /\ [Next]_vars => [overlap' = "none" => [FC!Next]_FC!vars]_vars
  <2> SUFFICES ASSUME IInv, Next, overlap' = "none"
               PROVE  FC!Next \/ UNCHANGED <<onDisk, diskTip>>
    BY DEF FC!vars, vars, disk
  <2>1. ASSUME NEW t \in Thread, WriteBatch(t) PROVE FC!Next
    <3>1. /\ up /\ overlap = "none" /\ Inside(t) /\ block[t] \in Block
          /\ onDisk' = onDisk \union {block[t]}
          /\ diskTip' = IF adopts[t] THEN block[t] ELSE diskTip
      BY <2>1 DEF WriteBatch, At, Inside, IInv, TypeOK
    <3>2. Parent(block[t]) \in onDisk
      BY <3>1, OwnParent
    <3>3. /\ block[t] \notin onDisk
          /\ adopts[t] => Height(block[t]) \in {Height(diskTip), Height(diskTip) + 1}
      BY <3>1 DEF IInv, Alone
    <3> QED BY <3>1, <3>2, <3>3
            DEF FC!Next, FC!Learn, FC!Parent, FC!Height, FC!Anc, Parent, Height, Anc
  <2>2. ASSUME NEW t \in Thread,
               \/ \E b \in Block \ {Genesis} : Begin(t, b)
               \/ PutHeader(t) \/ PutBody(t) \/ ReadHeight(t) \/ Walk(t)
               \/ UpdateNumber(t) \/ ReadShift(t) \/ UpdateQueue(t) \/ SaveStatus(t)
        PROVE  UNCHANGED <<onDisk, diskTip>>
    BY <2>2 DEF disk, Begin, PutHeader, PutBody, ReadHeight, Walk, UpdateNumber, ReadShift,
                UpdateQueue, SaveStatus
  <2>3. CASE Crash \/ Restart
    BY <2>3 DEF Crash, Restart, disk
  <2> QED BY <2>1, <2>2, <2>3 DEF Next
<1> QED BY Invariance, <1>1, <1>2, PTL DEF Spec, DiskIsForkChoice

-----------------------------------------------------------------------------
(* Threads that take turns, on trees of any shape.  The entries of the index  *)
(* depend on where the walks end, and these ask the queue, whose order is not  *)
(* that of heights once a fork of several blocks has been adopted.  It stays    *)
(* truthful, so that a walk may end too low but never on a wrong block.         *)

Canonical(index, b) ==
    DOMAIN index = 0 .. Height(b) /\ \A k \in 0 .. Height(b) : index[k] = Anc(b, k)

\* The batch of t holds a status, and the queue is that of its block.
HasQueued(t) == at[t] = "status" \/ (at[t] = "write" /\ adopts[t])

\* What is in memory while t has adopted a part of its block.
HalfAdopted(t) ==
    /\ at[t] # "dead"
    /\ at[t] = "number" \/ HasNumbered(t) => Cursor(t) \in Path(diskTip)
    /\ at[t] = "queue" => shifts[t] = (Height(diskTip) < Height(block[t]))
    /\ HasNumbered(t) => number = Written(diskNumber, Adopted(t))
    /\ HasQueued(t) => Truthful(queue, block[t])

InTurn ==
    overlap = "none" =>
        /\ Canonical(diskNumber, diskTip)
        /\ up => /\ Len(queue) = Total
                 /\ \A t \in Thread : HalfAdopted(t)
                 /\ (\A t \in Thread : ~HasNumbered(t)) => number = diskNumber
                 /\ (\A t \in Thread : ~HasQueued(t)) => Truthful(queue, diskTip)

\* What a thread adopts is the fork above its cursor.
LEMMA AdoptedIsFork ==
    ASSUME TypeOK, NEW t \in Thread, WalkOK(t)
    PROVE  /\ block[t] \in Block /\ block[t] # Genesis
           /\ Height(Cursor(t)) \in 0 .. Height(block[t]) - 1
           /\ Cursor(t) = Anc(block[t], Height(Cursor(t)))
           /\ Adopted(t) = ForkBlocks(block[t], Height(Cursor(t)))
<1> DEFINE b == block[t]
           w == walked[t]
           c == Height(Cursor(t))
           f == ForkBlocks(b, c)
           a == Adopted(t)
<1>1. b \in Block /\ b # Genesis /\ w \in Seq(Block)
  BY DEF TypeOK, WalkOK
<1>2. /\ Height(b) \in Nat \ {0} /\ Len(w) \in Nat /\ Len(w) < Height(b)
      /\ c = Height(b) - 1 - Len(w) /\ a \in Seq(Block)
      /\ \A i \in 1 .. Len(w) : w[i] = Anc(b, Height(b) - i)
      /\ Cursor(t) = Anc(b, Height(b) - 1 - Len(w))
  BY WalkFacts DEF WalkOK
<1>3. c \in 0 .. Height(b) - 1 /\ Cursor(t) = Anc(b, c) /\ Height(b) - c = Len(w) + 1
  BY <1>2
<1>4. /\ Len(a) = Len(w) + 1 /\ a[Len(w) + 1] = b
      /\ \A i \in 1 .. Len(w) : a[i] = w[i]
  BY <1>1, <1>2, AppendProperties DEF Adopted
<1> HIDE DEF c, a
<1>5. /\ f \in Seq(Block) /\ Len(f) = Len(w) + 1
      /\ \A j \in 1 .. Len(w) + 1 :
            f[j] = IF j = Len(w) + 1 THEN b ELSE Anc(b, Height(b) - j)
  BY <1>1, <1>3, ForkBlocksFacts
<1>6. ASSUME NEW i \in 1 .. Len(w) + 1 PROVE a[i] = f[i]
  <2>1. Len(w) \in Nat
    BY <1>2, LenProperties
  <2>2. i = Len(w) + 1 \/ (i \in 1 .. Len(w) /\ i # Len(w) + 1)
    BY ONLY <2>1, i \in 1 .. Len(w) + 1
  <2> QED BY <1>2, <1>4, <1>5, <2>2
<1> HIDE DEF f
<1>7. a = f
  <2>1. a \in Seq(Block) /\ f \in Seq(Block) /\ Len(a) = Len(f) /\ \A i \in 1 .. Len(a) : a[i] = f[i]
    BY <1>2, <1>4, <1>5, <1>6
  <2> QED BY ONLY <2>1, SeqEqual
<1> QED BY <1>1, <1>3, <1>7 DEF c, a, f

\* The index of a chain, with a fork of it written, is the index of the fork's chain.
LEMMA WrittenCanonical ==
    ASSUME NEW index, NEW old \in Block, Canonical(index, old), NEW b \in Block, b # Genesis,
           Height(b) \in {Height(old), Height(old) + 1},
           NEW c \in 0 .. Height(b) - 1, Anc(b, c) \in Path(old)
    PROVE  Canonical(Written(index, ForkBlocks(b, c)), b)
<1> DEFINE fork == ForkBlocks(b, c)
           f == Height(b) - c
           new == Written(index, fork)
           place(k) == CHOOSE i \in DOMAIN fork : Height(fork[i]) = k
<1>1. /\ Height(b) \in Nat \ {0} /\ f \in Nat \ {0} /\ c \in Nat
      /\ fork \in Seq(Block) /\ Len(fork) = f
      /\ \A j \in 1 .. f : fork[j] = IF j = f THEN b ELSE Anc(b, Height(b) - j)
      /\ \A j \in 1 .. f : Height(fork[j]) = IF j = f THEN Height(b) ELSE Height(b) - j
  BY ForkBlocksFacts
<1>2. Height(old) \in Nat /\ c \in 0 .. Height(old) /\ \A k \in 0 .. c : Anc(old, k) = Anc(b, k)
  <2>1. c \in 0 .. Height(b)
    BY <1>1
  <2> QED BY <2>1, CommonPath
<1> HIDE DEF fork
<1>3. DOMAIN fork = 1 .. f
  BY <1>1, LenProperties
<1>4. Anc(b, Height(b)) = b
  BY PathFacts
<1>5. \A j \in 1 .. f : fork[j] = Anc(b, Height(fork[j])) /\ Height(fork[j]) \in c + 1 .. Height(b)
  BY <1>1, <1>4
<1>6. ASSUME NEW k \in c + 1 .. Height(b) PROVE \E j \in 1 .. f : Height(fork[j]) = k
  <2>1. CASE k = Height(b)
    BY <1>1, <2>1
  <2>2. CASE k # Height(b)
    <3>1. Height(b) - k \in 1 .. f /\ Height(b) - k # f /\ Height(b) - (Height(b) - k) = k
      BY <1>1, <2>2
    <3> QED BY <1>1, <3>1
  <2> QED BY <2>1, <2>2
<1> HIDE DEF f
<1>7. Heights(fork) = c + 1 .. Height(b)
  BY <1>3, <1>5, <1>6 DEF Heights
<1>8. ASSUME NEW k \in Heights(fork) PROVE fork[place(k)] = Anc(b, k)
  <2>1. \E i \in DOMAIN fork : Height(fork[i]) = k
    BY <1>8 DEF Heights
  <2>2. place(k) \in DOMAIN fork /\ Height(fork[place(k)]) = k
    BY <2>1
  <2> QED BY <1>3, <1>5, <2>2
<1>9. new = [k \in DOMAIN index \union Heights(fork) |->
               IF k \in Heights(fork) THEN fork[place(k)] ELSE index[k]]
  BY DEF Written, Heights
<1> HIDE DEF place
<1>10. DOMAIN index \union Heights(fork) = 0 .. Height(b)
  BY <1>1, <1>2, <1>7 DEF Canonical
<1>11. ASSUME NEW k \in 0 .. Height(b) PROVE new[k] = Anc(b, k)
  <2>1. CASE k \in Heights(fork)
    BY <1>8, <1>9, <1>10, <2>1
  <2>2. CASE k \notin Heights(fork)
    <3>1. k \in 0 .. c /\ k \in 0 .. Height(old)
      BY <1>1, <1>2, <1>7, <2>2
    <3>2. new[k] = index[k]
      BY <1>9, <1>10, <2>2
    <3> QED BY <1>2, <3>1, <3>2 DEF Canonical
  <2> QED BY <2>1, <2>2
<1>12. DOMAIN new = 0 .. Height(b)
  BY <1>9, <1>10
<1> QED BY <1>11, <1>12 DEF Canonical, fork

\* A walk does not end on a block that is off the best chain.
LEMMA WalkEndsOnPath ==
    ASSUME queue \in Seq(Block), queue # << >>, NEW b \in Block, Truthful(queue, b),
           Canonical(number, b), NEW c \in Block, OnBestChain(c) \/ Height(c) = 0
    PROVE  c \in Path(b)
<1>1. CASE OnBestChain(c) /\ Cached(queue, Height(c))
  BY <1>1, TruthfulAnswers DEF OnBestChain
<1>2. CASE OnBestChain(c) /\ ~Cached(queue, Height(c))
  BY <1>2 DEF OnBestChain, Canonical, Path
<1>3. CASE Height(c) = 0
  BY <1>3, PathFacts
<1> QED BY <1>1, <1>2, <1>3

\* What a thread finds when no other is inside.
LEMMA MyTurn ==
    ASSUME IInv, InTurn, overlap = "none", up, NEW t \in Thread, Inside(t)
    PROVE  /\ TypeOK /\ WalkOK(t) /\ \A u \in Thread \ {t} : at[u] = "idle"
           /\ diskTip \in Block /\ block[t] \in Block
           /\ queue \in Seq(Block) /\ queue # << >> /\ Len(queue) = Total
           /\ Canonical(diskNumber, diskTip) /\ HalfAdopted(t)
           /\ ~HasNumbered(t) => number = diskNumber
           /\ ~HasQueued(t) => Truthful(queue, diskTip)
           /\ ~(at[t] = "write" /\ adopts[t]) => tip = diskTip
           /\ adopts[t] => Height(block[t]) \in {Height(diskTip), Height(diskTip) + 1}
<1>1. /\ TypeOK /\ WalkOK(t) /\ diskTip \in Block /\ block[t] \in Block
      /\ queue \in Seq(Block) /\ queue # << >>
  BY DEF IInv, Frames, TypeOK
<1>2. \A u \in Thread \ {t} : at[u] = "idle"
  BY DEF IInv, Alone, Inside
<1>3. \A u \in Thread \ {t} : ~HasNumbered(u) /\ ~HasQueued(u) /\ at[u] # "write"
  BY <1>2 DEF HasNumbered, HasQueued
<1>4. /\ Len(queue) = Total /\ Canonical(diskNumber, diskTip) /\ HalfAdopted(t)
      /\ ~HasNumbered(t) => number = diskNumber
      /\ ~HasQueued(t) => Truthful(queue, diskTip)
  BY <1>3 DEF InTurn
<1>5. /\ ~(at[t] = "write" /\ adopts[t]) => tip = diskTip
      /\ adopts[t] => Height(block[t]) \in {Height(diskTip), Height(diskTip) + 1}
  BY <1>3 DEF IInv, Alone
<1> QED BY <1>1, <1>2, <1>4, <1>5

\* What it has to leave.
LEMMA TurnTaken ==
    ASSUME NEW t \in Thread, \A u \in Thread \ {t} : at'[u] = "idle",
           Canonical(diskNumber', diskTip'), Len(queue') = Total, HalfAdopted(t)',
           ~HasNumbered(t)' => number' = diskNumber',
           ~HasQueued(t)' => Truthful(queue', diskTip')
    PROVE  InTurn'
<1>1. \A u \in Thread \ {t} : HalfAdopted(u)'
  BY DEF HalfAdopted, HasNumbered, HasQueued
<1>2. \A u \in Thread : HalfAdopted(u)'
  BY <1>1
<1>3. Canonical(diskNumber, diskTip)' /\ Len(queue)' = Total
  BY DEF Canonical
<1>4. (\A u \in Thread : ~HasNumbered(u)) ' => number' = diskNumber'
  OBVIOUS
<1>5. (\A u \in Thread : ~HasQueued(u))' => Truthful(queue', diskTip')
  OBVIOUS
<1> QED BY <1>2, <1>3, <1>4, <1>5 DEF InTurn

\* The steps that touch neither index nor queue, before the walk.
LEMMA EarlySteps ==
    ASSUME IInv, InTurn, overlap = "none", NEW t \in Thread,
           PutHeader(t) \/ PutBody(t) \/ ReadHeight(t)
    PROVE  InTurn'
<1>1. /\ up /\ Inside(t) /\ at[t] \in {"header", "body", "height"}
      /\ UNCHANGED <<number, queue, disk>>
      /\ \E p \in {"body", "height", "walk"} : Goto(t, p) \/ (Goto(t, "write") /\ ~adopts'[t])
  <2>1. up /\ at[t] \in {"header", "body", "height"} /\ UNCHANGED <<number, queue, disk>>
    BY DEF PutHeader, PutBody, ReadHeight, At, memory
  <2>2. PutHeader(t) \/ PutBody(t) => \E p \in {"body", "height", "walk"} : Goto(t, p)
    BY DEF PutHeader, PutBody
  <2>3. ReadHeight(t) => Goto(t, "walk") \/ (Goto(t, "write") /\ ~adopts'[t])
    BY DEF ReadHeight, IInv, TypeOK
  <2> QED BY <2>1, <2>2, <2>3 DEF Inside
<1>2. /\ \A u \in Thread \ {t} : at[u] = "idle"
      /\ Canonical(diskNumber, diskTip) /\ Len(queue) = Total
      /\ number = diskNumber /\ Truthful(queue, diskTip)
  BY <1>1, MyTurn DEF HasNumbered, HasQueued
<1>3. /\ at'[t] \in {"body", "height", "walk", "write"} /\ (at'[t] = "write" => ~adopts'[t])
      /\ \A u \in Thread \ {t} : at'[u] = "idle"
  BY <1>1, <1>2 DEF Goto, IInv, TypeOK
<1>4. ~HasNumbered(t)' /\ ~HasQueued(t)' /\ HalfAdopted(t)'
  BY <1>3 DEF HasNumbered, HasQueued, HalfAdopted
<1> QED BY <1>1, <1>2, <1>3, <1>4, TurnTaken DEF disk

\* The walk finds the bodies of the path, and ends on the best chain.
LEMMA WalkInTurn ==
    ASSUME IInv, InTurn, overlap = "none", NEW t \in Thread, Walk(t) PROVE InTurn'
<1> DEFINE c == Cursor(t)
<1>1. up /\ Inside(t) /\ at[t] = "walk" /\ UNCHANGED <<memory, disk, block, adopts, shifts>>
  BY DEF Walk, At, Inside
<1>2. /\ TypeOK /\ WalkOK(t) /\ \A u \in Thread \ {t} : at[u] = "idle"
      /\ diskTip \in Block /\ block[t] \in Block
      /\ queue \in Seq(Block) /\ queue # << >> /\ Len(queue) = Total
      /\ Canonical(diskNumber, diskTip)
      /\ number = diskNumber /\ Truthful(queue, diskTip)
  BY <1>1, MyTurn DEF HasNumbered, HasQueued
<1>3. c \in bodies
  <2>1. /\ Parent(block[t]) \in onDisk /\ onDisk \in SUBSET Block
        /\ \A b \in onDisk : b # Genesis => Parent(b) \in onDisk
    BY <1>1, OwnParent DEF IInv, Alone, TypeOK
  <2>2. Path(Parent(block[t])) \subseteq onDisk
    BY <2>1, ParentsMakePaths
  <2>3. /\ Height(block[t]) \in Nat \ {0} /\ Height(c) \in 0 .. Height(block[t]) - 1
        /\ c = Anc(block[t], Height(c)) /\ block[t] # Genesis
    BY <1>2, AdoptedIsFork, PathFacts
  <2> HIDE DEF c
  <2>4. c = Anc(Parent(block[t]), Height(c)) /\ Height(c) \in 0 .. Height(Parent(block[t]))
    BY <1>2, <2>3, ParentFacts
  <2>5. c \in onDisk
    BY <2>2, <2>4 DEF Path
  <2>6. Bodies /\ onDisk \subseteq Block
    BY <1>1, <2>1 DEF IInv, Memory
  <2> QED BY <2>5, <2>6 DEF Bodies
<1>4. OnBestChain(c) \/ Height(c) = 0 => c \in Path(diskTip)
  <2>1. c \in Block
    BY <1>2, WalkFacts
  <2> QED BY <1>2, <2>1, WalkEndsOnPath
<1>5. /\ at'[t] \in {"walk", "number"} /\ \A u \in Thread \ {t} : at'[u] = "idle"
      /\ at'[t] = "number" => (OnBestChain(c) \/ Height(c) = 0) /\ walked' = walked
  BY <1>1, <1>2, <1>3 DEF Walk, Goto, TypeOK
<1>6. at'[t] = "number" => Cursor(t)' \in Path(diskTip)'
  <2>1. walked' = walked => Cursor(t)' = c
    BY <1>1 DEF Cursor
  <2> QED BY <1>1, <1>4, <1>5, <2>1 DEF disk
<1>7. ~HasNumbered(t)' /\ ~HasQueued(t)' /\ HalfAdopted(t)'
  BY <1>5, <1>6 DEF HasNumbered, HasQueued, HalfAdopted
<1> QED BY <1>1, <1>2, <1>5, <1>7, TurnTaken DEF disk, memory

\* The index in memory is that of the disk with the fork written.
LEMMA UpdateNumberInTurn ==
    ASSUME IInv, InTurn, overlap = "none", NEW t \in Thread, UpdateNumber(t) PROVE InTurn'
<1>1. /\ up /\ Inside(t) /\ at[t] = "number" /\ Goto(t, "shift")
      /\ number' = Written(number, Adopted(t)) /\ UNCHANGED <<queue, disk, block, walked>>
  BY DEF UpdateNumber, At, Inside, frames
<1>2. /\ TypeOK /\ \A u \in Thread \ {t} : at[u] = "idle"
      /\ Len(queue) = Total /\ Canonical(diskNumber, diskTip)
      /\ number = diskNumber /\ Truthful(queue, diskTip) /\ Cursor(t) \in Path(diskTip)
  BY <1>1, MyTurn DEF HasNumbered, HasQueued, HalfAdopted
<1>3. at'[t] = "shift" /\ \A u \in Thread \ {t} : at'[u] = "idle"
  BY <1>1, <1>2 DEF Goto, TypeOK
<1>4. Cursor(t)' = Cursor(t) /\ Adopted(t)' = Adopted(t)
  BY <1>1 DEF Cursor, Adopted
<1>5. HasNumbered(t)' /\ ~HasQueued(t)'
  BY <1>3 DEF HasNumbered, HasQueued
<1>6. HalfAdopted(t)'
  BY <1>1, <1>2, <1>3, <1>4, <1>5 DEF HalfAdopted, disk
<1> QED BY <1>1, <1>2, <1>3, <1>5, <1>6, TurnTaken DEF disk

\* The height it reads is that of the tip on disk.
LEMMA ReadShiftInTurn ==
    ASSUME IInv, InTurn, overlap = "none", NEW t \in Thread, ReadShift(t) PROVE InTurn'
<1>1. /\ up /\ Inside(t) /\ at[t] = "shift" /\ Goto(t, "queue")
      /\ shifts' = [shifts EXCEPT ![t] = Height(tip) < Height(block[t])]
      /\ UNCHANGED <<number, queue, disk, block, walked>>
  BY DEF ReadShift, At, Inside, memory
<1>2. /\ TypeOK /\ \A u \in Thread \ {t} : at[u] = "idle"
      /\ Len(queue) = Total /\ Canonical(diskNumber, diskTip) /\ tip = diskTip
      /\ number = Written(diskNumber, Adopted(t))
      /\ Truthful(queue, diskTip) /\ Cursor(t) \in Path(diskTip)
  BY <1>1, MyTurn DEF HasNumbered, HasQueued, HalfAdopted
<1>3. /\ at'[t] = "queue" /\ \A u \in Thread \ {t} : at'[u] = "idle"
      /\ shifts'[t] = (Height(diskTip) < Height(block[t]))
  BY <1>1, <1>2 DEF Goto, TypeOK
<1>4. Cursor(t)' = Cursor(t) /\ Adopted(t)' = Adopted(t)
  BY <1>1 DEF Cursor, Adopted
<1>5. HasNumbered(t)' /\ ~HasQueued(t)'
  BY <1>3 DEF HasNumbered, HasQueued
<1>6. HalfAdopted(t)'
  BY <1>1, <1>2, <1>3, <1>4, <1>5 DEF HalfAdopted, disk
<1> QED BY <1>1, <1>2, <1>3, <1>5, <1>6, TurnTaken DEF disk

\* The fork goes into the queue, which stays truthful.
LEMMA UpdateQueueInTurn ==
    ASSUME IInv, InTurn, overlap = "none", NEW t \in Thread, UpdateQueue(t) PROVE InTurn'
<1>1. /\ up /\ Inside(t) /\ at[t] = "queue" /\ Goto(t, "status")
      /\ queue' = UpdatedQueue(IF shifts[t] THEN LeftShift(queue) ELSE queue, Adopted(t), Total)
      /\ UNCHANGED <<number, disk, frames>>
  BY DEF UpdateQueue, At, Inside
<1>2. /\ TypeOK /\ WalkOK(t) /\ \A u \in Thread \ {t} : at[u] = "idle"
      /\ diskTip \in Block /\ queue \in Seq(Block) /\ queue # << >> /\ Len(queue) = Total
      /\ Canonical(diskNumber, diskTip) /\ number = Written(diskNumber, Adopted(t))
      /\ Truthful(queue, diskTip) /\ Cursor(t) \in Path(diskTip)
      /\ shifts[t] = (Height(diskTip) < Height(block[t]))
  BY <1>1, MyTurn DEF HasNumbered, HasQueued, HalfAdopted
<1>3. Height(block[t]) \in {Height(diskTip), Height(diskTip) + 1}
  <2>1. adopts[t]
    BY <1>1 DEF IInv, Frames
  <2> QED BY <1>1, <2>1, MyTurn
<1>4. /\ block[t] \in Block /\ block[t] # Genesis
      /\ Height(Cursor(t)) \in 0 .. Height(block[t]) - 1
      /\ Anc(block[t], Height(Cursor(t))) \in Path(diskTip)
      /\ Adopted(t) = ForkBlocks(block[t], Height(Cursor(t)))
  BY <1>2, AdoptedIsFork
<1>5. Truthful(queue', block[t]) /\ Len(queue') = Total
  <2> DEFINE b == block[t]
             c == Height(Cursor(t))
             p == IF Height(diskTip) < Height(b) THEN LeftShift(queue) ELSE queue
  <2>1. queue' = UpdatedQueue(p, ForkBlocks(b, c), Len(queue))
    BY <1>1, <1>2, <1>4
  <2>2. /\ b \in Block /\ b # Genesis /\ Height(b) \in {Height(diskTip), Height(diskTip) + 1}
        /\ c \in 0 .. Height(b) - 1 /\ Anc(b, c) \in Path(diskTip)
    BY <1>3, <1>4
  <2> HIDE DEF b, c
  <2>3. /\ Truthful(UpdatedQueue(p, ForkBlocks(b, c), Len(queue)), b)
        /\ Len(UpdatedQueue(p, ForkBlocks(b, c), Len(queue))) = Len(queue)
    BY <1>2, <2>2, TruthfulAfterFork
  <2> QED BY <1>2, <2>1, <2>3 DEF b
<1>6. at'[t] = "status" /\ \A u \in Thread \ {t} : at'[u] = "idle"
  BY <1>1, <1>2 DEF Goto, TypeOK
<1>7. Cursor(t)' = Cursor(t) /\ Adopted(t)' = Adopted(t)
  BY <1>1 DEF Cursor, Adopted, frames
<1>8. HasNumbered(t)' /\ HasQueued(t)'
  BY <1>6 DEF HasNumbered, HasQueued
<1>9. HalfAdopted(t)'
  BY <1>1, <1>2, <1>5, <1>6, <1>7, <1>8 DEF HalfAdopted, disk, frames
<1> QED BY <1>1, <1>2, <1>5, <1>6, <1>8, <1>9, TurnTaken DEF disk

\* The tip in memory is none of the index's or the queue's business.
LEMMA SaveStatusInTurn ==
    ASSUME IInv, InTurn, overlap = "none", NEW t \in Thread, SaveStatus(t) PROVE InTurn'
<1>1. /\ up /\ Inside(t) /\ at[t] = "status" /\ Goto(t, "write") /\ adopts[t]
      /\ UNCHANGED <<number, queue, disk, frames>>
  BY DEF SaveStatus, At, Inside, IInv, Frames
<1>2. /\ TypeOK /\ \A u \in Thread \ {t} : at[u] = "idle"
      /\ Len(queue) = Total /\ Canonical(diskNumber, diskTip)
      /\ number = Written(diskNumber, Adopted(t))
      /\ Truthful(queue, block[t]) /\ Cursor(t) \in Path(diskTip)
  BY <1>1, MyTurn DEF HasNumbered, HasQueued, HalfAdopted
<1>3. at'[t] = "write" /\ adopts'[t] /\ \A u \in Thread \ {t} : at'[u] = "idle"
  BY <1>1, <1>2 DEF Goto, TypeOK, frames
<1>4. Cursor(t)' = Cursor(t) /\ Adopted(t)' = Adopted(t)
  BY <1>1 DEF Cursor, Adopted, frames
<1>5. HasNumbered(t)' /\ HasQueued(t)'
  BY <1>3 DEF HasNumbered, HasQueued
<1>6. HalfAdopted(t)'
  BY <1>1, <1>2, <1>3, <1>4, <1>5 DEF HalfAdopted, disk, frames
<1> QED BY <1>1, <1>2, <1>3, <1>5, <1>6, TurnTaken DEF disk

\* The batch makes the disk what memory is.
LEMMA WriteBatchInTurn ==
    ASSUME IInv, InTurn, overlap = "none", NEW t \in Thread, WriteBatch(t) PROVE InTurn'
<1>1. /\ up /\ Inside(t) /\ at[t] = "write" /\ Goto(t, "idle")
      /\ diskNumber' = IF adopts[t] THEN Written(diskNumber, Adopted(t)) ELSE diskNumber
      /\ diskTip' = IF adopts[t] THEN block[t] ELSE diskTip
      /\ UNCHANGED <<number, queue>>
  BY DEF WriteBatch, At, Inside, memory
<1>2. /\ TypeOK /\ WalkOK(t) /\ \A u \in Thread \ {t} : at[u] = "idle"
      /\ diskTip \in Block /\ Len(queue) = Total
      /\ Canonical(diskNumber, diskTip)
  BY <1>1, MyTurn
<1>3. at'[t] = "idle" /\ \A u \in Thread \ {t} : at'[u] = "idle"
  BY <1>1, <1>2 DEF Goto, TypeOK
<1>4. ~HasNumbered(t)' /\ ~HasQueued(t)' /\ HalfAdopted(t)'
  BY <1>3 DEF HasNumbered, HasQueued, HalfAdopted
<1>5. /\ Canonical(diskNumber', diskTip') /\ number' = diskNumber'
      /\ Truthful(queue', diskTip')
  <2>1. CASE adopts[t]
    <3>1. /\ number = Written(diskNumber, Adopted(t)) /\ Cursor(t) \in Path(diskTip)
          /\ Truthful(queue, block[t])
          /\ Height(block[t]) \in {Height(diskTip), Height(diskTip) + 1}
      BY <1>1, <2>1, MyTurn DEF HasNumbered, HasQueued, HalfAdopted
    <3>2. /\ block[t] \in Block /\ block[t] # Genesis
          /\ Height(Cursor(t)) \in 0 .. Height(block[t]) - 1
          /\ Anc(block[t], Height(Cursor(t))) \in Path(diskTip)
          /\ Adopted(t) = ForkBlocks(block[t], Height(Cursor(t)))
      BY <1>2, <3>1, AdoptedIsFork
    <3>3. Canonical(Written(diskNumber, Adopted(t)), block[t])
      BY <1>2, <3>1, <3>2, WrittenCanonical
    <3> QED BY <1>1, <2>1, <3>1, <3>3
  <2>2. CASE ~adopts[t]
    <3>1. number = diskNumber /\ Truthful(queue, diskTip)
      BY <1>1, <2>2, MyTurn DEF HasNumbered, HasQueued
    <3> QED BY <1>1, <1>2, <2>2, <3>1
  <2> QED BY <2>1, <2>2
<1> QED BY <1>1, <1>2, <1>3, <1>4, <1>5, TurnTaken

\* A thread comes in when nobody is inside.
LEMMA BeginInTurn ==
    ASSUME IInv, InTurn, overlap' = "none", NEW t \in Thread, NEW b \in Block \ {Genesis},
           Begin(t, b)
    PROVE  InTurn'
<1>1. /\ up /\ at[t] = "idle" /\ Goto(t, "header") /\ overlap = "none"
      /\ \A u \in Thread : at[u] = "idle"
      /\ UNCHANGED <<number, queue, disk>>
  BY DEF Begin, At, Overlaps, memory
<1>2. \A u \in Thread : ~HasNumbered(u) /\ ~HasQueued(u)
  BY <1>1 DEF HasNumbered, HasQueued
<1>3. /\ Canonical(diskNumber, diskTip) /\ Len(queue) = Total
      /\ number = diskNumber /\ Truthful(queue, diskTip)
  BY <1>1, <1>2 DEF InTurn
<1>4. at'[t] = "header" /\ \A u \in Thread \ {t} : at'[u] = "idle"
  BY <1>1 DEF Goto, IInv, TypeOK
<1>5. ~HasNumbered(t)' /\ ~HasQueued(t)' /\ HalfAdopted(t)'
  BY <1>4 DEF HasNumbered, HasQueued, HalfAdopted
<1> QED BY <1>1, <1>3, <1>4, <1>5, TurnTaken DEF disk

\* A process can only start again on genesis, and has nothing but genesis in its queue.
LEMMA RestartInTurn ==
    ASSUME IInv, InTurn, overlap = "none", Restart PROVE InTurn'
<1>1. /\ Canonical(diskNumber, diskTip) /\ diskTip \in Block /\ Startable
      /\ number' = diskNumber /\ queue' = Filled /\ UNCHANGED <<disk, at, frames>>
  BY DEF InTurn, Restart, IInv, TypeOK
<1>2. /\ Filled \in Seq({b \in Block : Height(b) \in 0 .. Height(diskTip)})
      /\ Filled # << >> /\ Len(Filled) = Total
      /\ \E x \in DOMAIN Filled : Filled[x] = diskTip
  BY <1>1, FilledFacts
<1>3. diskTip = Genesis /\ \A x \in DOMAIN Filled : Filled[x] = Genesis
  BY <1>1, <1>2 DEF Startable, KeepsHash
<1>4. Len(Filled) \in DOMAIN Filled
  BY <1>2, EmptySeq, LenProperties
<1>5. Truthful(Filled, diskTip)
  <2>1. Height(Genesis) = 0 /\ Genesis \in Path(Genesis) /\ Len(Filled) \in Nat
    BY <1>2, PathFacts, BlockAssumption, LenProperties
  <2>2. Lag(Filled, Len(Filled), diskTip) = 0
    BY <1>3, <1>4, <2>1 DEF Lag
  <2> QED BY <1>3, <2>1, <2>2 DEF Truthful
<1>6. \A u \in Thread : at'[u] = "idle"
  BY <1>1 DEF Restart, IInv, Frames, Inside
<1>7. \A u \in Thread : HalfAdopted(u)'
  BY <1>6 DEF HalfAdopted, HasNumbered, HasQueued
<1>8. Canonical(diskNumber', diskTip') /\ Truthful(queue', diskTip') /\ Len(queue') = Total
  BY <1>1, <1>2, <1>5 DEF disk
<1>9. number' = diskNumber'
  BY <1>1 DEF disk
<1> QED BY <1>7, <1>8, <1>9 DEF InTurn

\* No step of threads that take turns, and no loss of the process between them,
\* disturbs that.
LEMMA InTurnStep == ASSUME IInv, InTurn, [Next]_vars PROVE InTurn'
<1> SUFFICES ASSUME overlap' = "none" PROVE InTurn'
  BY DEF InTurn
<1>1. CASE UNCHANGED vars
  <2>1. UNCHANGED <<headers, bodies, number, queue, tip, onDisk, diskNumber, diskTip, up, at,
                    block, walked, adopts, shifts, overlap>>
    BY <1>1 DEF vars, memory, disk, frames
  <2>2. \A t \in Thread : HalfAdopted(t)' <=> HalfAdopted(t)
    BY <2>1 DEF HalfAdopted, HasNumbered, HasQueued, Cursor, Adopted
  <2>3. \A t \in Thread : /\ HasNumbered(t)' <=> HasNumbered(t)
                          /\ HasQueued(t)' <=> HasQueued(t)
    BY <2>1 DEF HasNumbered, HasQueued
  <2> QED BY <2>1, <2>2, <2>3 DEF InTurn
<1>2. ASSUME NEW t \in Thread, NEW b \in Block \ {Genesis}, Begin(t, b) PROVE InTurn'
  BY <1>2, BeginInTurn
<1>3. ASSUME Next, ~(\E t \in Thread : \E b \in Block \ {Genesis} : Begin(t, b))
      PROVE  overlap = "none"
  BY <1>3 DEF Next, PutHeader, PutBody, ReadHeight, Walk, UpdateNumber, ReadShift, UpdateQueue,
              SaveStatus, WriteBatch, Crash, Restart, Loses
<1>4. ASSUME NEW t \in Thread, overlap = "none",
             \/ PutHeader(t) \/ PutBody(t) \/ ReadHeight(t) \/ Walk(t) \/ UpdateNumber(t)
             \/ ReadShift(t) \/ UpdateQueue(t) \/ SaveStatus(t) \/ WriteBatch(t)
      PROVE  InTurn'
  BY <1>4, EarlySteps, WalkInTurn, UpdateNumberInTurn, ReadShiftInTurn, UpdateQueueInTurn,
     SaveStatusInTurn, WriteBatchInTurn
<1>5. ASSUME Crash, overlap = "none" PROVE InTurn'
  BY <1>5 DEF Crash, InTurn, disk
<1>6. ASSUME Restart, overlap = "none" PROVE InTurn'
  BY <1>6, RestartInTurn
<1> QED BY <1>1, <1>2, <1>3, <1>4, <1>5, <1>6 DEF Next

\* Before the first insert nobody is inside, and memory and disk are a chain of
\* genesis alone.
LEMMA InitInTurn == ASSUME Init PROVE InTurn
<1>1. Genesis \in Block /\ Height(Genesis) = 0 /\ Genesis \in Path(Genesis) /\ Anc(Genesis, 0) = Genesis
  BY PathFacts, BlockAssumption
<1>2. Len(queue) = Total /\ DOMAIN queue = 1 .. Total /\ \A x \in DOMAIN queue : queue[x] = Genesis
  BY ConcurrentAssumption DEF Init
<1>3. Canonical(diskNumber, diskTip)
  BY <1>1 DEF Init, Canonical
<1>4. Truthful(queue, diskTip)
  <2>1. diskTip = Genesis /\ Len(queue) \in DOMAIN queue /\ Len(queue) \in Nat
    BY <1>2, ConcurrentAssumption DEF Init
  <2>2. Lag(queue, Len(queue), diskTip) = 0
    BY <1>1, <1>2, <2>1 DEF Lag
  <2> QED BY <1>1, <1>2, <2>1, <2>2 DEF Truthful
<1>5. \A t \in Thread : HalfAdopted(t)
  BY DEF Init, HalfAdopted, HasNumbered, HasQueued
<1> QED BY <1>2, <1>3, <1>4, <1>5 DEF Init, InTurn

\* As long as threads take turns, whatever forks they adopt and whenever the process
\* is lost, the disk holds a whole chain with its index, and no walk panics.
THEOREM AloneStaysWhole == Spec => []AloneIsWhole
<1>1. IInv /\ InTurn => AloneIsWhole
  <2> SUFFICES ASSUME IInv, InTurn, overlap = "none"
               PROVE  /\ Path(diskTip) \subseteq onDisk
                      /\ \A k \in 0 .. Height(diskTip) : diskNumber[k] = Anc(diskTip, k)
                      /\ \A t \in Thread : at[t] # "dead"
                      /\ AtRest => tip = diskTip /\ number = diskNumber /\ headers = onDisk
    BY DEF AloneIsWhole
  <2>1. Path(diskTip) \subseteq onDisk
    <3>1. /\ onDisk \in SUBSET Block /\ diskTip \in onDisk
          /\ \A b \in onDisk : b # Genesis => Parent(b) \in onDisk
      BY DEF IInv, Alone, Durable, TypeOK
    <3> QED BY <3>1, ParentsMakePaths
  <2>2. \A k \in 0 .. Height(diskTip) : diskNumber[k] = Anc(diskTip, k)
    BY DEF InTurn, Canonical
  <2>3. \A t \in Thread : at[t] # "dead"
    <3>1. CASE up
      BY <3>1 DEF InTurn, HalfAdopted
    <3>2. CASE ~up
      BY <3>2 DEF IInv, Frames, Inside
    <3> QED BY <3>1, <3>2
  <2>4. ASSUME AtRest PROVE tip = diskTip /\ number = diskNumber /\ headers = onDisk
    <3>1. up /\ \A t \in Thread : at[t] = "idle"
      BY <2>4 DEF AtRest
    <3>2. tip = diskTip
      BY <3>1 DEF IInv, Alone
    <3>3. number = diskNumber
      BY <3>1 DEF InTurn, HasNumbered
    <3>4. headers = onDisk
      <4>1. headers \subseteq Block /\ onDisk \subseteq Block /\ Headers
        BY <3>1 DEF IInv, TypeOK, Memory
      <4>2. \A b \in Block : b \in headers <=> b \in onDisk
        BY <3>1, <4>1 DEF Headers, HasPutHeader
      <4> QED BY <4>1, <4>2
    <3> QED BY <3>2, <3>3, <3>4
  <2> QED BY <2>1, <2>2, <2>3, <2>4
<1> QED BY <1>1, Invariance, InitInTurn, InTurnStep, PTL DEF Spec

=============================================================================
