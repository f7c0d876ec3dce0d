------------------------- MODULE BlockIntake_proofs -------------------------
(***************************************************************************)
(* The intake of blocks by several threads is safe for every tree of       *)
(* blocks and any number of them, with NTP servers that fail or differ and *)
(* threads that panic.                                                     *)
(*                                                                         *)
(* The argument: the store only grows, so a parent once found stays found. *)
(* Everything a thread takes from a queue to insert has its parent in the  *)
(* store: the checks put a block into future_blocks only after its parent  *)
(* was found, and mario takes the blocks that wait for a hash only when    *)
(* that hash has been sent, which is after insert_at.  So neither loop     *)
(* ever gets as far as the lock of unknown_parent; and pending inserts     *)
(* only what was due by one reading of the clock, so that it asks for      *)
(* future_blocks only when the next reading is earlier.                    *)
(***************************************************************************)
EXTENDS BlockIntake, BlockTreeFacts

\* The blocks of a sequence.
In(s) == {s[i] : i \in 1 .. Len(s)}

\* What a thread knows of the block it inserts, by how far it has come.
Ready(t) ==
    LET b == block[t]
    IN /\ at[t] \in {"future", "insert", "send"} => Parent(b) \in known
       /\ at[t] \in {"insert", "send"} => Ts[b] <= now
       /\ at[t] = "send" => b \in known
       /\ t # "main" => at[t] # "orphan" /\ (at[t] = "check" => Parent(b) \in known)
       /\ t = "pending" => /\ at[t] \in {"check", "future"} => Ts[b] <= asOf
                           /\ at[t] = "future" => Ts[b] > asOf - Drift

ThreadsReady == \A t \in Thread : Ready(t)

QueuesReady ==
    /\ \A b \in In(future_blocks) \union In(copy) \union In(left) \union batch :
          Parent(b) \in known
    /\ In(channel) \subseteq known
    /\ asOf <= now

IInv ==
    /\ TypeOK
    /\ Genesis \in known
    /\ KnownClosed
    /\ NeverEarly
    /\ QueuesReady
    /\ ThreadsReady

-----------------------------------------------------------------------------
(* Queues.                                                                 *)

\* What is appended, taken from the front or selected.
LEMMA QueueFacts ==
    ASSUME NEW s \in Seq(Block)
    PROVE  /\ In(s) \subseteq Block
           /\ \A b \in Block : /\ Append(s, b) \in Seq(Block)
                               /\ In(Append(s, b)) = In(s) \union {b}
           /\ s # << >> => /\ Head(s) \in In(s)
                           /\ Tail(s) \in Seq(Block)
                           /\ In(Tail(s)) \subseteq In(s)
<1>1. Len(s) \in Nat /\ \A i \in 1 .. Len(s) : s[i] \in Block
  BY LenProperties, ElementOfSeq
<1>2. ASSUME NEW b \in Block
      PROVE  Append(s, b) \in Seq(Block) /\ In(Append(s, b)) = In(s) \union {b}
  <2>1. /\ Append(s, b) \in Seq(Block) /\ Len(Append(s, b)) = Len(s) + 1
        /\ \A i \in 1 .. Len(s) : Append(s, b)[i] = s[i]
        /\ Append(s, b)[Len(s) + 1] = b
    BY <1>1, AppendProperties
  <2>2. \A i \in 1 .. Len(s) + 1 : i \in 1 .. Len(s) \/ i = Len(s) + 1
    BY <1>1
  <2>3. Len(s) + 1 \in 1 .. Len(s) + 1 /\ \A i \in 1 .. Len(s) : i \in 1 .. Len(s) + 1
    BY <1>1
  <2> QED BY <2>1, <2>2, <2>3 DEF In
<1>3. ASSUME s # << >>
      PROVE  Head(s) \in In(s) /\ Tail(s) \in Seq(Block) /\ In(Tail(s)) \subseteq In(s)
  <2>1. /\ Head(s) = s[1] /\ 1 \in 1 .. Len(s)
        /\ Tail(s) \in Seq(Block) /\ Len(Tail(s)) = Len(s) - 1
        /\ \A i \in 1 .. Len(Tail(s)) : Tail(s)[i] = s[i + 1]
    BY <1>1, <1>3, HeadTailProperties, EmptySeq
  <2>2. \A i \in 1 .. Len(Tail(s)) : i + 1 \in 1 .. Len(s)
    BY <1>1, <2>1
  <2> QED BY <2>1, <2>2 DEF In
<1> QED BY <1>1, <1>2, <1>3 DEF In

\* Parent(b) is a block even for genesis, whose parent no thread looks up.
LEMMA GenesisParent == Parent(Genesis) = Genesis
BY SubSeqEmpty, EmptySeq DEF Parent, Anc, Height, Genesis

\* The empty queue.
LEMMA NothingIn == In(<< >>) = {} /\ << >> \in Seq(Block)
BY EmptySeq DEF In

-----------------------------------------------------------------------------
(* Threads.                                                                *)

\* What the other threads know stays true while the store and the clock grow.
LEMMA OthersStayReady ==
    ASSUME TypeOK, ThreadsReady, NEW t \in Thread,
           \A u \in Thread \ {t} : at'[u] = at[u] /\ block'[u] = block[u],
           known \subseteq known', now' \in Nat, now <= now', Ready(t)',
           UNCHANGED loops \/ asOf' = asOf \/ t = "pending"
    PROVE  ThreadsReady'
<1> SUFFICES ASSUME NEW u \in Thread \ {t} PROVE Ready(u)'
  BY DEF ThreadsReady
<1> USE DEF loops
<1>1. Ready(u) /\ at'[u] = at[u] /\ block'[u] = block[u]
  BY DEF ThreadsReady
<1>2. block[u] \in Block /\ Ts[block[u]] \in Nat /\ now \in Nat
  BY BodyAssumption DEF TypeOK
<1>3. Ts[block[u]] <= now => Ts[block[u]] <= now'
  BY <1>2
<1>4. u = "pending" => asOf' = asOf
  OBVIOUS
<1> QED BY <1>1, <1>3, <1>4 DEF Ready

\* A thread that moves on with its block.
LEMMA GoesFacts ==
    ASSUME TypeOK, NEW t \in Thread, NEW p \in Place, Goes(t, p)
    PROVE  /\ at' \in [Thread -> Place] /\ at'[t] = p /\ block' = block
           /\ \A u \in Thread \ {t} : at'[u] = at[u] /\ block'[u] = block[u]
BY DEF TypeOK, Goes, Moves

\* A thread that begins to insert.
LEMMA StartsFacts ==
    ASSUME TypeOK, NEW t \in Thread, NEW b \in Block, Starts(t, b)
    PROVE  /\ at' \in [Thread -> Place] /\ at'[t] = "check"
           /\ block' \in [Thread -> Block] /\ block'[t] = b
           /\ \A u \in Thread \ {t} : at'[u] = at[u] /\ block'[u] = block[u]
BY DEF TypeOK, Starts, Place

\* A thread that has inserted its block, or failed to.
LEMMA ReturnsFacts ==
    ASSUME TypeOK, NEW t \in Thread, NEW ok \in BOOLEAN, Returns(t, ok)
    PROVE  /\ at' \in [Thread -> Place] /\ at'[t] \in {"idle", "next", "dead"}
           /\ t = "main" => at'[t] = "idle"
           /\ block' \in [Thread -> Block]
           /\ \A u \in Thread \ {t} : at'[u] = at[u] /\ block'[u] = block[u]
           /\ Ready(t)'
<1>1. /\ at' \in [Thread -> Place] /\ at'[t] \in {"idle", "next", "dead"}
      /\ t = "main" => at'[t] = "idle"
      /\ \A u \in Thread \ {t} : at'[u] = at[u]
  BY DEF TypeOK, Returns, Ends, Moves, Place
<1>2. block' \in [Thread -> Block] /\ \A u \in Thread \ {t} : block'[u] = block[u]
  BY BlockAssumption DEF TypeOK, Returns, Ends
<1> QED BY <1>1, <1>2 DEF Ready

-----------------------------------------------------------------------------
(* insert.                                                                 *)

\* A block that misses its parent comes from the network; a block put off has
\* its parent; a block to write has its parent and is due.
LEMMA CheckSafe ==
    ASSUME IInv, NEW t \in Thread, Check(t)
    PROVE  IInv'
<1>1. /\ TypeOK /\ ThreadsReady /\ at[t] = "check"
      /\ block[t] \in Block /\ now \in Nat /\ Ts[block[t]] \in Nat
      /\ UNCHANGED <<now, known, queues, loops, peers>>
  BY BodyAssumption DEF IInv, TypeOK, Check
<1>2. /\ t # "main" => Parent(block[t]) \in known
      /\ t = "pending" => Ts[block[t]] <= asOf
  BY <1>1 DEF ThreadsReady, Ready
<1>3. PICK r \in Readings :
         \/ Returns(t, FALSE)
         \/ Goes(t, "orphan") /\ Parent(block[t]) \notin known
         \/ Goes(t, "future") /\ Parent(block[t]) \in known /\ Ts[block[t]] > r
         \/ Goes(t, "insert") /\ Parent(block[t]) \in known /\ ~(Ts[block[t]] > r)
  BY DEF Check
<1>4. /\ r \in Nat /\ r <= now /\ r + Drift >= now
      /\ Drift \in Nat /\ asOf \in Nat /\ asOf <= now /\ asOf' = asOf
  BY <1>1, IntakeAssumption DEF Readings, IInv, TypeOK, QueuesReady, loops
<1>5. /\ at' \in [Thread -> Place] /\ block' \in [Thread -> Block]
      /\ at'["main"] \notin {"next", "write"}
      /\ at'["mario"] # "write"
      /\ \A u \in Thread \ {t} : at'[u] = at[u] /\ block'[u] = block[u]
      /\ Ready(t)'
  <2>1. CASE Returns(t, FALSE)
    BY <1>1, <2>1, ReturnsFacts DEF TypeOK, Thread
  <2>2. CASE Goes(t, "orphan") /\ Parent(block[t]) \notin known
    <3>1. /\ at' \in [Thread -> Place] /\ at'[t] = "orphan" /\ block' = block
          /\ \A u \in Thread \ {t} : at'[u] = at[u] /\ block'[u] = block[u]
      BY <1>1, <2>2, GoesFacts DEF Place
    <3>2. t = "main"
      BY <1>2, <2>2
    <3> QED BY <1>1, <3>1, <3>2 DEF TypeOK, Thread, Ready
  <2>3. CASE Goes(t, "future") /\ Parent(block[t]) \in known /\ Ts[block[t]] > r
    <3>1. /\ at' \in [Thread -> Place] /\ at'[t] = "future" /\ block' = block
          /\ \A u \in Thread \ {t} : at'[u] = at[u] /\ block'[u] = block[u]
      BY <1>1, <2>3, GoesFacts DEF Place
    <3>2. Ts[block[t]] > asOf - Drift
      BY <1>1, <1>4, <2>3
    <3> QED BY <1>1, <1>2, <1>4, <2>3, <3>1, <3>2 DEF TypeOK, Thread, Ready
  <2>4. CASE Goes(t, "insert") /\ Parent(block[t]) \in known /\ ~(Ts[block[t]] > r)
    <3>1. /\ at' \in [Thread -> Place] /\ at'[t] = "insert" /\ block' = block
          /\ \A u \in Thread \ {t} : at'[u] = at[u] /\ block'[u] = block[u]
      BY <1>1, <2>4, GoesFacts DEF Place
    <3>2. Ts[block[t]] <= now
      BY <1>1, <1>4, <2>4
    <3> QED BY <1>1, <2>4, <3>1, <3>2 DEF TypeOK, Thread, Ready
  <2> QED BY <1>3, <2>1, <2>2, <2>3, <2>4
<1>6. ThreadsReady'
  BY <1>1, <1>5, OthersStayReady
<1> QED BY <1>1, <1>5, <1>6
        DEF IInv, TypeOK, KnownClosed, NeverEarly, QueuesReady, queues, loops, peers

\* A block dropped.
LEMMA NtpErrorSafe ==
    ASSUME IInv, NEW t \in Thread, NtpError(t)
    PROVE  IInv'
<1>1. /\ TypeOK /\ ThreadsReady /\ now \in Nat
      /\ Returns(t, FALSE)
      /\ UNCHANGED <<now, known, queues, loops, peers>>
  BY DEF IInv, TypeOK, NtpError
<1>2. /\ at' \in [Thread -> Place] /\ block' \in [Thread -> Block]
      /\ at'["main"] \notin {"next", "write"}
      /\ at'["mario"] # "write"
      /\ \A u \in Thread \ {t} : at'[u] = at[u] /\ block'[u] = block[u]
      /\ Ready(t)'
  BY <1>1, ReturnsFacts DEF TypeOK, Thread
<1>3. ThreadsReady'
  BY <1>1, <1>2, OthersStayReady
<1> QED BY <1>1, <1>2, <1>3
        DEF IInv, TypeOK, KnownClosed, NeverEarly, QueuesReady, queues, loops, peers

\* Only the main thread gets here.
LEMMA PushUnknownParentSafe ==
    ASSUME IInv, NEW t \in Thread, PushUnknownParent(t)
    PROVE  IInv'
<1>1. /\ TypeOK /\ ThreadsReady /\ now \in Nat /\ block[t] \in Block
      /\ Returns(t, FALSE) /\ at[t] = "orphan"
      /\ unknown_parent' = unknown_parent \union {block[t]}
      /\ wanted' = IF t = "main" THEN wanted \union {Parent(block[t])} ELSE wanted
      /\ UNCHANGED <<now, known, future_blocks, channel, loops, calm>>
  BY DEF IInv, TypeOK, PushUnknownParent
<1>2. /\ at' \in [Thread -> Place] /\ block' \in [Thread -> Block]
      /\ at'["main"] \notin {"next", "write"}
      /\ at'["mario"] # "write"
      /\ \A u \in Thread \ {t} : at'[u] = at[u] /\ block'[u] = block[u]
      /\ Ready(t)'
  BY <1>1, ReturnsFacts DEF TypeOK, Thread
<1>3. ThreadsReady'
  BY <1>1, <1>2, OthersStayReady
<1>4. Parent(block[t]) \in Block
  <2>1. CASE block[t] = Genesis
    BY <2>1, BlockAssumption, GenesisParent
  <2>2. CASE block[t] # Genesis
    BY <1>1, <2>2, ParentFacts
  <2> QED BY <2>1, <2>2
<1>5. unknown_parent' \subseteq Block /\ wanted' \subseteq Block
  BY <1>1, <1>4 DEF TypeOK
<1> QED BY <1>1, <1>2, <1>3, <1>5
        DEF IInv, TypeOK, KnownClosed, NeverEarly, QueuesReady, loops

\* The block has its parent.
LEMMA PushFutureBlockSafe ==
    ASSUME IInv, NEW t \in Thread, PushFutureBlock(t)
    PROVE  IInv'
<1>1. /\ TypeOK /\ ThreadsReady /\ QueuesReady /\ now \in Nat /\ block[t] \in Block
      /\ Returns(t, FALSE) /\ at[t] = "future"
      /\ future_blocks' = Append(future_blocks, block[t])
      /\ UNCHANGED <<now, known, unknown_parent, channel, loops, peers>>
  BY DEF IInv, TypeOK, PushFutureBlock
<1>2. /\ at' \in [Thread -> Place] /\ block' \in [Thread -> Block]
      /\ at'["main"] \notin {"next", "write"}
      /\ at'["mario"] # "write"
      /\ \A u \in Thread \ {t} : at'[u] = at[u] /\ block'[u] = block[u]
      /\ Ready(t)'
  BY <1>1, ReturnsFacts DEF TypeOK, Thread
<1>3. ThreadsReady'
  BY <1>1, <1>2, OthersStayReady
<1>4. Parent(block[t]) \in known
  BY <1>1 DEF ThreadsReady, Ready
<1>5. /\ future_blocks' \in Seq(Block)
      /\ In(future_blocks') = In(future_blocks) \union {block[t]}
  BY <1>1, QueueFacts DEF TypeOK
<1>6. QueuesReady'
  BY <1>1, <1>4, <1>5 DEF QueuesReady, loops
<1> QED BY <1>1, <1>2, <1>3, <1>5, <1>6
        DEF IInv, TypeOK, KnownClosed, NeverEarly, loops, peers

\* The path of a new block is that of its parent and the block.
LEMMA StoreFacts ==
    ASSUME TypeOK, KnownClosed, NeverEarly, NEW b \in Block,
           Parent(b) \in known, Ts[b] <= now
    PROVE  /\ \A c \in known \union {b} : Path(c) \subseteq known \union {b}
           /\ \A c \in known \union {b} : c = Genesis \/ Ts[c] <= now
<1>1. Path(b) \subseteq known \union {b}
  <2>1. CASE b = Genesis
    <3>1. Path(b) = {Genesis}
      <4>1. Height(b) = 0 /\ 0 .. 0 = {0} /\ Anc(b, 0) = Genesis
        BY <2>1, PathFacts, BlockAssumption
      <4> QED BY <4>1 DEF Path
    <3> QED BY <2>1, <3>1
  <2>2. CASE b # Genesis
    BY <2>2, ParentFacts DEF KnownClosed
  <2> QED BY <2>1, <2>2
<1> QED BY <1>1 DEF KnownClosed, NeverEarly

\* insert_at.
LEMMA InsertAtSafe ==
    ASSUME IInv, NEW t \in Thread, InsertAt(t)
    PROVE  IInv'
<1>1. /\ TypeOK /\ ThreadsReady /\ QueuesReady /\ KnownClosed /\ NeverEarly
      /\ now \in Nat /\ block[t] \in Block
      /\ Goes(t, "send") /\ at[t] = "insert"
      /\ known' = known \union {block[t]}
      /\ UNCHANGED <<now, queues, loops, peers>>
  BY DEF IInv, TypeOK, InsertAt
<1>2. Parent(block[t]) \in known /\ Ts[block[t]] <= now
  BY <1>1 DEF ThreadsReady, Ready
<1>3. KnownClosed' /\ NeverEarly'
  BY <1>1, <1>2, StoreFacts DEF KnownClosed, NeverEarly
<1>4. /\ at' \in [Thread -> Place] /\ at'[t] = "send" /\ block' = block
      /\ \A u \in Thread \ {t} : at'[u] = at[u] /\ block'[u] = block[u]
  BY <1>1, GoesFacts DEF Place
<1>5. Ready(t)'
  BY <1>1, <1>2, <1>4 DEF Ready
<1>6. ThreadsReady'
  BY <1>1, <1>4, <1>5, OthersStayReady
<1>7. TypeOK'
  BY <1>1, <1>4 DEF TypeOK, queues, loops, peers, Thread
<1> QED BY <1>1, <1>3, <1>6, <1>7 DEF IInv, QueuesReady, queues, loops

\* A thread that ends leaves its locks and its blocks; the process, everything.
LEMMA PanicsFacts ==
    ASSUME IInv, NEW t \in Thread, Panics(t), known \subseteq known', known' \subseteq Block,
           UNCHANGED <<now, peers>>
    PROVE  TypeOK' /\ QueuesReady' /\ ThreadsReady'
<1>1. TypeOK /\ ThreadsReady /\ QueuesReady /\ now \in Nat
  BY DEF IInv, TypeOK
<1>2. CASE t = "main"
  <2>1. /\ at' = [u \in Thread |-> "dead"] /\ block' = [u \in Thread |-> Genesis]
        /\ unknown_parent' = {} /\ future_blocks' = << >> /\ channel' = << >>
        /\ batch' = {} /\ copy' = << >> /\ left' = << >> /\ asOf' = 0
    BY <1>2 DEF Panics
  <2>2. TypeOK'
    BY <1>1, <2>1, NothingIn, BlockAssumption DEF TypeOK, Place, Thread, peers
  <2>3. QueuesReady'
    BY <1>1, <2>1, NothingIn DEF QueuesReady
  <2>4. ThreadsReady'
    BY <2>1 DEF ThreadsReady, Ready
  <2> QED BY <2>2, <2>3, <2>4
<1>3. CASE t # "main"
  <2>1. /\ at' \in [Thread -> Place] /\ at'[t] = "dead" /\ block' \in [Thread -> Block]
        /\ \A u \in Thread \ {t} : at'[u] = at[u] /\ block'[u] = block[u]
        /\ UNCHANGED <<queues, loops>>
    BY <1>1, <1>3, BlockAssumption DEF Panics, Ends, Moves, TypeOK, Place
  <2>2. TypeOK'
    BY <1>1, <1>3, <2>1 DEF TypeOK, Thread, queues, loops, peers
  <2>3. QueuesReady'
    BY <1>1, <2>1 DEF QueuesReady, queues, loops
  <2>4. ThreadsReady'
    <3>1. Ready(t)'
      BY <2>1 DEF Ready
    <3> QED BY <1>1, <2>1, <3>1, OthersStayReady
  <2> QED BY <2>2, <2>3, <2>4
<1> QED BY <1>2, <1>3

\* What a panic leaves in the caches had its parent and was due.
LEMMA InsertPanicsSafe ==
    ASSUME IInv, NEW t \in Thread, InsertPanics(t)
    PROVE  IInv'
<1>1. /\ TypeOK /\ ThreadsReady /\ KnownClosed /\ NeverEarly /\ Genesis \in known
      /\ block[t] \in Block /\ at[t] = "insert" /\ Panics(t)
      /\ known' \in {known, known \union {block[t]}}
      /\ UNCHANGED <<now, peers>>
  BY DEF IInv, TypeOK, InsertPanics
<1>2. Parent(block[t]) \in known /\ Ts[block[t]] <= now
  BY <1>1 DEF ThreadsReady, Ready
<1>3. KnownClosed' /\ NeverEarly'
  BY <1>1, <1>2, StoreFacts DEF KnownClosed, NeverEarly
<1>4. TypeOK' /\ QueuesReady' /\ ThreadsReady'
  BY <1>1, PanicsFacts DEF TypeOK
<1> QED BY <1>1, <1>3, <1>4 DEF IInv

\* Without mario nobody is told of a block.
LEMMA SendPanicsSafe ==
    ASSUME IInv, NEW t \in Thread, SendPanics(t)
    PROVE  IInv'
<1>1. Panics(t) /\ UNCHANGED <<now, known, peers>> /\ known \subseteq Block
  BY DEF IInv, TypeOK, SendPanics
<1>2. TypeOK' /\ QueuesReady' /\ ThreadsReady'
  BY <1>1, PanicsFacts
<1> QED BY <1>1, <1>2 DEF IInv, KnownClosed, NeverEarly

\* The hash goes to mario after the block is stored.
LEMMA SendSafe ==
    ASSUME IInv, NEW t \in Thread, Send(t)
    PROVE  IInv'
<1>1. /\ TypeOK /\ ThreadsReady /\ QueuesReady /\ now \in Nat /\ block[t] \in Block
      /\ Returns(t, TRUE) /\ at[t] = "send"
      /\ channel' = Append(channel, block[t])
      /\ UNCHANGED <<now, known, unknown_parent, future_blocks, loops, peers>>
  BY DEF IInv, TypeOK, Send
<1>2. /\ at' \in [Thread -> Place] /\ block' \in [Thread -> Block]
      /\ at'["main"] \notin {"next", "write"}
      /\ at'["mario"] # "write"
      /\ \A u \in Thread \ {t} : at'[u] = at[u] /\ block'[u] = block[u]
      /\ Ready(t)'
  BY <1>1, ReturnsFacts DEF TypeOK, Thread
<1>3. ThreadsReady'
  BY <1>1, <1>2, OthersStayReady
<1>4. block[t] \in known
  BY <1>1 DEF ThreadsReady, Ready
<1>5. channel' \in Seq(Block) /\ In(channel') = In(channel) \union {block[t]}
  BY <1>1, QueueFacts DEF TypeOK
<1>6. QueuesReady'
  BY <1>1, <1>4, <1>5 DEF QueuesReady, loops
<1> QED BY <1>1, <1>2, <1>3, <1>5, <1>6
        DEF IInv, TypeOK, KnownClosed, NeverEarly, loops, peers

-----------------------------------------------------------------------------
(* The threads.                                                            *)

\* The main loop knows nothing of a block it receives.
LEMMA ReceiveSafe ==
    ASSUME IInv, NEW b \in Block, Receive(b) \/ Answer(b)
    PROVE  IInv'
<1>1. PICK c \in Block :
         /\ TypeOK /\ ThreadsReady /\ now \in Nat
         /\ Starts("main", c) /\ wanted' \subseteq Block
         /\ UNCHANGED <<now, known, queues, loops, calm>>
  <2>1. CASE Receive(b)
    BY <2>1 DEF IInv, TypeOK, Receive, peers
  <2>2. CASE Answer(b)
    <3>1. PICK c \in Copies(b) : Starts("main", c)
      BY <2>2 DEF Answer
    <3>2. c \in Block
      BY IntakeAssumption DEF Copies
    <3> QED BY <2>2, <3>1, <3>2 DEF IInv, TypeOK, Answer
  <2> QED BY <2>1, <2>2
<1>2. /\ at' \in [Thread -> Place] /\ at'["main"] = "check"
      /\ block' \in [Thread -> Block]
      /\ \A u \in Thread \ {"main"} : at'[u] = at[u] /\ block'[u] = block[u]
  BY <1>1, StartsFacts DEF Thread
<1>3. Ready("main")'
  BY <1>2 DEF Ready
<1>4. ThreadsReady'
  <2>1. "main" \in Thread
    BY DEF Thread
  <2> QED BY <1>1, <1>2, <1>3, <2>1, OthersStayReady
<1>5. TypeOK'
  BY <1>1, <1>2 DEF TypeOK, queues, loops, Thread
<1> QED BY <1>1, <1>4, <1>5
        DEF IInv, KnownClosed, NeverEarly, QueuesReady, queues, loops

\* The blocks that waited for a hash have their parent: it was stored before
\* its hash was sent.
LEMMA MarioReceivesSafe ==
    ASSUME IInv, MarioReceives
    PROVE  IInv'
<1> DEFINE children == {b \in unknown_parent : Parent(b) = Head(channel)}
<1>1. /\ TypeOK /\ ThreadsReady /\ QueuesReady /\ now \in Nat /\ channel # << >>
      /\ channel' = Tail(channel) /\ batch' = children
      /\ unknown_parent' = unknown_parent \ children
      /\ Goes("mario", IF children = {} THEN "idle" ELSE "next")
      /\ UNCHANGED <<now, known, future_blocks, copy, left, asOf, peers>>
  BY DEF IInv, TypeOK, MarioReceives
<1>2. /\ Head(channel) \in In(channel) /\ channel' \in Seq(Block)
      /\ In(channel') \subseteq In(channel)
  BY <1>1, QueueFacts DEF TypeOK
<1>3. QueuesReady'
  <2>1. \A b \in batch' : Parent(b) \in known
    BY <1>1, <1>2 DEF QueuesReady
  <2> QED BY <1>1, <1>2, <2>1 DEF QueuesReady
<1>4. /\ at' \in [Thread -> Place] /\ at'["mario"] \in {"idle", "next"} /\ block' = block
      /\ \A u \in Thread \ {"mario"} : at'[u] = at[u] /\ block'[u] = block[u]
  <2>1. \A p \in {"idle", "next"} : Goes("mario", p) =>
           /\ at' \in [Thread -> Place] /\ at'["mario"] = p /\ block' = block
           /\ \A u \in Thread \ {"mario"} : at'[u] = at[u] /\ block'[u] = block[u]
    BY <1>1, GoesFacts DEF Thread, Place
  <2> QED BY <1>1, <2>1
<1>5. "mario" \in Thread /\ Ready("mario")'
  BY <1>4 DEF Ready, Thread
<1>6. ThreadsReady'
  BY <1>1, <1>4, <1>5, OthersStayReady
<1>7. TypeOK'
  BY <1>1, <1>2, <1>4 DEF TypeOK, peers, Thread
<1> QED BY <1>1, <1>3, <1>6, <1>7 DEF IInv, KnownClosed, NeverEarly

\* So mario's inserts find the parent.
LEMMA MarioNextSafe ==
    ASSUME IInv, MarioNext
    PROVE  IInv'
<1>1. /\ TypeOK /\ ThreadsReady /\ QueuesReady /\ now \in Nat
      /\ UNCHANGED <<now, known, queues, copy, left, asOf, peers>>
  BY DEF IInv, TypeOK, MarioNext
<1>2. /\ at' \in [Thread -> Place] /\ block' \in [Thread -> Block]
      /\ at'["mario"] # "write" /\ batch' \subseteq batch
      /\ \A u \in Thread \ {"mario"} : at'[u] = at[u] /\ block'[u] = block[u]
      /\ "mario" \in Thread /\ Ready("mario")'
  <2>1. CASE Goes("mario", "idle") /\ UNCHANGED batch
    BY <1>1, <2>1, GoesFacts DEF TypeOK, Thread, Place, Ready
  <2>2. ASSUME NEW b \in batch, batch' = batch \ {b}, Starts("mario", b)
        PROVE  /\ at' \in [Thread -> Place] /\ block' \in [Thread -> Block]
               /\ at'["mario"] # "write" /\ batch' \subseteq batch
               /\ \A u \in Thread \ {"mario"} : at'[u] = at[u] /\ block'[u] = block[u]
               /\ "mario" \in Thread /\ Ready("mario")' 
    <3>1. b \in Block /\ Parent(b) \in known
      BY <1>1, <2>2 DEF TypeOK, QueuesReady
    <3>2. /\ at' \in [Thread -> Place] /\ at'["mario"] = "check"
          /\ block' \in [Thread -> Block] /\ block'["mario"] = b
          /\ \A u \in Thread \ {"mario"} : at'[u] = at[u] /\ block'[u] = block[u]
      BY <1>1, <2>2, <3>1, StartsFacts DEF Thread
    <3> QED BY <1>1, <2>2, <3>1, <3>2 DEF Thread, Ready
  <2> QED BY <2>1, <2>2 DEF MarioNext
<1>3. ThreadsReady'
  BY <1>1, <1>2, OthersStayReady
<1>4. TypeOK'
  BY <1>1, <1>2 DEF TypeOK, queues, peers, Thread
<1> QED BY <1>1, <1>2, <1>3, <1>4
        DEF IInv, KnownClosed, NeverEarly, QueuesReady, queues

\* handle_pending goes by a reading of the clock that time has overtaken.
LEMMA PendingWakesSafe ==
    ASSUME IInv, PendingWakes
    PROVE  IInv'
<1>1. /\ TypeOK /\ ThreadsReady /\ QueuesReady /\ now \in Nat
      /\ copy' = future_blocks /\ asOf' \in Nat /\ asOf' <= now
      /\ Goes("pending", "next")
      /\ UNCHANGED <<now, known, queues, batch, left, peers>>
  BY DEF IInv, TypeOK, PendingWakes, Readings
<1>2. /\ "pending" \in Thread
      /\ at' \in [Thread -> Place] /\ at'["pending"] = "next" /\ block' = block
      /\ \A u \in Thread \ {"pending"} : at'[u] = at[u] /\ block'[u] = block[u]
  BY <1>1, GoesFacts DEF Thread, Place
<1>3. Ready("pending")'
  BY <1>2 DEF Ready
<1>4. ThreadsReady'
  BY <1>1, <1>2, <1>3, OthersStayReady
<1>5. TypeOK'
  BY <1>1, <1>2 DEF TypeOK, queues, peers, Thread
<1>6. QueuesReady'
  BY <1>1 DEF QueuesReady, queues
<1> QED BY <1>1, <1>4, <1>5, <1>6 DEF IInv, KnownClosed, NeverEarly

\* What pending inserts is due and has its parent; what it keeps has its parent.
LEMMA PendingNextSafe ==
    ASSUME IInv, PendingNext
    PROVE  IInv'
<1>1. /\ TypeOK /\ ThreadsReady /\ QueuesReady /\ now \in Nat /\ "pending" \in Thread
      /\ UNCHANGED <<now, known, queues, batch, asOf, peers>>
  BY DEF IInv, TypeOK, PendingNext, Thread
<1>2. /\ at' \in [Thread -> Place] /\ block' \in [Thread -> Block]
      /\ \A u \in Thread \ {"pending"} : at'[u] = at[u] /\ block'[u] = block[u]
      /\ Ready("pending")'
      /\ copy' \in Seq(Block) /\ left' \in Seq(Block)
      /\ In(copy') \union In(left') \subseteq In(copy) \union In(left)
  <2>1. CASE Goes("pending", "write") /\ UNCHANGED <<copy, left>>
    <3>1. /\ at' \in [Thread -> Place] /\ at'["pending"] = "write" /\ block' = block
          /\ \A u \in Thread \ {"pending"} : at'[u] = at[u] /\ block'[u] = block[u]
      BY <1>1, <2>1, GoesFacts DEF Place
    <3> QED BY <1>1, <2>1, <3>1 DEF TypeOK, Ready
  <2>2. ASSUME copy # << >>
        PROVE  /\ Head(copy) \in Block /\ Parent(Head(copy)) \in known
               /\ Head(copy) \in In(copy)
               /\ Tail(copy) \in Seq(Block) /\ In(Tail(copy)) \subseteq In(copy)
    <3>1. /\ Head(copy) \in In(copy) /\ In(copy) \subseteq Block
          /\ Tail(copy) \in Seq(Block) /\ In(Tail(copy)) \subseteq In(copy)
      BY <1>1, <2>2, QueueFacts DEF TypeOK
    <3> QED BY <1>1, <3>1 DEF QueuesReady
  <2>3. CASE /\ copy # << >> /\ Ts[Head(copy)] <= asOf
             /\ Starts("pending", Head(copy)) /\ copy' = Tail(copy) /\ UNCHANGED left
    <3>1. Ts[Head(copy)] <= asOf'
      BY <1>1, <2>3
    <3>2. /\ at' \in [Thread -> Place] /\ at'["pending"] = "check"
          /\ block' \in [Thread -> Block] /\ block'["pending"] = Head(copy)
          /\ \A u \in Thread \ {"pending"} : at'[u] = at[u] /\ block'[u] = block[u]
      BY <1>1, <2>2, <2>3, StartsFacts
    <3>3. Ready("pending")'
      BY <1>1, <2>2, <2>3, <3>1, <3>2 DEF Ready
    <3> QED BY <1>1, <2>2, <2>3, <3>2, <3>3 DEF TypeOK
  <2>4. CASE /\ copy # << >> /\ left' = Append(left, Head(copy))
             /\ copy' = Tail(copy) /\ UNCHANGED <<at, block>>
    <3>1. left' \in Seq(Block) /\ In(left') = In(left) \union {Head(copy)}
      BY <1>1, <2>2, <2>4, QueueFacts DEF TypeOK
    <3>2. Ready("pending")'
      BY <1>1, <2>4 DEF ThreadsReady, Ready
    <3> QED BY <1>1, <2>2, <2>4, <3>1, <3>2 DEF TypeOK
  <2> QED BY <2>1, <2>3, <2>4 DEF PendingNext
<1>3. ThreadsReady'
  BY <1>1, <1>2, OthersStayReady
<1>4. TypeOK'
  BY <1>1, <1>2 DEF TypeOK, queues, peers, Thread
<1>5. QueuesReady'
  BY <1>1, <1>2 DEF QueuesReady, queues
<1> QED BY <1>1, <1>3, <1>4, <1>5 DEF IInv, KnownClosed, NeverEarly

\* What it kept goes back.
LEMMA PendingWritesSafe ==
    ASSUME IInv, PendingWrites
    PROVE  IInv'
<1>1. /\ TypeOK /\ ThreadsReady /\ QueuesReady /\ now \in Nat
      /\ future_blocks' = left /\ left' = << >> /\ asOf' = 0
      /\ Goes("pending", "idle")
      /\ UNCHANGED <<now, known, unknown_parent, channel, batch, copy, peers>>
  BY DEF IInv, TypeOK, PendingWrites
<1>2. /\ "pending" \in Thread
      /\ at' \in [Thread -> Place] /\ at'["pending"] = "idle" /\ block' = block
      /\ \A u \in Thread \ {"pending"} : at'[u] = at[u] /\ block'[u] = block[u]
  BY <1>1, GoesFacts DEF Thread, Place
<1>3. Ready("pending")'
  BY <1>2 DEF Ready
<1>4. ThreadsReady'
  BY <1>1, <1>2, <1>3, OthersStayReady
<1>5. TypeOK'
  BY <1>1, <1>2, NothingIn DEF TypeOK, peers, Thread
<1>6. QueuesReady'
  BY <1>1, NothingIn DEF QueuesReady
<1> QED BY <1>1, <1>4, <1>5, <1>6 DEF IInv, KnownClosed, NeverEarly

\* Our own block extends one we hold, and is stamped with the time.
LEMMA GenBlockSafe ==
    ASSUME IInv, NEW b \in Block, GenBlock(b)
    PROVE  IInv'
<1>1. /\ TypeOK /\ ThreadsReady /\ QueuesReady /\ KnownClosed /\ NeverEarly /\ now \in Nat
      /\ Parent(b) \in known /\ Ts[b] <= now
      /\ known' = known \union {b}
      /\ UNCHANGED <<now, queues, at, block, loops, peers>>
  BY DEF IInv, TypeOK, GenBlock
<1>2. KnownClosed' /\ NeverEarly'
  BY <1>1, StoreFacts DEF KnownClosed, NeverEarly
<1>3. ThreadsReady'
  BY <1>1 DEF ThreadsReady, Ready, loops
<1>4. TypeOK' /\ QueuesReady'
  BY <1>1 DEF TypeOK, QueuesReady, queues, loops, peers
<1> QED BY <1>1, <1>2, <1>3, <1>4 DEF IInv

\* Time goes by.
LEMMA TickSafe ==
    ASSUME IInv, Tick
    PROVE  IInv'
<1>1. /\ TypeOK /\ ThreadsReady /\ now \in Nat /\ now' = now + 1
      /\ now' \in Nat /\ now <= now'
      /\ UNCHANGED <<known, queues, at, block, loops, peers>>
  BY DEF IInv, TypeOK, Tick
<1>2. Ready("main")'
  BY <1>1, BodyAssumption DEF ThreadsReady, Ready, TypeOK, Thread
<1>3. ThreadsReady'
  <2>1. "main" \in Thread
    BY DEF Thread
  <2> QED BY <1>1, <1>2, <2>1, OthersStayReady
<1>4. TypeOK'
  BY <1>1 DEF TypeOK, queues, loops, peers
<1>5. NeverEarly'
  <2>1. \A b \in known : Ts[b] \in Nat
    BY <1>1, BodyAssumption DEF TypeOK
  <2> QED BY <1>1, <2>1 DEF IInv, NeverEarly
<1>6. QueuesReady'
  BY <1>1 DEF IInv, TypeOK, QueuesReady, queues, loops
<1> QED BY <1>1, <1>3, <1>4, <1>5, <1>6 DEF IInv, KnownClosed

-----------------------------------------------------------------------------
(* Theorems.                                                               *)

\* The store begins with genesis alone, and no thread has begun.
LEMMA InitReady == Init => IInv
<1> SUFFICES ASSUME Init PROVE IInv
  OBVIOUS
<1>1. TypeOK
  <2>1. now \in Nat /\ calm \in BOOLEAN /\ asOf \in Nat
    <3>1. now \in 0 .. MaxNow /\ MaxNow \in Nat /\ asOf = 0
      BY IntakeAssumption DEF Init
    <3>2. calm \in BOOLEAN
      BY DEF Init
    <3> QED BY <3>1, <3>2
  <2>2. /\ known \subseteq Block /\ unknown_parent \subseteq Block
        /\ batch \subseteq Block /\ wanted \subseteq Block
    BY BlockAssumption DEF Init
  <2>3. /\ future_blocks \in Seq(Block) /\ channel \in Seq(Block)
        /\ copy \in Seq(Block) /\ left \in Seq(Block)
    BY NothingIn DEF Init
  <2>4. at \in [Thread -> Place] /\ block \in [Thread -> Block]
    BY BlockAssumption DEF Init, Place
  <2>5. at["main"] \notin {"next", "write"} /\ at["mario"] # "write"
    BY DEF Init, Thread
  <2> QED BY <2>1, <2>2, <2>3, <2>4, <2>5 DEF TypeOK
<1>2. Path(Genesis) = {Genesis}
  <2>1. Height(Genesis) = 0 /\ 0 .. 0 = {0} /\ Anc(Genesis, 0) = Genesis
    BY PathFacts, BlockAssumption
  <2> QED BY <2>1 DEF Path
<1>3. KnownClosed /\ NeverEarly /\ Genesis \in known
  BY <1>2 DEF Init, KnownClosed, NeverEarly
<1>4. QueuesReady
  BY <1>1, NothingIn DEF Init, QueuesReady, TypeOK
<1>5. ThreadsReady
  BY DEF Init, ThreadsReady, Ready
<1> QED BY <1>1, <1>3, <1>4, <1>5 DEF IInv

\* Every step keeps the inductive invariant.
LEMMA StepSafe == IInv /\ [Next]_vars => IInv'
<1> SUFFICES ASSUME IInv, [Next]_vars PROVE IInv'
  OBVIOUS
<1>1. ASSUME NEW t \in Thread, InsertStep(t) PROVE IInv'
  BY <1>1, CheckSafe, NtpErrorSafe, PushUnknownParentSafe, PushFutureBlockSafe,
     InsertAtSafe, InsertPanicsSafe, SendSafe, SendPanicsSafe DEF InsertStep
<1>2. ASSUME NEW b \in Block, Receive(b) \/ Answer(b) \/ GenBlock(b) PROVE IInv'
  BY <1>2, ReceiveSafe, GenBlockSafe
<1>3. CASE MarioReceives \/ MarioNext
  BY <1>3, MarioReceivesSafe, MarioNextSafe
<1>4. CASE PendingWakes \/ PendingNext \/ PendingWrites
  BY <1>4, PendingWakesSafe, PendingNextSafe, PendingWritesSafe
<1>5. CASE Tick
  BY <1>5, TickSafe
<1>6. CASE CalmsDown
  BY <1>6 DEF IInv, CalmsDown, TypeOK, KnownClosed, NeverEarly, QueuesReady,
              ThreadsReady, Ready, queues, loops
<1>7. CASE UNCHANGED vars
  BY <1>7 DEF IInv, vars, TypeOK, KnownClosed, NeverEarly, QueuesReady,
              ThreadsReady, Ready, queues, loops, peers
<1> QED BY <1>1, <1>2, <1>3, <1>4, <1>5, <1>6, <1>7 DEF Next

\* The inductive invariant holds of every behaviour.
THEOREM Invariance == Spec => []IInv
<1> QED BY InitReady, StepSafe, PTL DEF Spec

\* The variables keep their types, whichever threads end.
THEOREM TypeCorrect == Spec => []TypeOK
<1>1. IInv => TypeOK
  BY DEF IInv
<1> QED BY <1>1, Invariance, PTL

\* However the threads' inserts interleave, no block is stored without its path.
THEOREM KnownStaysClosed == Spec => []KnownClosed
<1>1. IInv => KnownClosed
  BY DEF IInv
<1> QED BY <1>1, Invariance, PTL

\* No thread stores a block before its time.
THEOREM NeverStoredEarly == Spec => []NeverEarly
<1>1. IInv => NeverEarly
  BY DEF IInv
<1> QED BY <1>1, Invariance, PTL

\* No two threads wait for each other's lock: mario and pending insert under theirs,
\* but neither ever asks for unknown_parent.  pending waits for its own only with a
\* block that was due when it took it up and was not when it inserted it.
THEOREM StuckByClockAlone == Spec => []StuckOnlyByClock
<1>1. IInv => StuckOnlyByClock
  <2> SUFFICES ASSUME IInv, NEW t \in Thread, NEW u \in Thread,
                      <<t, u>> \in WaitsFor, <<u, t>> \in WaitsFor
               PROVE  /\ t = "pending" /\ u = "pending"
                      /\ Drift > 0
                      /\ Ts[block["pending"]] \in asOf - Drift + 1 .. asOf
    BY DEF StuckOnlyByClock
  <2>1. at["mario"] # "orphan" /\ at["pending"] # "orphan"
    BY DEF IInv, ThreadsReady, Ready, Thread
  <2>2. \A v, w \in Thread : <<v, w>> \in WaitsFor =>
           \/ w = "mario" /\ at[v] = "orphan"
           \/ w = "pending" /\ at[v] = "future"
    BY DEF WaitsFor
  <2>3. t = "pending" /\ u = "pending" /\ at["pending"] = "future"
    BY <2>1, <2>2
  <2>4. /\ Ts[block["pending"]] \in Nat /\ asOf \in Nat /\ Drift \in Nat
        /\ Ts[block["pending"]] <= asOf /\ Ts[block["pending"]] > asOf - Drift
    <3>1. block["pending"] \in Block /\ asOf \in Nat
      BY DEF IInv, TypeOK, Thread
    <3>2. Ready("pending")
      BY DEF IInv, ThreadsReady, Thread
    <3> QED BY <2>3, <3>1, <3>2, BodyAssumption, IntakeAssumption DEF Ready
  <2> QED BY <2>3, <2>4
<1> QED BY <1>1, Invariance, PTL

=============================================================================
