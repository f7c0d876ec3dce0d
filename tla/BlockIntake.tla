---------------------------- MODULE BlockIntake ----------------------------
(***************************************************************************)
(* How a block reaches the chain store when several threads insert: the    *)
(* main thread with the blocks of the network, `mario' with the blocks     *)
(* whose parent has arrived, `pending' with the blocks whose time has come *)
(* (chain.rs, main.rs), and the miner with its own.                        *)
(*                                                                         *)
(* Chain::insert is split where another thread can come in between: the    *)
(* lookups of block_basic_check, the push to unknown_parent or to          *)
(* future_blocks, insert_at, and the send on the channel to mario.  The    *)
(* store is the set of blocks it holds; ChainStore says what it does with  *)
(* them.  unknown_parent is a set of blocks, as a block names its parent.  *)
(* A block that misses the difficulty or is no younger than its parent is  *)
(* dropped before anything is written, and is left out.                    *)
(*                                                                         *)
(* A lock matters when it is held across steps.  Rust keeps the guard of a *)
(* `let' or `if let' statement until the statement ends, so mario holds    *)
(* unknown_parent, and pending reads future_blocks, while they insert.     *)
(***************************************************************************)
EXTENDS BlockTree

CONSTANTS
    Bad,        \* blocks whose proof key or transactions fail the checks
    Own,        \* blocks this node's miner may make
    Ahead,      \* 2 * nps * steps: how far ahead of the clock a block may be
    Drift,      \* how far the clocks of the NTP servers are apart
    MaxNow,     \* bound: the last reading of the clock
    MaxFuture   \* bound: the longest future_blocks

ASSUME IntakeAssumption ==
    /\ Bad \subseteq Block \ {Genesis}
    /\ Own \subseteq Block \ {Genesis}
    /\ Ahead \in Nat /\ Drift \in Nat /\ MaxNow \in Nat /\ MaxFuture \in Nat
    /\ \A b \in Block \ {Genesis} : Ts[b] > Ts[Parent(b)]

Thread == {"main", "mario", "pending"}

\* check .. send: inside insert.  next: between two inserts of a loop.
\* write: before handle_pending's last statement.  dead: after a panic.
Place == {"idle", "check", "orphan", "future", "insert", "send", "next", "write", "dead"}

VARIABLES
    now,            \* the clock of the NTP server that is furthest ahead
    known,          \* blocks in the store
    unknown_parent,
    future_blocks,
    channel,        \* hashes on their way to mario
    at,             \* at[t]: where thread t is
    block,          \* block[t]: the block it inserts
    batch,          \* the blocks mario has still to insert
    copy, left,     \* pending: the blocks not looked at yet, the blocks to keep
    asOf,           \* the reading of the clock pending goes by
    wanted,         \* hashes asked of a peer with SYNCREQ and not answered yet
    calm            \* do the NTP servers agree and answer, and the peers answer with
                    \* headers that never left their caches, and not send while the
                    \* node is busy, and does no insert panic, from now on?

queues == <<unknown_parent, future_blocks, channel>>
loops == <<batch, copy, left, asOf>>
peers == <<wanted, calm>>
vars == <<now, known, queues, at, block, loops, peers>>

-----------------------------------------------------------------------------
(* Locks held across steps.                                                *)

HoldsUnknown == at["mario"] \notin {"idle", "dead"}

ReadsFuture == at["pending"] \in {"next", "check", "orphan", "future", "insert", "send"}

-----------------------------------------------------------------------------
(* Chain::insert, in the thread t.                                         *)

Moves(t, p) == at' = [at EXCEPT ![t] = p]

Goes(t, p) == Moves(t, p) /\ UNCHANGED block

Ends(t) == Moves(t, "dead") /\ block' = [block EXCEPT ![t] = Genesis]

\* A panic ends its thread, which releases its locks.  When that is the main thread
\* the process is over, with all that was waiting.
Panics(t) ==
    IF t = "main"
    THEN /\ at' = [u \in Thread |-> "dead"]
         /\ block' = [u \in Thread |-> Genesis]
         /\ unknown_parent' = {} /\ future_blocks' = << >> /\ channel' = << >>
         /\ batch' = {} /\ copy' = << >> /\ left' = << >> /\ asOf' = 0
    ELSE Ends(t) /\ UNCHANGED <<queues, loops>>

\* main and mario ignore an error; handle_pending expects none.
Returns(t, ok) ==
    IF t = "pending" /\ ~ok THEN Ends(t)
    ELSE /\ block' = [block EXCEPT ![t] = Genesis]
         /\ Moves(t, IF t = "main" THEN "idle" ELSE "next")

\* ntp_now: the server that answers first.  Of two readings the later one may be
\* the earlier time.
Readings == {r \in 0 .. now : r + Drift >= now /\ (calm => r = now)}

\* A faulty variant: the time of a block is not looked at.
ChecksNoTime(t) ==
    LET b == block[t]
    IN /\ at[t] = "check"
       /\ \E r \in Readings :
          IF b \in known \/ Ts[b] > r + Ahead THEN Returns(t, FALSE)
          ELSE IF Parent(b) \notin known THEN Goes(t, "orphan")
          ELSE IF b \in Bad THEN Returns(t, FALSE)
          ELSE Goes(t, "insert")
       /\ UNCHANGED <<now, known, queues, loops, peers>>

\* A faulty variant: the parent is not looked up.
ChecksNoParent(t) ==
    LET b == block[t]
    IN /\ at[t] = "check"
       /\ \E r \in Readings :
          IF b \in known \/ Ts[b] > r + Ahead THEN Returns(t, FALSE)
          ELSE IF Ts[b] > r THEN Goes(t, "future")
          ELSE IF b \in Bad THEN Returns(t, FALSE)
          ELSE Goes(t, "insert")
       /\ UNCHANGED <<now, known, queues, loops, peers>>

\* block_basic_check up to its first write, or through.
Check(t) ==
    LET b == block[t]
    IN /\ at[t] = "check"
       /\ \E r \in Readings :
          IF b \in known \/ Ts[b] > r + Ahead THEN Returns(t, FALSE)
          ELSE IF Parent(b) \notin known THEN Goes(t, "orphan")
          ELSE IF Ts[b] > r THEN Goes(t, "future")
          ELSE IF b \in Bad THEN Returns(t, FALSE)
          ELSE Goes(t, "insert")
       /\ UNCHANGED <<now, known, queues, loops, peers>>

\* No NTP server answers: the block is dropped.
NtpError(t) ==
    /\ ~calm
    /\ at[t] = "check"
    /\ Returns(t, FALSE)
    /\ UNCHANGED <<now, known, queues, loops, peers>>

\* A faulty variant: the main loop does not ask for the parent.
PushesUnasked(t) ==
    /\ at[t] = "orphan"
    /\ ~HoldsUnknown
    /\ unknown_parent' = unknown_parent \union {block[t]}
    /\ wanted' = wanted
    /\ Returns(t, FALSE)
    /\ UNCHANGED <<now, known, future_blocks, channel, loops, calm>>

\* The block waits for its parent; the main loop asks its origin for the parent.
PushUnknownParent(t) ==
    /\ at[t] = "orphan"
    /\ ~HoldsUnknown
    /\ unknown_parent' = unknown_parent \union {block[t]}
    /\ wanted' = IF t = "main" THEN wanted \union {Parent(block[t])} ELSE wanted
    /\ Returns(t, FALSE)
    /\ UNCHANGED <<now, known, future_blocks, channel, loops, calm>>

\* The block waits for its time.
PushFutureBlock(t) ==
    /\ at[t] = "future"
    /\ ~ReadsFuture
    /\ Len(future_blocks) < MaxFuture
    /\ future_blocks' = Append(future_blocks, block[t])
    /\ Returns(t, FALSE)
    /\ UNCHANGED <<now, known, unknown_parent, channel, loops, peers>>

InsertAt(t) ==
    /\ at[t] = "insert"
    /\ known' = known \union {block[t]}
    /\ Goes(t, "send")
    /\ UNCHANGED <<now, queues, loops, peers>>

\* get_left_bound unwraps the oldest block of the window, and so does the roll back:
\* the block may be in the caches by then, and its batch is lost.
InsertPanics(t) ==
    /\ ~calm
    /\ at[t] = "insert"
    /\ known' \in {known, known \union {block[t]}}
    /\ Panics(t)
    /\ UNCHANGED <<now, peers>>

Send(t) ==
    /\ at[t] = "send" /\ at["mario"] # "dead"
    /\ channel' = Append(channel, block[t])
    /\ Returns(t, TRUE)
    /\ UNCHANGED <<now, known, unknown_parent, future_blocks, loops, peers>>

\* `send(hash).unwrap()': mario has dropped the other end.
SendPanics(t) ==
    /\ at[t] = "send" /\ at["mario"] = "dead"
    /\ Panics(t)
    /\ UNCHANGED <<now, known, peers>>

InsertStep(t) ==
    \/ Check(t) \/ NtpError(t)
    \/ PushUnknownParent(t) \/ PushFutureBlock(t)
    \/ InsertAt(t) \/ InsertPanics(t)
    \/ Send(t) \/ SendPanics(t)

Starts(t, b) ==
    /\ at' = [at EXCEPT ![t] = "check"]
    /\ block' = [block EXCEPT ![t] = b]

-----------------------------------------------------------------------------
(* The threads.                                                            *)

Quiet ==
    /\ at["main"] = "idle" /\ at["mario"] = "idle"
    /\ channel = << >> /\ wanted = {}
    /\ at["pending"] = "dead" \/ (at["pending"] = "idle" /\ future_blocks = << >>)

\* A peer sends a block.  It has our own only after we have made them.
Receive(b) ==
    /\ at["main"] = "idle"
    /\ calm => Quiet
    /\ Path(b) \intersect Own \subseteq known
    /\ Starts("main", b)
    /\ UNCHANGED <<now, known, queues, loops, peers>>

\* What a peer may answer for b: b, or, when the peer has read the header of b back
\* from its database, a block with another hash, which no signer of b has signed.
Copies(b) ==
    {b} \union {c \in Bad : ~calm /\ ~KeepsHash(b) /\ Parent(c) = Parent(b) /\ Ts[c] = Ts[b]}

\* A peer answers a SYNCREQ.
Answer(b) ==
    /\ at["main"] = "idle"
    /\ b \in wanted
    /\ wanted' = wanted \ {b}
    /\ \E c \in Copies(b) : Starts("main", c)
    /\ UNCHANGED <<now, known, queues, loops, calm>>

\* mario: the blocks that waited for the hash are taken out and inserted.
MarioReceives ==
    LET children == {b \in unknown_parent : Parent(b) = Head(channel)}
    IN /\ at["mario"] = "idle"
       /\ channel # << >>
       /\ channel' = Tail(channel)
       /\ unknown_parent' = unknown_parent \ children
       /\ batch' = children
       /\ Goes("mario", IF children = {} THEN "idle" ELSE "next")
       /\ UNCHANGED <<now, known, future_blocks, copy, left, asOf, peers>>

MarioNext ==
    /\ at["mario"] = "next"
    /\ \/ /\ batch = {}
          /\ Goes("mario", "idle")
          /\ UNCHANGED batch
       \/ \E b \in batch :
             /\ batch' = batch \ {b}
             /\ Starts("mario", b)
    /\ UNCHANGED <<now, known, queues, copy, left, asOf, peers>>

\* handle_pending: reads the clock and copies future_blocks.
PendingWakes ==
    /\ at["pending"] = "idle"
    /\ copy' = future_blocks
    /\ asOf' \in Readings
    /\ Goes("pending", "next")
    /\ UNCHANGED <<now, known, queues, batch, left, peers>>

\* A faulty variant: a block is taken up one slot before its time.
TakesEarly ==
    /\ at["pending"] = "next"
    /\ \/ /\ copy = << >>
          /\ Goes("pending", "write")
          /\ UNCHANGED <<copy, left>>
       \/ /\ copy # << >> /\ Ts[Head(copy)] <= asOf + 1
          /\ Starts("pending", Head(copy))
          /\ copy' = Tail(copy)
          /\ UNCHANGED left
       \/ /\ copy # << >> /\ Ts[Head(copy)] > asOf + 1
          /\ left' = Append(left, Head(copy))
          /\ copy' = Tail(copy)
          /\ UNCHANGED <<at, block>>
    /\ UNCHANGED <<now, known, queues, batch, asOf, peers>>

\* The filter's closure: the next block of the copy is due or kept.
PendingNext ==
    /\ at["pending"] = "next"
    /\ \/ /\ copy = << >>
          /\ Goes("pending", "write")
          /\ UNCHANGED <<copy, left>>
       \/ /\ copy # << >> /\ Ts[Head(copy)] <= asOf
          /\ Starts("pending", Head(copy))
          /\ copy' = Tail(copy)
          /\ UNCHANGED left
       \/ /\ copy # << >> /\ Ts[Head(copy)] > asOf
          /\ left' = Append(left, Head(copy))
          /\ copy' = Tail(copy)
          /\ UNCHANGED <<at, block>>
    /\ UNCHANGED <<now, known, queues, batch, asOf, peers>>

\* What the copy kept replaces future_blocks, with whatever was pushed since.
PendingWrites ==
    /\ at["pending"] = "write"
    /\ future_blocks' = left
    /\ left' = << >>
    /\ asOf' = 0
    /\ Goes("pending", "idle")
    /\ UNCHANGED <<now, known, unknown_parent, channel, batch, copy, peers>>

\* gen_block: our block goes to the store past insert, and no hash is sent.
GenBlock(b) ==
    /\ at["main"] # "dead"
    /\ b \in Own \ known
    /\ Parent(b) \in known
    /\ Ts[b] <= now
    /\ known' = known \union {b}
    /\ UNCHANGED <<now, queues, at, block, loops, peers>>

-----------------------------------------------------------------------------
(* The surroundings of a node that runs.                                   *)

Tick ==
    /\ at["main"] # "dead"
    /\ now < MaxNow
    /\ now' = now + 1
    /\ UNCHANGED <<known, queues, at, block, loops, peers>>

CalmsDown ==
    /\ at["main"] # "dead"
    /\ ~calm
    /\ calm' = TRUE
    /\ UNCHANGED <<now, known, queues, at, block, loops, wanted>>

Init ==
    /\ now \in 0 .. MaxNow
    /\ known = {Genesis}
    /\ unknown_parent = {} /\ future_blocks = << >> /\ channel = << >>
    /\ at = [t \in Thread |-> "idle"]
    /\ block = [t \in Thread |-> Genesis]
    /\ batch = {} /\ copy = << >> /\ left = << >> /\ asOf = 0
    /\ wanted = {}
    /\ calm = FALSE

Next ==
    \/ \E t \in Thread : InsertStep(t)
    \/ \E b \in Block \ {Genesis} : Receive(b) \/ Answer(b) \/ GenBlock(b)
    \/ MarioReceives \/ MarioNext
    \/ PendingWakes \/ PendingNext \/ PendingWrites
    \/ Tick \/ CalmsDown

Spec == Init /\ [][Next]_vars

\* The threads run, and the peers answer what they are asked for.
Fairness ==
    /\ \A t \in Thread : WF_vars(InsertStep(t))
    /\ WF_vars(\E b \in Block : Answer(b))
    /\ WF_vars(MarioReceives) /\ WF_vars(MarioNext)

FairSpec == Spec /\ Fairness

-----------------------------------------------------------------------------
(* Properties.                                                             *)

TypeOK ==
    /\ now \in Nat
    /\ known \subseteq Block /\ unknown_parent \subseteq Block
    /\ future_blocks \in Seq(Block) /\ channel \in Seq(Block)
    /\ at \in [Thread -> Place] /\ block \in [Thread -> Block]
    /\ at["main"] \notin {"next", "write"}
    /\ at["mario"] # "write"
    /\ batch \subseteq Block /\ copy \in Seq(Block) /\ left \in Seq(Block) /\ asOf \in Nat
    /\ wanted \subseteq Block /\ calm \in BOOLEAN

\* Whichever threads insert, and however their steps interleave, no block is in
\* the store without its path.
KnownClosed == \A b \in known : Path(b) \subseteq known

\* No block is in the store before its time, by whatever thread it comes: at least
\* one server's clock has reached it.
NeverEarly == \A b \in known : b = Genesis \/ Ts[b] <= now

WaitsFor ==
    {<<t, "mario">> : t \in {u \in Thread : at[u] = "orphan" /\ HoldsUnknown}}
        \union {<<t, "pending">> : t \in {u \in Thread : at[u] = "future" /\ ReadsFuture}}

\* Both loops insert under a lock, and an insert may push under either.  No two
\* threads wait for each other, and none for a lock it holds itself, but one: pending
\* asks for future_blocks while it reads it, with a block that was due by the reading
\* of the clock that it took up the block by, and not by the one it inserts it by.
\* Servers that agree leave no such case.
StuckOnlyByClock ==
    \A t, u \in Thread :
        <<t, u>> \in WaitsFor /\ <<u, t>> \in WaitsFor =>
            /\ t = "pending" /\ u = "pending"
            /\ Drift > 0
            /\ Ts[block["pending"]] \in asOf - Drift + 1 .. asOf

\* handle_pending: `.expect("insert block failed")'.
PendingSucceeds == at["pending"] # "dead"

\* Whatever races and errors have lost before, a block that a peer sends to a
\* quiet node once its time has come brings all that it misses with it, and is
\* stored.
Recovers ==
    \A b \in {c \in Block \ {Genesis} : Path(c) \intersect (Bad \union Own) = {}} :
        (calm /\ Quiet /\ now = MaxNow) /\ <>(at["main"] = "check" /\ block["main"] = b)
            ~> b \in known

=============================================================================
