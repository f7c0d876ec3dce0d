------------------------------ MODULE TxGossip ------------------------------
(***************************************************************************)
(* Transactions on their way through the nodes: a client hands one to a    *)
(* node's main loop, which pools it and sends it to every peer, where the  *)
(* main loop does the same; each node's miner packages transactions, makes *)
(* a block of them and removes them from its pool.                         *)
(*                                                                         *)
(* Only a pool's filter stops a transaction from going round.  A node also *)
(* sends it back to the peer it has it from: Operation::BROADCAST goes to  *)
(* all.  Nothing here is kept on disk.                                     *)
(***************************************************************************)
EXTENDS TxPool

CONSTANTS
    Node,
    Peers,          \* Peers[n]: the peers in n's configuration
    Capacity,       \* Capacity[n]: the capacity of n's filter
    MaxSubmit,      \* bound: transactions handed in by clients, with repetitions
    MaxLost         \* bound: messages that meet no stream, and crashes

ASSUME GossipAssumption ==
    /\ IsFiniteSet(Node) /\ Peers \in [Node -> SUBSET Node]
    /\ Capacity \in [Node -> Nat \ {0}]
    /\ MaxSubmit \in Nat /\ MaxLost \in Nat

VARIABLES
    pool,       \* pool[n]: n's transaction pool
    stream,     \* stream[m][n]: transactions sent by m that n's main loop has not taken
    mining,     \* mining[n]: the hashes n's miner has packaged and not yet removed
    submitted,  \* how many transactions clients have handed in
    lost,       \* how many messages and nodes have been lost
    accepted    \* history: accepted[n][t], how often n, since its start, has taken t in

\* The transactions n has taken in.
Seen(n) == {t \in Tx : accepted[n][t] > 0}

gossipVars == <<pool, stream, mining, submitted, lost, accepted>>

-----------------------------------------------------------------------------
(* The main loop on MsgClass::TX, whose signature recovers.                *)

\* A faulty variant: what a stream still holds is overwritten.
BroadcastOver(streams, n, t, reached) ==
    [streams EXCEPT ![n] = [m \in Node |-> IF m \in reached THEN <<t>> ELSE @[m]]]

\* `broadcast': the message goes to each peer whose stream is connected.
BroadcastTo(streams, n, t, reached) ==
    [streams EXCEPT ![n] = [m \in Node |-> IF m \in reached THEN Append(@[m], t) ELSE @[m]]]

\* A faulty variant: what enqueue returns is not asked.
HandleAndEcho(n, t, streams) ==
    \E reached \in SUBSET Peers[n] :
        /\ lost' = lost + Cardinality(Peers[n] \ reached)
        /\ lost' <= MaxLost
        /\ pool' = [pool EXCEPT ![n] = Enqueued(@, t, Capacity[n])]
        /\ accepted' = [accepted EXCEPT ![n][t] = IF Contains(pool[n].recent, t) THEN @ ELSE @ + 1]
        /\ stream' = BroadcastTo(streams, n, t, reached)

\* Pool::enqueue says whether the transaction is new; a new one is sent on, and
\* is lost to the peers that are not reached.
Handle(n, t, streams) ==
    IF Contains(pool[n].recent, t)
    THEN /\ pool' = [pool EXCEPT ![n] = Enqueued(@, t, Capacity[n])]
         /\ stream' = streams
         /\ UNCHANGED <<lost, accepted>>
    ELSE \E reached \in SUBSET Peers[n] :
         /\ lost' = lost + Cardinality(Peers[n] \ reached)
         /\ lost' <= MaxLost
         /\ pool' = [pool EXCEPT ![n] = Enqueued(@, t, Capacity[n])]
         /\ accepted' = [accepted EXCEPT ![n][t] = @ + 1]
         /\ stream' = BroadcastTo(streams, n, t, reached)

\* A client's message.
Submit(n, t) ==
    /\ submitted < MaxSubmit
    /\ submitted' = submitted + 1
    /\ Handle(n, t, stream)
    /\ UNCHANGED mining

\* A peer's message.
Receive(m, n) ==
    /\ stream[m][n] # << >>
    /\ Handle(n, Head(stream[m][n]), [stream EXCEPT ![m][n] = Tail(@)])
    /\ UNCHANGED <<mining, submitted>>

-----------------------------------------------------------------------------
(* The miner, each time its proof meets the difficulty.  A block without   *)
(* transactions leaves the pool alone.                                     *)

PackageTxs(n) ==
    /\ mining[n] = {}
    /\ pool[n].orders # {}
    /\ mining' = [mining EXCEPT ![n] = Packaged(pool[n])]
    /\ UNCHANGED <<pool, stream, submitted, lost, accepted>>

\* After gen_block.
UpdatePool(n) ==
    /\ mining[n] # {}
    /\ pool' = [pool EXCEPT ![n] = Updated(@, mining[n])]
    /\ mining' = [mining EXCEPT ![n] = {}]
    /\ UNCHANGED <<stream, submitted, lost, accepted>>

\* The process is lost with all it had in memory and all that its streams carried,
\* and started again, on an empty database if its old one has blocks (ChainStore).
Crash(n) ==
    /\ lost < MaxLost
    /\ lost' = lost + 1
    /\ pool' = [pool EXCEPT ![n] = NewPool]
    /\ mining' = [mining EXCEPT ![n] = {}]
    /\ stream' = [m \in Node |-> [k \in Node |-> IF n \in {m, k} THEN << >> ELSE stream[m][k]]]
    /\ accepted' = [accepted EXCEPT ![n] = [t \in Tx |-> 0]]
    /\ UNCHANGED submitted

GossipInit ==
    /\ pool = [n \in Node |-> NewPool]
    /\ stream = [m \in Node |-> [n \in Node |-> << >>]]
    /\ mining = [n \in Node |-> {}]
    /\ submitted = 0
    /\ lost = 0
    /\ accepted = [n \in Node |-> [t \in Tx |-> 0]]

GossipNext ==
    \E n \in Node :
        \/ \E t \in Tx : Submit(n, t)
        \/ \E m \in Node : Receive(m, n)
        \/ PackageTxs(n)
        \/ UpdatePool(n)
        \/ Crash(n)

\* Main loops run, and a miner wins from time to time.
GossipFairness ==
    \A n \in Node :
        /\ \A m \in Node : WF_gossipVars(Receive(m, n))
        /\ WF_gossipVars(PackageTxs(n)) /\ WF_gossipVars(UpdatePool(n))

GossipSpec == GossipInit /\ [][GossipNext]_gossipVars

FairGossip == GossipSpec /\ GossipFairness

-----------------------------------------------------------------------------
(* Properties.                                                             *)

GossipTypeOK ==
    /\ pool \in [Node -> PoolType]
    /\ stream \in [Node -> [Node -> Seq(Tx)]]
    /\ mining \in [Node -> SUBSET Tx]
    /\ submitted \in Nat /\ lost \in Nat
    /\ accepted \in [Node -> [Tx -> Nat]]

\* package finds the transaction of every order: its `panic!("invalid tx order")'
\* is never reached, whatever is pooled, forgotten by the filter, pooled again
\* and packaged twice before the miner comes back to remove what it took.
OrdersHaveTxs == \A n \in Node : \A o \in pool[n].orders : o.hash \in pool[n].txs

\* A node whose filter has room for all that it has seen takes each transaction
\* in once: it is sent round once, ordered once, and not pooled again after a
\* block has carried it.
AcceptedOnce ==
    \A n \in Node :
        Cardinality(Seen(n)) <= Capacity[n] =>
            \A t \in Tx :
                /\ accepted[n][t] <= 1
                /\ Cardinality({o \in pool[n].orders : o.hash = t}) <= accepted[n][t]

\* A transaction taken in by one node is taken in by all, if no message and no
\* node is lost.
ReachesAll ==
    \A t \in Tx :
        (\E n \in Node : t \in pool[n].txs) ~>
            (lost > 0 \/ \A n \in Node : accepted[n][t] > 0)

\* Once clients are done, the messages end, although every node sends what it
\* takes in to all its peers and one of them forgets what it has seen, and the
\* miners leave nothing to package.  (A transaction whose number was in use when
\* the numbers wrapped has no order and stays in the pool.)
Settles ==
    <>[]\A n \in Node : pool[n].orders = {} /\ \A m \in Node : stream[m][n] = << >>

=============================================================================
