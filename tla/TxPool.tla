------------------------------- MODULE TxPool -------------------------------
(***************************************************************************)
(* The transaction pool of tx_pool/src/pool.rs with its filter, filter.rs: *)
(* a pool is a record, each method an operator on it.                      *)
(*                                                                         *)
(*   recent   the keys of Filter.inner, an LruCache: least recent first    *)
(*   orders   order_set: a hash and the number it was accepted under       *)
(*   txs      the keys of Pool.txs                                         *)
(*   order    Pool.order, the next number                                  *)
(*                                                                         *)
(* A transaction is its hash.  All three strategies number transactions as *)
(* they come.                                                              *)
(***************************************************************************)
EXTENDS Integers, Sequences, FiniteSets

CONSTANTS
    Tx,             \* the hashes of transactions
    PackageLimit,   \* Pool.package_limit
    OrderSpace      \* how many orders there are: 2^64

\* package counts package_limit down to zero.
ASSUME PoolAssumption == PackageLimit \in Nat \ {0} /\ OrderSpace \in Nat \ {0}

TxOrder == [hash : Tx, order : 0 .. OrderSpace - 1]

PoolType == [recent : Seq(Tx), orders : SUBSET TxOrder, txs : SUBSET Tx,
             order : 0 .. OrderSpace - 1]

NewPool == [recent |-> << >>, orders |-> {}, txs |-> {}, order |-> 0]

-----------------------------------------------------------------------------
(* Filter::check.  LruCache is a library: looking a key up makes it the    *)
(* most recent, and an insert past the capacity drops the least recent.    *)

Contains(recent, t) == \E i \in DOMAIN recent : recent[i] = t

Position(recent, t) == CHOOSE i \in DOMAIN recent : recent[i] = t

Refreshed(recent, t) ==
    LET i == Position(recent, t)
    IN Append(SubSeq(recent, 1, i - 1) \o SubSeq(recent, i + 1, Len(recent)), t)

\* A faulty variant: a full cache makes room for one more.
InsertedBelow(recent, t, capacity) ==
    LET longer == Append(recent, t)
    IN IF Len(longer) >= capacity THEN Tail(longer) ELSE longer

Inserted(recent, t, capacity) ==
    LET longer == Append(recent, t)
    IN IF Len(longer) > capacity THEN Tail(longer) ELSE longer

-----------------------------------------------------------------------------
(* Pool.                                                                   *)

\* A BTreeSet keeps the element it has when an equal one is inserted, and two
\* TxOrders are equal when their numbers are.
Ordered(orders, t, n) ==
    IF \E o \in orders : o.order = n THEN orders
    ELSE orders \union {[hash |-> t, order |-> n]}

\* Pool::enqueue
Enqueued(pool, t, capacity) ==
    IF Contains(pool.recent, t)
    THEN [pool EXCEPT !.recent = Refreshed(@, t)]
    ELSE [recent |-> Inserted(pool.recent, t, capacity),
          orders |-> Ordered(pool.orders, t, pool.order),
          txs |-> pool.txs \union {t},
          order |-> (pool.order + 1) % OrderSpace]

\* A faulty variant: one order is removed for each hash of the list.
UpdatedOnce(pool, hashes) ==
    [pool EXCEPT !.txs = @ \ hashes,
                 !.orders = {o \in @ : o.hash \notin hashes
                                        \/ \E p \in @ : p.hash = o.hash /\ p.order < o.order}]

\* Pool::update
Updated(pool, hashes) ==
    [pool EXCEPT !.txs = @ \ hashes, !.orders = {o \in @ : o.hash \notin hashes}]

\* Pool::package, its list of hashes: those of the first package_limit orders.
\* It panics on an order whose transaction the pool does not hold.
Packaged(pool) ==
    LET before(o) == {p \in pool.orders : p.order < o.order}
    IN {o.hash : o \in {q \in pool.orders : Cardinality(before(q)) < PackageLimit}}

=============================================================================
