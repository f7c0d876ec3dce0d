--------------------------------- MODULE Avl ---------------------------------
(***************************************************************************)
(* The key-value tree of util/src/avl: a binary search tree with its values *)
(* in the leaves, edited in memory by AVLDBMut, written by commit to a      *)
(* database that keeps each node under its hash, and read back by AVLDB.    *)
(*                                                                          *)
(* A hash determines its node, so Hash(n) holds the node itself; what may   *)
(* go wrong is that the database no longer has it.  A node that was loaded  *)
(* and not changed is the same thing as its hash (Stored::Cached): handles  *)
(* are hashes, or nodes that differ from all that is stored (Stored::New).  *)
(* Slots of NodeStorage are owned by one handle each and need no names.     *)
(*                                                                          *)
(* Keys are what FatDBMut and SecAVLDBMut make of theirs: hashes, ordered.  *)
(* Bounds: MaxOps, the number of insert and remove calls of a run, and      *)
(* MaxDepth, the depth of the trees a run may come to.                      *)
(***************************************************************************)
EXTENDS Integers, Bags

CONSTANTS Key,    \* ordered: numbers
          Value,
          Long,   \* the values too long for a node that is kept inside its parent
          MaxOps,
          MaxDepth

ASSUME AvlAssumption ==
  Key \subseteq Int /\ Long \subseteq Value /\ MaxOps \in Nat /\ MaxDepth \in Nat

VARIABLES
  root,      \* root_handle
  diskRoot,  \* *root: what AVLDB, or the next AVLDBMut, is opened with
  db,        \* the nodes stored, with the number of times
  deathRow,  \* nodes that commit will remove
  aux,       \* FatDBMut: the hashes whose keys are stored
  contents,  \* history: what the calls so far amount to
  saved,     \* history: the contents diskRoot stands for
  shrunk,    \* history: a removal has changed the tree
  ops        \* history: the calls so far

vars == <<root, diskRoot, db, deathRow, aux, contents, saved, shrunk, ops>>

Nothing == "none"

Empty == [t |-> "empty"]
Leaf(k, v) == [t |-> "leaf", k |-> k, v |-> v]
Branch(h, k, l, r) == [t |-> "branch", h |-> h, k |-> k, c |-> <<l, r>>]
Gone == [t |-> "gone"]  \* no node: None of remove_at
Hash(n) == [t |-> "hash", of |-> n]

\* cache, get_raw_or_lookup: the node of a handle.
Deref(x) == IF x.t = "hash" THEN x.of ELSE x

\* The nodes of a depth, the handles of nodes, and those a run may come to.
Handles(nodes) == nodes \cup [t : {"hash"}, of : nodes]
NodesOf[d \in Nat] ==
  IF d = 0 THEN {Empty} \cup [t : {"leaf"}, k : Key, v : Value]
  ELSE NodesOf[d - 1]
         \cup [t : {"branch"}, h : Int, k : Key, c : [1 .. 2 -> Handles(NodesOf[d - 1])]]
Handle == Handles(NodesOf[MaxDepth])

\* Which child a key belongs to, and the other one.
Side(key, n) == IF key < n.k THEN 1 ELSE 2
Other(i) == 3 - i

-----------------------------------------------------------------------------
(* Heights and rotations                                                    *)

Height(x) ==
  LET n == Deref(x) IN
  CASE n.t = "empty" -> 0 [] n.t = "leaf" -> 1 [] n.t = "branch" -> n.h

\* left_rotate for i = 1, right_rotate for i = 2: k2, child i of k1, takes its
\* place and its height; k1 goes one down.
Rotate(k1, k2, i) ==
  LET down == [k1 EXCEPT !.h = @ - 1, !.c[i] = k2.c[Other(i)]]
  IN  [k2 EXCEPT !.h = k1.h, !.c[Other(i)] = down]

\* A faulty variant, for the mutants: a single rotation will do.
RotateSuccessorSingle(k1, i) == Rotate(k1, Deref(k1.c[i]), i)

\* left_rotate_successor, right_rotate_successor: child i is too high.
RotateSuccessor(k1, i) ==
  LET k2 == Deref(k1.c[i])
      j  == Other(i)
  IN  IF Height(k2.c[i]) < Height(k2.c[j])
      THEN Rotate(k1, Rotate(k2, Deref(k2.c[j]), j), i)
      ELSE Rotate(k1, k2, i)

\* rotate_if_necessary, of a node that has changed.
Rebalanced(n) ==
  IF n.t # "branch" THEN n
  ELSE LET lh == Height(n.c[1])
           rh == Height(n.c[2])
       IN  CASE lh = 2 + rh -> RotateSuccessor(n, 1)
             [] rh = 2 + lh -> RotateSuccessor(n, 2)
             [] OTHER -> [n EXCEPT !.h = (IF lh > rh THEN lh ELSE rh) + 1]

-----------------------------------------------------------------------------
(* Inserting and removing: the handle that takes x's place, whether it is   *)
(* another node, the old value it reports, and the hashes put on death row. *)

Dead(x) == IF x.t = "hash" THEN {x.of} ELSE {}

\* A faulty variant: a node that was only looked at is taken for replaced.
RestoredDead(x, old) == [node |-> x, changed |-> FALSE, old |-> old, dead |-> Dead(x)]

Restored(x, old) == [node |-> x, changed |-> FALSE, old |-> old, dead |-> {}]
Replaced(x, n, old, dead) ==
  [node |-> Rebalanced(n), changed |-> TRUE, old |-> old, dead |-> dead \cup Dead(x)]

\* insert_at and its inspector; at is insert_at for the children.
InsertInspected(at, x, key, value) ==
  LET n == Deref(x) IN
  CASE n.t = "empty" -> Replaced(x, Leaf(key, value), Nothing, {})
    [] n.t = "leaf" /\ n.k = key ->
         IF n.v = value THEN Restored(x, n.v)
         ELSE Replaced(x, Leaf(key, value), n.v, {})
    [] n.t = "leaf" /\ n.k < key ->
         Replaced(x, Branch(1, key, n, Leaf(key, value)), Nothing, {})
    [] n.t = "leaf" /\ n.k > key ->
         Replaced(x, Branch(1, n.k, Leaf(key, value), n), Nothing, {})
    [] n.t = "branch" ->
         LET i == Side(key, n)
             r == at[n.c[i]]
         IN  IF r.changed THEN Replaced(x, [n EXCEPT !.c[i] = r.node], r.old, r.dead)
             ELSE Restored(x, r.old)
InsertedAt(key, value) ==
  LET at[x \in Handle] == InsertInspected(at, x, key, value) IN at

\* remove_inspector never sets old_val.  A branch that loses a child becomes
\* a copy of the other one, whose hash is not put on death row.
RemoveInspected(at, x, key) ==
  LET n == Deref(x)
      deleted == Replaced(x, Gone, Nothing, {})
  IN
  CASE n.t = "empty" -> deleted
    [] n.t = "leaf" -> IF n.k = key THEN deleted ELSE Restored(x, Nothing)
    [] n.t = "branch" ->
         LET i == Side(key, n)
             r == at[n.c[i]]
         IN  IF ~r.changed THEN Restored(x, r.old)
             ELSE Replaced(x, IF r.node = Gone THEN Deref(n.c[Other(i)])
                              ELSE [n EXCEPT !.c[i] = r.node], r.old, r.dead)
RemovedAt(key) ==
  LET at[x \in Handle] == RemoveInspected(at, x, key) IN at

-----------------------------------------------------------------------------
(* Committing                                                               *)

HashSize == 32

\* The bytes of a node's encoding, of short keys: a list with its header.
Size[x \in Handle] ==
  CASE x.t = "empty" -> 1
    [] x.t = "hash" -> HashSize + 1
    [] x.t = "leaf" -> IF x.v \in Long THEN HashSize ELSE 6
    [] x.t = "branch" -> 5 + Size[x.c[1]] + Size[x.c[2]]

\* commit_node: what a parent's encoding holds of a child, a hash or, if
\* that is shorter, the child itself.
Shortened(n) == IF Size[n] >= HashSize THEN Hash(n) ELSE n
Packed[x \in Handle] ==
  CASE x.t = "hash" -> x
    [] x.t = "branch" -> Shortened([x EXCEPT !.c = [i \in 1 .. 2 |-> Packed[x.c[i]]]])
    [] OTHER -> Shortened(x)
Node(x) ==
  IF x.t = "branch" THEN [x EXCEPT !.c = [i \in 1 .. 2 |-> Packed[x.c[i]]]] ELSE x

\* The nodes commit_node inserts under x.
Written[x \in Handle] ==
  (IF x.t = "branch" THEN Written[x.c[1]] \cup Written[x.c[2]] ELSE {})
    \cup (IF x.t # "hash" /\ Packed[x].t = "hash" THEN {Packed[x].of} ELSE {})

\* The backing HashDB removes and inserts one copy; the empty node is always
\* there and never counted.
Without(stored, nodes) == stored (-) SetToBag(nodes \ {Empty})
With(stored, nodes) == stored (+) SetToBag(nodes)

Commit ==
  /\ root.t # "hash" \/ deathRow # {}
  /\ deathRow' = {}
  /\ IF root.t = "hash"
     THEN /\ db' = Without(db, deathRow)
          /\ UNCHANGED <<root, diskRoot, saved>>
     ELSE /\ root' = Hash(Node(root))
          /\ diskRoot' = root'
          /\ db' = With(Without(db, deathRow), Written[root] \cup {Node(root)})
          /\ saved' = contents
  /\ UNCHANGED <<aux, contents, shrunk, ops>>

-----------------------------------------------------------------------------
(* Reading                                                                  *)

\* Whether the database has what a handle names.
Stored(x) == x.t = "hash" => x.of = Empty \/ BagIn(x.of, db)

\* AVLDBMut::lookup and, from the first hash on, Lookup::look_up.
LookUp(key) ==
  LET at[x \in Handle] ==
        IF ~Stored(x) THEN "IncompleteDatabase"
        ELSE LET n == Deref(x) IN
             CASE n.t = "empty" -> Nothing
               [] n.t = "leaf" -> IF n.k = key THEN n.v ELSE Nothing
               [] n.t = "branch" -> at[n.c[Side(key, n)]]
  IN  at

-----------------------------------------------------------------------------
(* The calls                                                                *)

Init ==
  /\ root = Hash(Empty) /\ diskRoot = Hash(Empty)
  /\ db = EmptyBag /\ deathRow = {} /\ aux = {}
  /\ contents = [k \in Key |-> Nothing] /\ saved = contents
  /\ shrunk = FALSE /\ ops = 0

\* FatDBMut::insert
Insert(k, v) ==
  LET r == InsertedAt(k, v)[root] IN
  /\ ops < MaxOps /\ ops' = ops + 1
  /\ root' = r.node /\ root' \in Handle
  /\ deathRow' = deathRow \cup r.dead
  /\ aux' = IF r.old = Nothing THEN aux \cup {k} ELSE aux
  /\ contents' = [contents EXCEPT ![k] = v]
  /\ UNCHANGED <<diskRoot, db, saved, shrunk>>

\* FatDBMut::remove, and the insert of an empty value, which the tree takes for a
\* remove, while FatDBMut stores the key if no old value is returned.
Remove(k) ==
  LET r == RemovedAt(k)[root] IN
  /\ ops < MaxOps /\ ops' = ops + 1
  /\ IF r.node = Gone
     THEN /\ root' = Hash(Empty)
          /\ diskRoot' = Hash(Empty)
          /\ saved' = [key \in Key |-> Nothing]
     ELSE root' = r.node /\ root' \in Handle /\ UNCHANGED <<diskRoot, saved>>
  /\ deathRow' = deathRow \cup r.dead
  /\ \/ aux' = IF r.old # Nothing THEN aux \ {k} ELSE aux
     \/ aux' = IF r.old = Nothing THEN aux \cup {k} ELSE aux
  /\ contents' = [contents EXCEPT ![k] = Nothing]
  /\ shrunk' = (shrunk \/ r.changed)
  /\ UNCHANGED db

Next ==
  \/ \E k \in Key, v \in Value : Insert(k, v)
  \/ \E k \in Key : Remove(k)
  \/ Commit

Spec == Init /\ [][Next]_vars

-----------------------------------------------------------------------------
(* Properties                                                               *)

Present(cs) == {k \in Key : cs[k] # Nothing}

\* Every key is found with its last value, whichever nodes have been rotated,
\* written, taken from the database and put on death row since: no node in
\* use has been removed from the database, and none is out of order.  Another
\* process finds, until the next commit, what the last one has written.  insert
\* reports the value it replaces, and FatDBMut, which goes by that, has stored the
\* key of every hash in the tree.
LooksUp ==
  /\ \A k \in Key : LookUp(k)[root] = contents[k] /\ LookUp(k)[diskRoot] = saved[k]
  /\ \A k \in Key, v \in Value : InsertedAt(k, v)[root].old = contents[k]
  /\ Present(contents) \subseteq aux

MaxOf(i, j) == IF i > j THEN i ELSE j

\* Every branch is higher than its children, which are not empty.
Towers[x \in Handle] ==
  LET n == Deref(x) IN
  n.t = "branch" =>
    \A i \in 1 .. 2 : Height(n.c[i]) \in 1 .. n.h - 1 /\ Towers[n.c[i]]

\* Its height is that of its higher child and one, and the heights of its
\* children differ by one at most.
Balanced[x \in Handle] ==
  LET n == Deref(x) IN
  n.t = "branch" =>
    LET lh == Height(n.c[1])
        rh == Height(n.c[2])
    IN  /\ n.h = MaxOf(lh, rh) + 1
        /\ lh - rh \in -1 .. 1
        /\ Balanced[n.c[1]] /\ Balanced[n.c[2]]

\* A rotation always finds the branches it takes apart (unreachable!() is), and
\* no height falls below zero, however removals have left the heights: every
\* branch is higher than its children.  A tree that has only grown is an AVL tree.
\* After a removal it need not be one, see HeightsAreHeights.
HeightsSuffice == Towers[root] /\ (~shrunk => Balanced[root])

\* mod.rs says of remove, too, that it returns the old value.
RemoveReturnsOld == \A k \in Key : RemovedAt(k)[root].old = contents[k]

\* node.rs says that a branch holds a height: a single rotation after a removal
\* leaves two nodes with one too many.
HeightsAreHeights == Balanced[root]

=============================================================================
