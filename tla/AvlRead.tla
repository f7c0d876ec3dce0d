------------------------------- MODULE AvlRead -------------------------------
(***************************************************************************)
(* AVLDB's iterator over what AVLDBMut has committed (Avl): a stack of       *)
(* crumbs, and the descent of `seek' that makes one.                         *)
(***************************************************************************)
EXTENDS Avl, Sequences

Seqs == INSTANCE SequencesExt

\* AVLDBIterator: crumbs, each a node and where in it the walk is.
Entering == 0
At == 1
AtChild(i) == 1 + i
Exiting == 4
Crumb(x, status) == [node |-> Deref(x), status |-> status]

\* A faulty variant: the walk does not stop at a leaf.
IncrementedPast(b) ==
  [b EXCEPT !.status = IF b.node.t \in {"empty", "leaf"} THEN Exiting ELSE @ + 1]

Incremented(b) ==
  [b EXCEPT !.status = IF b.node.t = "empty" \/ (b.node.t = "leaf" /\ @ # Entering)
                       THEN Exiting ELSE @ + 1]

\* All that next returns, called to the end.
RECURSIVE Items(_)
Items(trail) ==
  IF trail = <<>> THEN <<>>
  ELSE LET b  == Incremented(Seqs!Last(trail))
           up == Seqs!Front(trail)
           on == Append(up, b)
       IN  CASE b.status = Exiting -> Items(up)
             [] b.status = At -> (IF b.node.t = "leaf" THEN <<<<b.node.k, b.node.v>>>>
                                  ELSE <<>>) \o Items(on)
             [] OTHER -> LET x == b.node.c[b.status - 1]
                         IN  IF Stored(x) THEN Items(Append(on, Crumb(x, Entering)))
                             ELSE <<"IncompleteDatabase">> \o Items(on)

\* seek_descend
RECURSIVE Sought(_, _)
Sought(x, key) ==
  LET n == Deref(x) IN
  CASE ~Stored(x) \/ n.t = "empty" -> <<>>
    [] n.t = "leaf" -> <<Crumb(n, IF n.k <= key THEN At ELSE Entering)>>
    [] n.t = "branch" -> LET i == Side(key, n)
                         IN  <<Crumb(n, AtChild(i))>> \o Sought(n.c[i], key)

-----------------------------------------------------------------------------
(* Properties                                                               *)

InOrder(cs, ks) ==
  LET sorted == Seqs!SetToSortSeq(ks, LAMBDA a, b : a < b)
  IN  [i \in DOMAIN sorted |-> <<sorted[i], cs[sorted[i]]>>]

\* What commit has written can be read back by another process until the next
\* commit: the iterator returns all of it in the order of keys, and after a seek
\* the keys that are greater than the one sought, as the trait says (avl/mod.rs:172)
\* and the test iterator_seek; avldb.rs:243 says `key >= key', and is wrong.
IteratesInOrder ==
  /\ Stored(diskRoot)
  /\ Items(<<Crumb(diskRoot, Entering)>>) = InOrder(saved, Present(saved))
  /\ \A key \in Key : Items(Sought(diskRoot, key))
                        = InOrder(saved, {k \in Present(saved) : k > key})

=============================================================================
