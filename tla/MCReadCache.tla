---------------------------- MODULE MCReadCache ----------------------------
(* Two threads, the id of a block, which is noted when read only, and of an *)
(* address, which is deleted; the collector keeps two generations.  An     *)
(* index entry is put and read as an address is, and is never deleted; a   *)
(* third id is too much for a run, and the theorems have any number of all. *)
EXTENDS ReadCache, TLC

MCValues == [i \in Id |-> IF i \in Addresses THEN {"old", "new"} ELSE {"header"}]

\* A signed header is read back with another hash.
MCDecoded == [v \in {"old", "new", "header"} |-> IF v = "header" THEN "rehashed" ELSE v]

Threads == Permutations(Thread)

=============================================================================
