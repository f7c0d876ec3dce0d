------------------------------- MODULE MCKvDb -------------------------------
(* Two threads, columns 0 .. 2 of which the database has 0 and 1 at first,    *)
(* one key, and three transactions.                                           *)
EXTENDS KvDb, TLC

CONSTANTS k, v1, v2, t1, t2

Put(v) == [do |-> "insert", v |-> v]
Packs(v) == [do |-> "compressed", v |-> v]
Out == [do |-> "delete", v |-> Nothing]
None == [do |-> "none", v |-> Nothing]

MCBatch ==
  {<<0, k>> :> Put(v1)   @@ <<1, k>> :> Packs(v1) @@ <<2, k>> :> None,
   <<0, k>> :> Packs(v2) @@ <<1, k>> :> Out       @@ <<2, k>> :> None,
   <<0, k>> :> None      @@ <<1, k>> :> None      @@ <<2, k>> :> Put(v1)}

Symmetry == Permutations({t1, t2})

=============================================================================
