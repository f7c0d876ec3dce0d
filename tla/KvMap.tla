-------------------------------- MODULE KvMap --------------------------------
(***************************************************************************)
(* The key-value store of util/kvdb as its users see it, and as InMemory     *)
(* is: a map from keys in columns to values, which a transaction changes at  *)
(* once.  A value given to put_compressed may be compressed at any time, and  *)
(* reads compressed from then on: no get decompresses it.  `losses` counts    *)
(* the events after which the contents may be others.                         *)
(***************************************************************************)
EXTENDS Naturals

CONSTANTS Key, Value,
          MaxCol,   \* columns are 1 .. MaxCol; 0 is the one of None
          Nothing,  \* no value
          Batch     \* the transactions: what each does to each cell

Cell == (0 .. MaxCol) \X Key

Kept == [do |-> "none", v |-> Nothing]
Entry == [do : {"insert", "compressed"}, v : Value] \cup
         {Kept, [do |-> "delete", v |-> Nothing]}

VARIABLES map,     \* what each cell reads as
          last,    \* history: how many transactions there were, and the last one
          losses   \* history

vars == <<map, last, losses>>

Missing == [form |-> "plain", v |-> Nothing]

\* What an entry reads as, once it is written: as it was given or compressed.
Written(e, packed) ==
  [form |-> CASE e.do # "compressed" -> "plain"
              [] e.do = "compressed" /\ ~packed -> "compressible"
              [] e.do = "compressed" /\ packed -> "compressed",
   v |-> e.v]

Init ==
  /\ map = [x \in Cell |-> Missing]
  /\ last = <<0, [x \in Cell |-> Kept]>>
  /\ losses = 0

Applied(m, b, packed) ==
  [x \in Cell |-> IF b[x] = Kept THEN m[x] ELSE Written(b[x], packed)]

Write(b) ==
  /\ \E packed \in BOOLEAN : map' = Applied(map, b, packed)
  /\ last' = <<last[1] + 1, b>>
  /\ UNCHANGED losses

\* Some of the values that are to be compressed are.
Pack ==
  /\ \E cells \in SUBSET {x \in Cell : map[x].form = "compressible"} :
       map' = [x \in Cell |-> IF x \in cells THEN [map[x] EXCEPT !.form = "compressed"]
                              ELSE map[x]]
  /\ UNCHANGED <<last, losses>>

Lose == losses' # losses

Next == (\E b \in Batch : Write(b)) \/ Pack \/ Lose

Spec == Init /\ [][Next]_vars

=============================================================================
