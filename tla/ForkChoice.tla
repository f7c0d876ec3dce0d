----------------------------- MODULE ForkChoice -----------------------------
(***************************************************************************)
(* What the chain store promises, without its index, its cache and its     *)
(* transaction checks: it holds a tree of blocks closed under parents, and *)
(* one tip in it.  A step learns one block whose parent is held; the tip   *)
(* then stays, or moves to that block, and it moves only to a block one    *)
(* higher than the tip or as high as the tip (the later of two equally     *)
(* high blocks wins).  A restart may not change either.                    *)
(***************************************************************************)
EXTENDS BlockTree

VARIABLES
    known,      \* the blocks held
    tip         \* the best block

vars == <<known, tip>>

Init ==
    /\ known = {Genesis}
    /\ tip = Genesis

Learn(b) ==
    /\ b \notin known
    /\ Parent(b) \in known
    /\ known' = known \union {b}
    /\ \/ tip' = tip
       \/ tip' = b /\ Height(b) \in {Height(tip), Height(tip) + 1}

Next == \E b \in Block : Learn(b)

Spec == Init /\ [][Next]_vars

=============================================================================
