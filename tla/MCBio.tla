------------------------------- MODULE MCBio --------------------------------
(* The buffer cache over the disk driver, with threads, blocks and contents *)
(* as model values.  There is a block more than there are buffers, so that  *)
(* bget recycles; and a ring either too small for two requests, so that     *)
(* alloc3_desc fails, or large enough, so that two are in flight.  With the *)
(* small one a buffer may be pinned.                                        *)
EXTENDS Bio, TLC

MCPins == [n \in Nums |-> IF n = 4 THEN 1 ELSE 0]

Symmetry == Permutations(Thread) \cup Permutations(Block) \cup Permutations(Val)
=============================================================================
