------------------------------- MODULE MCLog --------------------------------
(* Log with threads, blocks and contents as model values.                  *)
EXTENDS Log, TLC

Symmetry == Permutations(Proc)
=============================================================================
