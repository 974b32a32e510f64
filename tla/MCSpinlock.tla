----------------------------- MODULE MCSpinlock -----------------------------
(* Spinlock with threads and CPUs as model values.                         *)
EXTENDS Spinlock, TLC

Symmetry == Permutations(Thread) \cup Permutations(Cpu)
=============================================================================
