------------------------------- MODULE MCPipe -------------------------------
(* Pipe with processes and bytes as model values.                          *)
EXTENDS Pipe, TLC

Symmetry == Permutations(Byte)
=============================================================================
