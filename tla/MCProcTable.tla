---------------------------- MODULE MCProcTable -----------------------------
(* ProcTable on a table of a few slots.                                    *)
EXTENDS ProcTable
=============================================================================
