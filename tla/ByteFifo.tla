------------------------------ MODULE ByteFifo ------------------------------
(***************************************************************************)
(* What a pipe promises: bytes come out in the order they went in, each    *)
(* once, at most Size of them are under way, nothing goes in once the read *)
(* end is closed, and a closed end stays closed.  Module Pipe is the       *)
(* implementation (kernel/pipe.c).                                         *)
(***************************************************************************)
EXTENDS Naturals, Sequences

CONSTANTS Byte, Size

VARIABLES queue,     \* the bytes under way
          reading,   \* 1 while the read end is open, then 0
          writing    \* the same for the write end

vars == <<queue, reading, writing>>

Init == queue = <<>> /\ reading = 1 /\ writing = 1

Put(b) ==
  /\ reading = 1 /\ writing = 1
  /\ Len(queue) < Size
  /\ queue' = Append(queue, b)
  /\ UNCHANGED <<reading, writing>>

Get ==
  /\ reading = 1
  /\ queue # <<>>
  /\ queue' = Tail(queue)
  /\ UNCHANGED <<reading, writing>>

CloseRead == reading = 1 /\ reading' = 0 /\ UNCHANGED <<queue, writing>>
CloseWrite == writing = 1 /\ writing' = 0 /\ UNCHANGED <<queue, reading>>

Next == (\E b \in Byte : Put(b)) \/ Get \/ CloseRead \/ CloseWrite
Spec == Init /\ [][Next]_vars
=============================================================================
