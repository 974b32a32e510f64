------------------------------ MODULE MCConsole ------------------------------
(* Console with a view of the live cells of its two buffers.               *)
EXTENDS Console

CONSTANTS r1, r2, w1, w2

MCChar == {"x", "cr", "D", "P", "U", "H", "nul"}
MCByte == {"a", "b"}

\* One process reads whatever is typed, or two read at once; or a process
\* writes and prints while the handler prints, or two do without it.
MCLoads == {[procs |-> {r1}, chars |-> MCChar \ {"P"}, sizes |-> 0..2, bytes |-> {}],
            [procs |-> {r1, r2}, chars |-> {"x", "D"}, sizes |-> {2}, bytes |-> {}],
            [procs |-> {w1}, chars |-> {"P"}, sizes |-> {}, bytes |-> MCByte],
            [procs |-> {w1, w2}, chars |-> {}, sizes |-> {}, bytes |-> {"a"}]}

\* A cell that is outside the ring's indices is overwritten before it is read.
View == <<Cells(buf, INPUT_BUF, r, e), Cells(txbuf, UART_TX_BUF_SIZE, txr, txw), r, w, e, txr, txw,
          lock, txlock, uart, pc, char, echo, reading, asleep, killed, panicked, load>>
=============================================================================
