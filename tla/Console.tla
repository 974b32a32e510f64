------------------------------ MODULE Console ------------------------------
(***************************************************************************)
(* The console (kernel/console.c) on the serial line (kernel/uart.c):      *)
(* processes read lines and write bytes, the kernel prints, characters are *)
(* typed, and the interrupt handler edits and echoes the line and sends    *)
(* the bytes that wait.                                                    *)
(*                                                                         *)
(* Every process, and the handler, has a CPU of its own: what they do with *)
(* a spinlock held or interrupts off is not preempted.  A step ends where  *)
(* a lock is released, where the transmitter's state has been read, and    *)
(* after the test of p->killed.  cons.r, cons.w and cons.e wrap at WRAP    *)
(* (2^32 in the code), and so do uart_tx_r and uart_tx_w.  The UART is     *)
(* modelled as the driver relies on it: a transmit FIFO that is announced  *)
(* idle once it is empty, and an interrupt for each character received and *)
(* each time the FIFO runs empty.                                          *)
(***************************************************************************)
EXTENDS Naturals, Sequences, FiniteSets

CONSTANTS Reader, Writer,        \* processes that read, that write and print
          Nobody,                \* a free lock's holder
          Char, Byte,            \* characters that are typed, bytes that are written
          Loads,                 \* bound: which of all these, and sizes of reads, meet in one behaviour
          INPUT_BUF, UART_TX_BUF_SIZE, WRAP,
          FIFO                   \* depth of the UART's transmit FIFO

Proc == Reader \cup Writer
Intr == "uartintr"               \* the interrupt handler, as an actor
Echo == "echo"                   \* a byte that consputc sends
Special == {"P", "U", "H", "nul"}

ASSUME ActorAssumption == Nobody \notin Proc \cup {Intr} /\ Intr \notin Proc /\ Reader \cap Writer = {}
ASSUME CharAssumption == {"nl", "D"} \cap Special = {} /\ Echo \notin Byte
ASSUME LoadsAssumption == \A l \in Loads :
  l.procs \subseteq Proc /\ l.chars \subseteq Char /\ l.sizes \subseteq Nat /\ l.bytes \subseteq Byte
ASSUME WrapAssumption ==
  /\ WRAP \in Nat /\ {INPUT_BUF, UART_TX_BUF_SIZE} \subseteq 1..(WRAP - 1)
  /\ WRAP % INPUT_BUF = 0 /\ WRAP % UART_TX_BUF_SIZE = 0
\* A 16550 has 16 bytes, and the kernel at most 8 CPUs (NCPU).
ASSUME FifoAssumption == FIFO >= Cardinality(Proc) + 1

VARIABLES buf, r, w, e, lock,            \* cons; lock is the holder of cons.lock
          txbuf, txr, txw, txlock,       \* the uart_tx_ variables
          fifo, rx, irq,                 \* the UART, and its pending interrupt
          pc, char,                      \* where each actor is, with which character
          echo,                          \* bytes consputc has yet to send
          left, target,                  \* n and target in consoleread
          asleep, killed,                \* the channel a process sleeps on; p->killed
          panicked,                      \* printf.c: a CPU has panicked
          load                           \* the processes, characters, sizes of reads and bytes of this behaviour

cons == <<buf, r, w, e, lock>>
tx == <<txbuf, txr, txw, txlock>>
uart == <<fifo, rx, irq>>
reading == <<left, target>>
vars == <<cons, tx, uart, pc, char, echo, reading, asleep, killed, panicked, load>>

Init ==
  /\ buf = [k \in 0..(INPUT_BUF - 1) |-> "nul"] /\ r = 0 /\ w = 0 /\ e = 0 /\ lock = Nobody
  /\ txbuf = [k \in 0..(UART_TX_BUF_SIZE - 1) |-> "nul"] /\ txr = 0 /\ txw = 0 /\ txlock = Nobody
  /\ fifo = <<>> /\ rx = <<>> /\ irq = FALSE
  /\ pc = [a \in Proc \cup {Intr} |-> "idle"]
  /\ char = [a \in Proc \cup {Intr} |-> "nul"]
  /\ echo = 0
  /\ left = [p \in Reader |-> 0] /\ target = [p \in Reader |-> 0]
  /\ asleep = [p \in Proc |-> "no"]
  /\ killed = [p \in Proc |-> FALSE]
  /\ panicked = FALSE
  /\ load \in Loads

Goto(a, to) == pc' = [pc EXCEPT ![a] = to]
Wakeup(chan) == [p \in Proc |-> IF asleep[p] = chan THEN "no" ELSE asleep[p]]
Minus(a, b) == (a + WRAP - b) % WRAP

---------------------------------------------------------------------------
(* consoleread.  A process that was killed makes no more calls.            *)

consoleread(p, n) ==
  /\ pc[p] = "idle" /\ ~killed[p]
  /\ left' = [left EXCEPT ![p] = n] /\ target' = [target EXCEPT ![p] = n]
  /\ Goto(p, "read_acquire")
  /\ UNCHANGED <<cons, tx, uart, char, echo, asleep, killed, panicked>>

\* acquire(&cons.lock), at the start or at the end of sleep().
read_acquire(p) ==
  /\ pc[p] = "read_acquire" /\ asleep[p] = "no"
  /\ lock = Nobody /\ lock' = p
  /\ Goto(p, "read")
  /\ UNCHANGED <<buf, r, w, e, tx, uart, char, echo, reading, asleep, killed, panicked>>

\* release(&cons.lock) and return.
ReadReturns(p) ==
  /\ lock' = Nobody
  /\ left' = [left EXCEPT ![p] = 0] /\ target' = [target EXCEPT ![p] = 0]
  /\ Goto(p, "idle")

\* Nothing to read: give up if killed, or else sleep, but kill() may come between.
read_wait(p) ==
  /\ pc[p] = "read" /\ left[p] > 0 /\ r = w
  /\ \/ killed[p] /\ ReadReturns(p)
     \/ ~killed[p] /\ Goto(p, "read_sleep") /\ UNCHANGED <<lock, reading>>
  /\ UNCHANGED <<buf, r, w, e, tx, uart, char, echo, asleep, killed, panicked>>

read_sleep(p) ==
  /\ pc[p] = "read_sleep"
  /\ asleep' = [asleep EXCEPT ![p] = "r"]
  /\ lock' = Nobody
  /\ Goto(p, "read_acquire")
  /\ UNCHANGED <<buf, r, w, e, tx, uart, char, echo, reading, killed, panicked>>

\* The next character; copied is whether either_copyout succeeds.
read_char(p, copied) ==
  /\ pc[p] = "read" /\ left[p] > 0 /\ r # w
  /\ LET c == buf[r % INPUT_BUF] IN
     \/ /\ c = "D" /\ copied
        /\ r' = IF left[p] < target[p] THEN r ELSE (r + 1) % WRAP
        /\ ReadReturns(p)
     \/ /\ c # "D"
        /\ r' = (r + 1) % WRAP
        /\ IF c = "nl" \/ ~copied THEN ReadReturns(p)
           ELSE left' = [left EXCEPT ![p] = @ - 1] /\ UNCHANGED <<lock, target, pc>>
  /\ UNCHANGED <<buf, w, e, tx, uart, char, echo, asleep, killed, panicked>>

\* n is 0: all that was asked for is there.
read_done(p) ==
  /\ pc[p] = "read" /\ left[p] = 0
  /\ ReadReturns(p)
  /\ UNCHANGED <<buf, r, w, e, tx, uart, char, echo, asleep, killed, panicked>>

\* kill() needs only p->lock.
kill(p) ==
  /\ ~killed[p]
  /\ killed' = [killed EXCEPT ![p] = TRUE]
  /\ asleep' = [asleep EXCEPT ![p] = "no"]
  /\ UNCHANGED <<cons, tx, uart, pc, char, echo, reading, panicked>>

---------------------------------------------------------------------------
(* The transmitter.                                                        *)

Idle == fifo = <<>>                          \* LSR_TX_IDLE
Sent(b) == fifo' = IF Len(fifo) < FIFO THEN Append(fifo, b) ELSE fifo   \* WriteReg(THR, b)

\* Each byte of consolewrite is a call of uartputc.
consolewrite(p, b) ==
  /\ pc[p] = "idle" /\ ~killed[p]
  /\ char' = [char EXCEPT ![p] = b]
  /\ Goto(p, "putc")
  /\ UNCHANGED <<cons, tx, uart, echo, reading, asleep, killed, panicked>>

\* uartputc with the lock, which it keeps for uartstart, or for ever when a CPU
\* has panicked before; it looks at panicked once, and not again after a sleep.
uartputc(p) ==
  /\ pc[p] \in {"putc", "putc_full"} /\ asleep[p] = "no"
  /\ txlock = Nobody
  /\ \/ /\ panicked /\ pc[p] = "putc"
        /\ txlock' = p
        /\ Goto(p, "dead")
        /\ UNCHANGED <<txbuf, txw, char, asleep>>
     \/ /\ ~panicked \/ pc[p] = "putc_full"
        /\ txw = (txr + UART_TX_BUF_SIZE) % WRAP
        /\ asleep' = [asleep EXCEPT ![p] = "tx_r"]
        /\ Goto(p, "putc_full")
        /\ UNCHANGED <<txbuf, txw, txlock, char>>
     \/ /\ ~panicked \/ pc[p] = "putc_full"
        /\ txw # (txr + UART_TX_BUF_SIZE) % WRAP
        /\ txbuf' = [txbuf EXCEPT ![txw % UART_TX_BUF_SIZE] = char[p]]
        /\ txw' = (txw + 1) % WRAP
        /\ txlock' = p
        /\ char' = [char EXCEPT ![p] = "nul"]
        /\ Goto(p, "start")
        /\ UNCHANGED asleep
  /\ UNCHANGED <<cons, txr, uart, echo, reading, killed, panicked>>

\* (mutant) the transmitter is not asked whether it is idle.
uartstartBusy(a) ==
  /\ pc[a] = "start"
  /\ \/ txw = txr /\ txlock' = Nobody /\ Goto(a, "idle")
     \/ txw # txr /\ Goto(a, "send") /\ UNCHANGED txlock
  /\ UNCHANGED <<cons, txbuf, txr, txw, uart, char, echo, reading, asleep, killed, panicked>>

\* A turn of uartstart's loop: return and release uart_tx_lock, or go on.
uartstart(a) ==
  /\ pc[a] = "start"
  /\ \/ /\ txw = txr \/ ~Idle
        /\ txlock' = Nobody
        /\ Goto(a, "idle")
     \/ /\ txw # txr /\ Idle
        /\ Goto(a, "send")
        /\ UNCHANGED txlock
  /\ UNCHANGED <<cons, txbuf, txr, txw, uart, char, echo, reading, asleep, killed, panicked>>

\* The transmitter was idle: give it the next byte.
start_send(a) ==
  /\ pc[a] = "send"
  /\ Sent(txbuf[txr % UART_TX_BUF_SIZE])
  /\ txr' = (txr + 1) % WRAP
  /\ asleep' = Wakeup("tx_r")
  /\ Goto(a, "start")
  /\ UNCHANGED <<cons, txbuf, txw, txlock, rx, irq, char, echo, reading, killed, panicked>>

\* printf: a byte for uartputc_sync.
printf(p) ==
  /\ pc[p] = "idle" /\ ~killed[p]
  /\ Goto(p, "sync")
  /\ UNCHANGED <<cons, tx, uart, char, echo, reading, asleep, killed, panicked>>

\* uartputc_sync spins until the transmitter is idle, and sends the byte.
sync_wait(a) ==
  /\ pc[a] = "sync" /\ Idle /\ ~panicked
  /\ Goto(a, "sync_send")
  /\ UNCHANGED <<cons, tx, uart, char, echo, reading, asleep, killed, panicked>>

sync_send(p) ==
  /\ pc[p] = "sync_send"
  /\ Sent(Echo)
  /\ Goto(p, "idle")
  /\ UNCHANGED <<cons, tx, rx, irq, char, echo, reading, asleep, killed, panicked>>

\* panic() freezes the output of other CPUs.
panic(p) ==
  /\ pc[p] = "idle" /\ ~panicked
  /\ panicked' = TRUE
  /\ Goto(p, "dead")
  /\ UNCHANGED <<cons, tx, uart, char, echo, reading, asleep, killed>>

---------------------------------------------------------------------------
(* uartintr and consoleintr.                                               *)

\* devintr: the PLIC hands the interrupt to one CPU, until it is complete.
uartintr ==
  /\ irq /\ pc[Intr] = "idle"
  /\ irq' = FALSE
  /\ Goto(Intr, "getc")
  /\ UNCHANGED <<cons, tx, fifo, rx, char, echo, reading, asleep, killed, panicked>>

\* Characters first, then the bytes that wait to be sent.
uartgetc ==
  /\ pc[Intr] = "getc"
  /\ \/ /\ rx # <<>>
        /\ rx' = Tail(rx)
        /\ char' = [char EXCEPT ![Intr] = Head(rx)]
        /\ Goto(Intr, "intr")
     \/ /\ rx = <<>>
        /\ Goto(Intr, "intr_start")
        /\ UNCHANGED <<rx, char>>
  /\ UNCHANGED <<cons, tx, fifo, irq, echo, reading, asleep, killed, panicked>>

\* How many characters ^U erases.
Erased ==
  LET stop(k) == Minus(e, k) = w \/ buf[Minus(e, k + 1) % INPUT_BUF] = "nl"
  IN  CHOOSE k \in 0..INPUT_BUF : stop(k) /\ \A j \in 0..(k - 1) : ~stop(j)

RoomOffByOne == Minus(e, r) <= INPUT_BUF   \* (mutant)

\* A character is dropped when the buffer is full.
Room == Minus(e, r) < INPUT_BUF

\* consoleintr with the lock, up to what it echoes: n bytes, which it sends with
\* the lock held.
Echoes(n) ==
  /\ lock' = Intr /\ echo' = n /\ Goto(Intr, "sync")
  /\ char' = [char EXCEPT ![Intr] = IF @ = "cr" THEN "nl" ELSE @]
Ignored == char' = [char EXCEPT ![Intr] = "nul"] /\ Goto(Intr, "getc") /\ UNCHANGED <<lock, echo, e>>

consoleintr ==
  /\ pc[Intr] = "intr" /\ lock = Nobody
  /\ LET c == char[Intr] IN
     \/ c = "P" /\ Echoes(1) /\ UNCHANGED e
     \/ c = "U" /\ Erased > 0 /\ e' = Minus(e, Erased) /\ Echoes(3 * Erased)
     \/ c = "H" /\ e # w /\ e' = Minus(e, 1) /\ Echoes(3)
     \/ c \notin Special /\ Room /\ Echoes(1) /\ UNCHANGED e
     \/ /\ \/ c = "nul"
           \/ c = "U" /\ Erased = 0
           \/ c = "H" /\ e = w
           \/ c \notin Special /\ ~Room
        /\ Ignored
  /\ UNCHANGED <<buf, r, w, tx, uart, reading, asleep, killed, panicked>>

\* uartputc_sync for the echo; after the last byte of it the line is changed,
\* unless it is already.
intr_echo ==
  /\ pc[Intr] = "sync_send"
  /\ Sent(Echo)
  /\ echo' = echo - 1
  /\ \/ echo > 1 /\ Goto(Intr, "sync") /\ UNCHANGED <<lock, char>>
     \/ echo = 1 /\ char[Intr] \notin Special /\ Goto(Intr, "store") /\ UNCHANGED <<lock, char>>
     \/ /\ echo = 1 /\ char[Intr] \in Special
        /\ lock' = Nobody
        /\ char' = [char EXCEPT ![Intr] = "nul"]
        /\ Goto(Intr, "getc")
  /\ UNCHANGED <<buf, r, w, e, tx, rx, irq, reading, asleep, killed, panicked>>

\* What ends a line: a full buffer too.
EndsLine(c) == c \in {"nl", "D"} \/ (e + 1) % WRAP = (r + INPUT_BUF) % WRAP

\* (mutant) readers are not told of a full buffer.
intr_storeSilent ==
  /\ pc[Intr] = "store"
  /\ buf' = [buf EXCEPT ![e % INPUT_BUF] = char[Intr]]
  /\ e' = (e + 1) % WRAP
  /\ w' = IF EndsLine(char[Intr]) THEN e' ELSE w
  /\ asleep' = IF char[Intr] \in {"nl", "D"} THEN Wakeup("r") ELSE asleep
  /\ lock' = Nobody
  /\ char' = [char EXCEPT ![Intr] = "nul"]
  /\ Goto(Intr, "getc")
  /\ UNCHANGED <<r, tx, uart, echo, reading, killed, panicked>>

\* The character is stored, and a line that it ends is handed to the readers.
intr_store ==
  /\ pc[Intr] = "store"
  /\ buf' = [buf EXCEPT ![e % INPUT_BUF] = char[Intr]]
  /\ e' = (e + 1) % WRAP
  /\ \/ EndsLine(char[Intr]) /\ w' = e' /\ asleep' = Wakeup("r")
     \/ ~EndsLine(char[Intr]) /\ UNCHANGED <<w, asleep>>
  /\ lock' = Nobody
  /\ char' = [char EXCEPT ![Intr] = "nul"]
  /\ Goto(Intr, "getc")
  /\ UNCHANGED <<r, tx, uart, echo, reading, killed, panicked>>

\* Back in uartintr.
intr_start ==
  /\ pc[Intr] = "intr_start" /\ txlock = Nobody
  /\ txlock' = Intr
  /\ Goto(Intr, "start")
  /\ UNCHANGED <<cons, txbuf, txr, txw, uart, char, echo, reading, asleep, killed, panicked>>

---------------------------------------------------------------------------
(* The UART.                                                               *)

transmit ==
  /\ fifo # <<>>
  /\ fifo' = Tail(fifo)
  /\ irq' = (irq \/ Tail(fifo) = <<>>)
  /\ UNCHANGED <<cons, tx, rx, pc, char, echo, reading, asleep, killed, panicked>>

\* A character is typed.  bound: one is waiting at a time.
receive(c) ==
  /\ rx = <<>>
  /\ rx' = <<c>>
  /\ irq' = TRUE
  /\ UNCHANGED <<cons, tx, fifo, pc, char, echo, reading, asleep, killed, panicked>>

---------------------------------------------------------------------------
Step ==
  \/ \E p \in Reader \cap load.procs :
       \/ \E n \in load.sizes : consoleread(p, n)
       \/ read_acquire(p) \/ read_wait(p) \/ read_sleep(p)
       \/ \E copied \in BOOLEAN : read_char(p, copied)
       \/ read_done(p)
  \/ \E p \in Writer \cap load.procs :
       \/ \E b \in load.bytes : consolewrite(p, b)
       \/ uartputc(p) \/ printf(p) \/ sync_send(p) \/ panic(p)
  \/ \E p \in load.procs : kill(p)
  \/ \E a \in Writer \cup {Intr} : uartstart(a) \/ start_send(a) \/ sync_wait(a)
  \/ uartintr \/ uartgetc \/ consoleintr \/ intr_echo \/ intr_store \/ intr_start
  \/ transmit
  \/ \E c \in load.chars : receive(c)

Next == Step /\ UNCHANGED load

Spec == Init /\ [][Next]_vars

---------------------------------------------------------------------------
(* Properties                                                              *)

\* The cells of a ring from one index up to another, in order.
Cells(ring, size, from, to) == [k \in 1..Minus(to, from) |-> ring[(from + k - 1) % size]]

TypeOK ==
  /\ {r, w, e, txr, txw} \subseteq 0..(WRAP - 1)
  /\ Minus(w, r) + Minus(e, w) = Minus(e, r) /\ Minus(e, r) <= INPUT_BUF
  /\ Minus(txw, txr) <= UART_TX_BUF_SIZE
  /\ lock \in Reader \cup {Intr, Nobody} /\ txlock \in Writer \cup {Intr, Nobody}
  /\ asleep \in [Proc -> {"no", "r", "tx_r"}]

\* Nobody sleeps for what is there: a reader in consoleread only while there is
\* no whole line, a writer in uartputc only while the buffer is full.  A wakeup
\* that goes astray between the tests and the sleeps would leave them there.
\* Nor is anything left lying: while bytes wait in uart_tx_buf and nobody is in
\* uartstart, the transmitter is busy, and so will interrupt, or the interrupt
\* is on its way; and a character received has its interrupt ahead, also one
\* that comes while the handler runs.  uartputc_sync takes the transmitter
\* without uart_tx_lock, and so can make uartstart leave.
NoLostWakeup ==
  /\ TypeOK
  /\ \A p \in Reader : asleep[p] = "r" => r = w
  /\ \A p \in Writer : asleep[p] = "tx_r" => txw = (txr + UART_TX_BUF_SIZE) % WRAP
  /\ txw # txr /\ txlock = Nobody => ~Idle \/ irq \/ pc[Intr] \notin {"idle", "start", "send"}
  /\ rx # <<>> => irq \/ pc[Intr] \in {"getc", "intr", "sync", "sync_send", "store"}

\* console.c keeps the promise of LineInput: characters are edited, handed over
\* and read as there, with three indices into one buffer that wrap around.
Line == INSTANCE LineInput WITH
  Char <- (Char \ (Special \cup {"cr"})) \cup {"nl"},  \* "\r" is stored as "\n"
  Size <- INPUT_BUF, Newline <- "nl", Eof <- "D",
  line <- Cells(buf, INPUT_BUF, w, e), input <- Cells(buf, INPUT_BUF, r, w),
  got <- [p \in Reader |-> target[p] - left[p]]
InputIsLines == Line!Spec

\* Bytes written leave in the order uartputc took them, none lost or sent
\* twice, whoever else uses the transmitter: uartputc_sync may fill it between
\* uartstart's look at it and its write.
Out == INSTANCE ByteFifo WITH
  Size <- UART_TX_BUF_SIZE + FIFO, reading <- 1, writing <- 1,
  queue <- SelectSeq(fifo, LAMBDA b : b # Echo) \o Cells(txbuf, UART_TX_BUF_SIZE, txr, txw)
OutputIsFifo == Out!Spec
=============================================================================
