---------------------------- MODULE ConsoleSteps ----------------------------
(***************************************************************************)
(* The invariants of module Console, and that every step preserves the     *)
(* first: who holds which lock where, what was found under a lock still    *)
(* holds while it is kept, and the indices are never further apart than    *)
(* the buffers are large.  LineInv, the second, is what the input side     *)
(* needs; ^U, which looks for the end of a line, stops where it should     *)
(* because the edited line has none in it.  Module ConsoleProofs has the   *)
(* theorems.                                                               *)
(***************************************************************************)

EXTENDS Console, Integers, TLAPS

-----------------------------------------------------------------------------
(* The inductive invariant                                                 *)
Cell == Char \cup Byte \cup {"nul", "nl", Echo}

Actor == Proc \cup {Intr}

PC == {"idle", "read_acquire", "read", "read_sleep", "putc", "putc_full", "start", "send", "sync", "sync_send", "dead",
       "getc", "intr", "store", "intr_start"}

Types ==
  /\ load \in Loads
  /\ \A p \in Reader : pc[p] \in {"idle", "read_acquire", "read", "read_sleep"}
  /\ \A p \in Writer : pc[p] \in {"idle", "putc", "putc_full", "start", "send", "sync", "sync_send", "dead"}
  /\ pc[Intr] \in {"idle", "getc", "intr", "sync", "sync_send", "store", "intr_start", "start", "send"}
  /\ pc \in [Actor -> PC]
  /\ char \in [Actor -> Cell]
  /\ txbuf \in [0..(UART_TX_BUF_SIZE - 1) -> Cell]
  /\ fifo \in Seq(Cell) /\ rx \in Seq(Char)
  /\ r \in 0..(WRAP - 1) /\ w \in 0..(WRAP - 1) /\ e \in 0..(WRAP - 1)
  /\ txr \in 0..(WRAP - 1) /\ txw \in 0..(WRAP - 1)
  /\ lock \in Reader \cup {Intr, Nobody} /\ txlock \in Writer \cup {Intr, Nobody}
  /\ asleep \in [Proc -> {"no", "r", "tx_r"}]

\* The edited line lies behind the lines handed over, and both have room.
Rings ==
  /\ Minus(w, r) + Minus(e, w) = Minus(e, r) /\ Minus(e, r) <= INPUT_BUF
  /\ Minus(txw, txr) <= UART_TX_BUF_SIZE

\* cons.lock is held by a reader that looks at the buffer and by the handler while
\* it echoes and stores; uart_tx_lock by who is in uartstart, or died in uartputc.
Locks ==
  /\ \A p \in Reader : lock = p <=> pc[p] \in {"read", "read_sleep"}
  /\ lock = Intr <=> pc[Intr] \in {"sync", "sync_send", "store"}
  /\ \A a \in Writer \cup {Intr} : /\ pc[a] \in {"start", "send"} => txlock = a
                                   /\ txlock = a => pc[a] \in {"start", "send", "dead"}

\* What was found under a lock.
Found ==
  /\ \A p \in Reader : pc[p] = "read_sleep" => r = w
  /\ pc[Intr] \in {"sync", "sync_send", "store"} /\ char[Intr] \notin Special => Room
  /\ pc[Intr] = "store" => char[Intr] \notin Special
  /\ \A a \in Writer \cup {Intr} : pc[a] = "send" => txw # txr

\* Where processes sleep, and for what.
Sleepers ==
  \A p \in Proc :
    /\ asleep[p] = "r" => r = w
    /\ asleep[p] = "tx_r" => txw = (txr + UART_TX_BUF_SIZE) % WRAP

\* The handler will come for the bytes that wait and for the character received.
Ahead ==
  /\ txw # txr /\ txlock = Nobody => fifo # <<>> \/ irq \/ pc[Intr] \notin {"idle", "start", "send"}
  /\ rx # <<>> => irq \/ pc[Intr] \in {"getc", "intr", "sync", "sync_send", "store"}

IndInv == Types /\ Rings /\ Locks /\ Found /\ Sleepers /\ Ahead

Ring == [0..(INPUT_BUF - 1) -> Cell]

\* A read has taken what it was asked for less what is left of it.
Reads ==
  /\ left \in [Reader -> Nat] /\ target \in [Reader -> Nat]
  /\ \A p \in Reader : left[p] <= target[p] /\ (pc[p] = "idle" => target[p] = 0)

\* What the handler holds was typed, and "\r" is "\n" once it is echoed.
Typed ==
  /\ pc[Intr] = "intr" => char[Intr] \in Char
  /\ pc[Intr] \in {"sync", "sync_send", "store"} => char[Intr] \in (Char \cup {"nl"}) \ {"cr"}

\* The edited line has no end in it.
Edits ==
  /\ buf \in Ring
  /\ \A k \in 0..(Minus(e, w) - 1) : buf[(w + k) % INPUT_BUF] \notin {"nl", "D"}

LineInv == Reads /\ Typed /\ Edits

-----------------------------------------------------------------------------
(* Indices that wrap around                                                *)
LEMMA Sizes ==
  /\ WRAP \in Nat /\ WRAP > 1
  /\ INPUT_BUF \in Nat /\ INPUT_BUF > 0 /\ INPUT_BUF < WRAP
  /\ UART_TX_BUF_SIZE \in Nat /\ UART_TX_BUF_SIZE > 0 /\ UART_TX_BUF_SIZE < WRAP
BY WrapAssumption

Index == 0..(WRAP - 1)

\* A number below twice the modulus is reduced by at most one subtraction.
LEMMA ModOnce ==
  ASSUME NEW m \in Nat, m > 0, NEW n \in 0..(2 * m - 1)
  PROVE  n % m = IF n < m THEN n ELSE n - m
OBVIOUS

\* The distance from b up to a.
LEMMA Distance ==
  ASSUME NEW a \in Index, NEW b \in Index
  PROVE  Minus(a, b) = IF a >= b THEN a - b ELSE a + WRAP - b
<1>1. a + WRAP - b \in 0..(2 * WRAP - 1)
  BY Sizes DEF Index
<1>2. Minus(a, b) = IF a + WRAP - b < WRAP THEN a + WRAP - b ELSE a + WRAP - b - WRAP
  BY <1>1, ModOnce, Sizes DEF Minus, Index
<1> QED
  BY <1>2, Sizes DEF Index

\* The index after a.
LEMMA After ==
  ASSUME NEW a \in Index
  PROVE  (a + 1) % WRAP = (IF a + 1 < WRAP THEN a + 1 ELSE 0) /\ (a + 1) % WRAP \in Index
<1>1. a + 1 \in 0..(2 * WRAP - 1)
  BY Sizes DEF Index
<1>2. (a + 1) % WRAP = IF a + 1 < WRAP THEN a + 1 ELSE a + 1 - WRAP
  BY <1>1, ModOnce, Sizes DEF Index
<1> QED
  BY <1>2, Sizes DEF Index

\* What advancing either end does to the distance.
LEMMA Advance ==
  ASSUME NEW a \in Index, NEW b \in Index
  PROVE  /\ Minus(a, b) \in Index
         /\ Minus(a, b) = 0 <=> a = b
         /\ Minus(a, b) < WRAP - 1 => Minus((a + 1) % WRAP, b) = Minus(a, b) + 1
         /\ a # b => Minus(a, (b + 1) % WRAP) = Minus(a, b) - 1
<1> DEFINE a1 == (a + 1) % WRAP   b1 == (b + 1) % WRAP
<1>1. a1 \in Index /\ a1 = (IF a + 1 < WRAP THEN a + 1 ELSE 0)
  BY After, Zenon
<1>2. b1 \in Index /\ b1 = (IF b + 1 < WRAP THEN b + 1 ELSE 0)
  BY After, Zenon
<1> HIDE DEF a1, b1
<1>3. /\ Minus(a, b) = IF a >= b THEN a - b ELSE a + WRAP - b
      /\ Minus(a1, b) = IF a1 >= b THEN a1 - b ELSE a1 + WRAP - b
      /\ Minus(a, b1) = IF a >= b1 THEN a - b1 ELSE a + WRAP - b1
  BY <1>1, <1>2, Distance, Zenon
<1>4. /\ Minus(a, b) \in Index
      /\ Minus(a, b) = 0 <=> a = b
      /\ Minus(a, b) < WRAP - 1 => Minus(a1, b) = Minus(a, b) + 1
      /\ a # b => Minus(a, b1) = Minus(a, b) - 1
  BY <1>1, <1>2, <1>3, Sizes DEF Index
<1> QED
  BY <1>4, Zenon DEF a1, b1

\* Going back by k, at most the distance.
LEMMA Back ==
  ASSUME NEW a \in Index, NEW b \in Index, NEW k \in Nat, k <= Minus(a, b)
  PROVE  /\ Minus(a, k) \in Index
         /\ Minus(Minus(a, k), b) = Minus(a, b) - k
<1>1. k \in Index /\ Minus(a, b) = IF a >= b THEN a - b ELSE a + WRAP - b
  BY Advance, Distance, Sizes DEF Index
<1> DEFINE c == Minus(a, k)
<1>2. c = IF a >= k THEN a - k ELSE a + WRAP - k
  BY <1>1, Distance, Zenon
<1>3. c \in Index
  BY <1>1, <1>2, Sizes DEF Index
<1>4. Minus(c, b) = IF c >= b THEN c - b ELSE c + WRAP - b
  BY <1>3, Distance, Zenon
<1> HIDE DEF c
<1>5. Minus(c, b) = Minus(a, b) - k
  BY <1>1, <1>2, <1>3, <1>4, Sizes DEF Index
<1> QED
  BY <1>3, <1>5, Zenon DEF c

\* The tests for a full buffer.
LEMMA FullTest ==
  ASSUME NEW a \in Index, NEW b \in Index, NEW n \in Nat, n < WRAP
  PROVE  a = (b + n) % WRAP <=> Minus(a, b) = n
<1>1. b + n \in 0..(2 * WRAP - 1)
  BY Sizes DEF Index
<1>2. (b + n) % WRAP = IF b + n < WRAP THEN b + n ELSE b + n - WRAP
  BY <1>1, ModOnce, Sizes DEF Index
<1>3. Minus(a, b) = IF a >= b THEN a - b ELSE a + WRAP - b
  BY Distance, Zenon
<1> DEFINE f == (b + n) % WRAP
<1> HIDE DEF f
<1>4. f = (IF b + n < WRAP THEN b + n ELSE b + n - WRAP)
  BY <1>2, Zenon DEF f
<1>5. a = f <=> Minus(a, b) = n
  BY <1>3, <1>4, Sizes DEF Index
<1> QED
  BY <1>5, Zenon DEF f

-----------------------------------------------------------------------------
(* The cells of a ring                                                     *)
\* Two multiples of m that are less than m apart are equal.
LEMMA OneMultiple ==
  ASSUME NEW m \in Nat, m > 0, NEW p \in Int, NEW q \in Int, m * p - m * q < m, m * q - m * p < m
  PROVE  p = q
<1>1. m * (p - q) < m /\ m * (q - p) < m
  OBVIOUS
<1>2. CASE p > q
  <2>1. p - q >= 1
    BY <1>2
  <2>2. m * (p - q) >= m
    BY <2>1
  <2> QED
    BY <2>2, <1>1
<1>3. CASE p < q
  <2>1. q - p >= 1
    BY <1>3
  <2>2. m * (q - p) >= m
    BY <2>1
  <2> QED
    BY <2>2, <1>1
<1> QED
  BY <1>2, <1>3

\* Division with remainder.
LEMMA Remainder ==
  ASSUME NEW m \in Nat, m > 0, NEW n \in Nat
  PROVE  n \div m \in Int /\ n % m \in 0..(m - 1) /\ n = m * (n \div m) + (n % m)
OBVIOUS

\* Numbers less than m apart fall on different cells of a ring of m.
LEMMA Apart ==
  ASSUME NEW m \in Nat, m > 0, NEW x \in Nat, NEW y \in Nat, x < y, y - x < m
  PROVE  x % m # y % m
<1> SUFFICES ASSUME x % m = y % m PROVE FALSE
  BY Zenon
<1> DEFINE p == x \div m   q == y \div m   t == x % m
<1>1. p \in Int /\ q \in Int /\ t \in Int /\ x = m * p + t /\ y = m * q + t
  BY Remainder
<1> HIDE DEF p, q, t
<1>2. m * p - m * q < m /\ m * q - m * p < m
  BY <1>1
<1>3. p = q
  BY <1>1, <1>2, OneMultiple, Zenon
<1> QED
  BY <1>1, <1>3

\* A round of the index ends where a round of the ring does.
LEMMA Round ==
  ASSUME NEW n \in Nat
  PROVE  (n + WRAP) % INPUT_BUF = n % INPUT_BUF
<1> DEFINE m == INPUT_BUF   k == WRAP
           p == n \div m   q == k \div m   s == (n + k) \div m
           t == n % m   u == (n + k) % m
<1>1. m \in Nat /\ m > 0 /\ k \in Nat /\ n + k \in Nat /\ k % m = 0
  BY Sizes, WrapAssumption
<1>2. p \in Int /\ t \in 0..(m - 1) /\ n = m * p + t
  BY <1>1, Remainder, Zenon
<1>3. q \in Int /\ k = m * q + (k % m)
  BY <1>1, Remainder, Zenon
<1>4. s \in Int /\ u \in 0..(m - 1) /\ n + k = m * s + u
  BY <1>1, Remainder, Zenon
<1> HIDE DEF p, q, s, t, u, m, k
<1>5. k = m * q
  BY <1>1, <1>3
<1>6. m * (p + q) = m * p + m * q
  BY <1>1, <1>2, <1>3
<1>7. m * (p + q) + t = m * s + u
  BY <1>1, <1>2, <1>3, <1>4, <1>5, <1>6
<1>8. m * (p + q) \in Int /\ m * s \in Int
  BY <1>1, <1>2, <1>3, <1>4
<1>9. m * s - m * (p + q) < m /\ m * (p + q) - m * s < m
  BY <1>1, <1>2, <1>4, <1>7, <1>8
<1>10. s = p + q
  BY <1>1, <1>2, <1>3, <1>4, <1>9, OneMultiple
<1>11. u = t
  BY <1>1, <1>2, <1>4, <1>7, <1>8, <1>10
<1> QED
  BY <1>11, Zenon DEF u, t, m, k

\* The cell k places after b, counted from a.
LEMMA Counted ==
  ASSUME NEW a \in Index, NEW b \in Index, NEW k \in Nat
  PROVE  (b + k) % INPUT_BUF = (a + Minus(b, a) + k) % INPUT_BUF
<1> DEFINE d == Minus(b, a)
<1>1. d = IF b >= a THEN b - a ELSE b + WRAP - a
  BY Distance, Zenon
<1> HIDE DEF d
<1>2. CASE b >= a
  <2>1. a + d + k = b + k
    BY <1>1, <1>2, Sizes DEF Index
  <2> QED
    BY <2>1, Zenon DEF d
<1>3. CASE ~(b >= a)
  <2>1. a + d + k = (b + k) + WRAP /\ b + k \in Nat
    BY <1>1, <1>3, Sizes DEF Index
  <2>2. ((b + k) + WRAP) % INPUT_BUF = (b + k) % INPUT_BUF
    BY <2>1, Round, Zenon
  <2> QED
    BY <2>1, <2>2, Zenon DEF d
<1> QED
  BY <1>2, <1>3, Zenon

\* The n cells of the ring d from index a on.
Run(d, a, n) == [k \in 1..n |-> d[(a + k - 1) % INPUT_BUF]]

LEMMA OnRing ==
  ASSUME NEW n \in Nat
  PROVE  n % INPUT_BUF \in 0..(INPUT_BUF - 1)
BY Sizes, Remainder, Zenon

LEMMA RunSeq ==
  ASSUME NEW d \in Ring, NEW a \in Index, NEW n \in Nat
  PROVE  /\ Run(d, a, n) \in Seq(Cell) /\ Len(Run(d, a, n)) = n
         /\ \A k \in 1..n : Run(d, a, n)[k] = d[(a + k - 1) % INPUT_BUF]
<1>1. \A k \in 1..n : (a + k - 1) % INPUT_BUF \in 0..(INPUT_BUF - 1)
  <2> TAKE k \in 1..n
  <2>1. a + k - 1 \in Nat
    BY DEF Index
  <2> QED
    BY <2>1, OnRing, Zenon
<1>2. Run(d, a, n) \in [1..n -> Cell]
  BY <1>1, Zenon DEF Run, Ring
<1>3. Run(d, a, n) \in Seq(Cell)
  BY <1>2
<1> QED
  BY <1>2, <1>3 DEF Run

-----------------------------------------------------------------------------
(* Every step preserves the invariant                                      *)
LEMMA Names ==
  /\ Intr \notin Reader /\ Intr \notin Writer /\ Nobody \notin Reader /\ Nobody \notin Writer /\ Nobody # Intr
  /\ \A p \in Reader : p \notin Writer
  /\ \A p \in Reader : p \in Proc /\ p \in Actor
  /\ \A p \in Writer : p \in Proc /\ p \in Actor
  /\ Intr \in Actor /\ \A p \in Actor : p \in Reader \/ p \in Writer \/ p = Intr
  /\ \A p \in Proc : p \in Reader \/ p \in Writer
BY ActorAssumption, Zenon DEF Proc, Actor

\* Actor a is at another label, and nobody else is.
Moved(a, to) ==
  pc' \in [Actor -> PC] /\ pc'[a] = to /\ \A b \in Actor : b # a => pc'[b] = pc[b]

\* WriteReg(THR, b): the transmitter does not run empty by it.
LEMMA Sends ==
  ASSUME Types, NEW b \in Cell, Sent(b)
  PROVE  fifo' \in Seq(Cell) /\ (fifo # <<>> => fifo' # <<>>)
<1>1. fifo \in Seq(Cell) /\ (fifo' = fifo \/ fifo' = Append(fifo, b))
  BY Zenon DEF Sent, Types
<1>2. Append(fifo, b) \in Seq(Cell) /\ Append(fifo, b) # <<>>
  BY <1>1
<1> QED
  BY <1>1, <1>2, Zenon

LEMMA Moves ==
  ASSUME Types, NEW a \in Actor, NEW to \in PC, Goto(a, to)
  PROVE  Moved(a, to)
BY Zenon DEF Types, Moved, Goto

LEMMA ConsolereadStep ==
  ASSUME IndInv, NEW p \in Reader, NEW n, consoleread(p, n), load' = load
  PROVE  IndInv'
<1> USE Names DEF IndInv
<1>1. UNCHANGED <<buf, r, w, e, lock, txbuf, txr, txw, txlock, fifo, rx, irq, char, echo, asleep, load>>
  BY Zenon DEF consoleread, cons, tx, uart, reading
<1>2. Moved(p, "read_acquire") /\ pc[p] \in PC
  <2>1. Goto(p, "read_acquire") /\ p \in Actor /\ "read_acquire" \in PC
    BY Zenon DEF consoleread, PC
  <2> QED
    BY <2>1, Moves, Zenon DEF Types
<1>3. pc[p] = "idle"
  BY Zenon DEF consoleread, cons, tx, uart, reading, Types
<1>4. Types'
  BY <1>1, <1>2, <1>3, Zenon DEF Types, Moved
<1>5. Rings'
  BY <1>1, <1>2, <1>3, Zenon DEF Rings
<1>6. Locks'
  BY <1>1, <1>2, <1>3, ZenonT(40) DEF Locks, Moved, Types
<1>7. Found'
  BY <1>1, <1>2, <1>3, Zenon DEF Found, Moved, Room, Types, Locks
<1>8. Sleepers'
  BY <1>1, <1>2, <1>3, Zenon DEF Sleepers, Types
<1>9. Ahead'
  BY <1>1, <1>2, <1>3, Zenon DEF Ahead, Moved
<1> QED
  BY <1>4, <1>5, <1>6, <1>7, <1>8, <1>9, Zenon

LEMMA ReadAcquireStep ==
  ASSUME IndInv, NEW p \in Reader, read_acquire(p), load' = load
  PROVE  IndInv'
<1> USE Names DEF IndInv
<1>1. UNCHANGED <<buf, r, w, e, txbuf, txr, txw, txlock, fifo, rx, irq, char, echo, asleep, load>>
  BY Zenon DEF read_acquire, cons, tx, uart, reading
<1>2. Moved(p, "read") /\ pc[p] \in PC
  <2>1. Goto(p, "read") /\ p \in Actor /\ "read" \in PC
    BY Zenon DEF read_acquire, PC
  <2> QED
    BY <2>1, Moves, Zenon DEF Types
<1>3. pc[p] = "read_acquire" /\ lock = Nobody /\ lock' = p
  BY Zenon DEF read_acquire, cons, tx, uart, reading, Types
<1>4. Types'
  BY <1>1, <1>2, <1>3, Zenon DEF Types, Moved
<1>5. Rings'
  BY <1>1, <1>2, <1>3, Zenon DEF Rings
<1>6. Locks'
  <2>1. (\A a \in Actor : a # p => pc'[a] = pc[a]) /\ pc'[p] = "read"
    BY <1>2, Zenon DEF Moved
  <2>2. p # Intr /\ p \notin Writer /\ \A q \in Reader : lock # q
    BY <1>3, Zenon
  <2>3. \A q \in Reader : lock' = q <=> pc'[q] \in {"read", "read_sleep"}
    BY <1>3, <2>1, <2>2, Zenon DEF Locks
  <2>4. lock' # Intr /\ pc'[Intr] \notin {"sync", "sync_send", "store"}
    BY <1>3, <2>1, <2>2, Zenon DEF Locks
  <2>5. \A a \in Writer \cup {Intr} : /\ pc'[a] \in {"start", "send"} => txlock' = a
                                      /\ txlock' = a => pc'[a] \in {"start", "send", "dead"}
    BY <1>1, <2>1, <2>2, Zenon DEF Locks
  <2> QED
    BY <2>3, <2>4, <2>5, Zenon DEF Locks
<1>7. Found'
  BY <1>1, <1>2, <1>3, Zenon DEF Found, Moved, Room, Types, Locks
<1>8. Sleepers'
  BY <1>1, <1>2, <1>3, Zenon DEF Sleepers, Types
<1>9. Ahead'
  BY <1>1, <1>2, <1>3, Zenon DEF Ahead, Moved
<1> QED
  BY <1>4, <1>5, <1>6, <1>7, <1>8, <1>9, Zenon

LEMMA ReadSleepStep ==
  ASSUME IndInv, NEW p \in Reader, read_sleep(p), load' = load
  PROVE  IndInv'
<1> USE Names DEF IndInv
<1>1. UNCHANGED <<buf, r, w, e, txbuf, txr, txw, txlock, fifo, rx, irq, char, echo, load>>
  BY Zenon DEF read_sleep, cons, tx, uart, reading
<1>2. Moved(p, "read_acquire") /\ pc[p] \in PC
  <2>1. Goto(p, "read_acquire") /\ p \in Actor /\ "read_acquire" \in PC
    BY Zenon DEF read_sleep, PC
  <2> QED
    BY <2>1, Moves, Zenon DEF Types
<1>3. pc[p] = "read_sleep" /\ lock' = Nobody /\ asleep' = [asleep EXCEPT ![p] = "r"]
  BY Zenon DEF read_sleep, cons, tx, uart, reading, Types
<1>4. Types'
  BY <1>1, <1>2, <1>3, Zenon DEF Types, Moved
<1>5. Rings'
  BY <1>1, <1>2, <1>3, Zenon DEF Rings
<1>6. Locks'
  BY <1>1, <1>2, <1>3 DEF Locks, Moved, Types
<1>7. Found'
  BY <1>1, <1>2, <1>3, Zenon DEF Found, Moved, Room, Types, Locks
<1>8. Sleepers'
  <2>1. r = w
    BY <1>3, Zenon DEF Found
  <2>2. \A q \in Proc : asleep'[q] = IF q = p THEN "r" ELSE asleep[q]
    BY <1>3, Zenon DEF Types
  <2> QED
    BY <1>1, <2>1, <2>2, Zenon DEF Sleepers
<1>9. Ahead'
  BY <1>1, <1>2, <1>3, Zenon DEF Ahead, Moved
<1> QED
  BY <1>4, <1>5, <1>6, <1>7, <1>8, <1>9, Zenon

LEMMA KillStep ==
  ASSUME IndInv, NEW p \in Proc, kill(p), load' = load
  PROVE  IndInv'
<1> USE Names DEF IndInv
<1>1. UNCHANGED <<buf, r, w, e, lock, txbuf, txr, txw, txlock, fifo, rx, irq, char, echo, load, pc>>
  BY Zenon DEF kill, cons, tx, uart, reading
<1>2. TRUE
  BY Zenon
<1>3. asleep' = [asleep EXCEPT ![p] = "no"]
  BY Zenon DEF kill, cons, tx, uart, reading, Types
<1>4. Types'
  BY <1>1, <1>2, <1>3, Zenon DEF Types, Moved
<1>5. Rings'
  BY <1>1, <1>2, <1>3, Zenon DEF Rings
<1>6. Locks'
  BY <1>1, <1>2, <1>3, Zenon DEF Locks, Moved, Types
<1>7. Found'
  BY <1>1, <1>2, <1>3, Zenon DEF Found, Moved, Room, Types, Locks
<1>8. Sleepers'
  BY <1>1, <1>2, <1>3, Zenon DEF Sleepers, Types
<1>9. Ahead'
  BY <1>1, <1>2, <1>3, Zenon DEF Ahead, Moved
<1> QED
  BY <1>4, <1>5, <1>6, <1>7, <1>8, <1>9, Zenon

LEMMA ConsolewriteStep ==
  ASSUME IndInv, NEW p \in Writer, NEW b \in Byte, consolewrite(p, b), load' = load
  PROVE  IndInv'
<1> USE Names DEF IndInv
<1>1. UNCHANGED <<buf, r, w, e, lock, txbuf, txr, txw, txlock, fifo, rx, irq, echo, asleep, load>>
  BY Zenon DEF consolewrite, cons, tx, uart, reading
<1>2. Moved(p, "putc") /\ pc[p] \in PC
  <2>1. Goto(p, "putc") /\ p \in Actor /\ "putc" \in PC
    BY Zenon DEF consolewrite, PC
  <2> QED
    BY <2>1, Moves, Zenon DEF Types
<1>3. pc[p] = "idle" /\ char' = [char EXCEPT ![p] = b]
  BY Zenon DEF consolewrite, cons, tx, uart, reading, Types
<1>4. Types'
  <2>1. char' \in [Actor -> Cell]
    BY <1>3, Zenon DEF Types, Cell
  <2> QED
    BY <1>1, <1>2, <1>3, <2>1, ZenonT(40) DEF Types, Moved
<1>5. Rings'
  BY <1>1, <1>2, <1>3, Zenon DEF Rings
<1>6. Locks'
  <2>1. \A a \in Actor : a # p => pc'[a] = pc[a]
    BY <1>2, Zenon DEF Moved
  <2>2. txlock # p /\ p \notin Reader /\ p # Intr /\ pc'[p] \notin {"start", "send"}
    BY <1>2, <1>3, Zenon DEF Locks, Moved
  <2>3. /\ \A q \in Reader : lock' = q <=> pc'[q] \in {"read", "read_sleep"}
        /\ lock' = Intr <=> pc'[Intr] \in {"sync", "sync_send", "store"}
    BY <1>1, <2>1, <2>2, Zenon DEF Locks
  <2>4. \A a \in Writer \cup {Intr} : /\ pc'[a] \in {"start", "send"} => txlock' = a
                                      /\ txlock' = a => pc'[a] \in {"start", "send", "dead"}
    BY <1>1, <2>1, <2>2, Zenon DEF Locks
  <2> QED
    BY <2>3, <2>4, Zenon DEF Locks
<1>7. Found'
  <2>1. char'[Intr] = char[Intr]
    BY <1>3, Zenon DEF Types
  <2> QED
    BY <1>1, <1>2, <1>3, <2>1, Zenon DEF Found, Moved, Room, Types
<1>8. Sleepers'
  BY <1>1, <1>2, <1>3, Zenon DEF Sleepers, Types
<1>9. Ahead'
  BY <1>1, <1>2, <1>3, Zenon DEF Ahead, Moved
<1> QED
  BY <1>4, <1>5, <1>6, <1>7, <1>8, <1>9, Zenon

LEMMA PrintfStep ==
  ASSUME IndInv, NEW p \in Writer, printf(p), load' = load
  PROVE  IndInv'
<1> USE Names DEF IndInv
<1>1. UNCHANGED <<buf, r, w, e, lock, txbuf, txr, txw, txlock, fifo, rx, irq, char, echo, asleep, load>>
  BY DEF printf, cons, tx, uart, reading
<1>2. Moved(p, "sync") /\ pc[p] \in PC
  <2>1. Goto(p, "sync") /\ p \in Actor /\ "sync" \in PC
    BY Zenon DEF printf, PC
  <2> QED
    BY <2>1, Moves, Zenon DEF Types
<1>3. pc[p] = "idle"
  BY Zenon DEF printf, cons, tx, uart, reading, Types
<1>4. Types'
  BY <1>1, <1>2, <1>3, Zenon DEF Types, Moved
<1>5. Rings'
  BY <1>1, <1>2, <1>3, Zenon DEF Rings
<1>6. Locks'
  <2>1. pc'[p] = "sync" /\ \A q \in Actor : q # p => pc'[q] = pc[q]
    BY <1>2, Zenon DEF Moved
  <2> QED
    BY <1>1, <1>3, <2>1, Zenon DEF Locks
<1>7. Found'
  BY <1>1, <1>2, <1>3, ZenonT(40) DEF Found, Moved, Room, Types, Locks
<1>8. Sleepers'
  BY <1>1, <1>2, <1>3, Zenon DEF Sleepers, Types
<1>9. Ahead'
  BY <1>1, <1>2, <1>3, Zenon DEF Ahead, Moved
<1> QED
  BY <1>4, <1>5, <1>6, <1>7, <1>8, <1>9, Zenon

LEMMA SyncWaitStep ==
  ASSUME IndInv, NEW a \in Writer \cup {Intr}, sync_wait(a), load' = load
  PROVE  IndInv'
<1> USE Names DEF IndInv
<1>1. UNCHANGED <<buf, r, w, e, lock, txbuf, txr, txw, txlock, fifo, rx, irq, char, echo, asleep, load>>
  BY Zenon DEF sync_wait, cons, tx, uart, reading
<1>2. Moved(a, "sync_send") /\ pc[a] \in PC
  <2>1. Goto(a, "sync_send") /\ a \in Actor /\ "sync_send" \in PC
    BY Zenon DEF sync_wait, PC
  <2> QED
    BY <2>1, Moves, Zenon DEF Types
<1>3. pc[a] = "sync"
  BY Zenon DEF sync_wait, cons, tx, uart, reading, Types
<1>4. Types'
  BY <1>1, <1>2, <1>3, Zenon DEF Types, Moved
<1>5. Rings'
  BY <1>1, <1>2, <1>3, Zenon DEF Rings
<1>6. Locks'
  BY <1>1, <1>2, <1>3 DEF Locks, Moved, Types
<1>7. Found'
  BY <1>1, <1>2, <1>3, Zenon DEF Found, Moved, Room, Types, Locks
<1>8. Sleepers'
  BY <1>1, <1>2, <1>3, Zenon DEF Sleepers, Types
<1>9. Ahead'
  BY <1>1, <1>2, <1>3 DEF Ahead, Moved
<1> QED
  BY <1>4, <1>5, <1>6, <1>7, <1>8, <1>9, Zenon

LEMMA SyncSendStep ==
  ASSUME IndInv, NEW p \in Writer, sync_send(p), load' = load
  PROVE  IndInv'
<1> USE Names DEF IndInv
<1>1. UNCHANGED <<buf, r, w, e, lock, txbuf, txr, txw, txlock, rx, irq, char, echo, asleep, load>>
  BY Zenon DEF sync_send, cons, tx, uart, reading
<1>2. Moved(p, "idle") /\ pc[p] \in PC
  <2>1. Goto(p, "idle") /\ p \in Actor /\ "idle" \in PC
    BY Zenon DEF sync_send, PC
  <2> QED
    BY <2>1, Moves, Zenon DEF Types
<1>3. pc[p] = "sync_send" /\ Sent(Echo)
  BY Zenon DEF sync_send, cons, tx, uart, reading, Types
<1>s. fifo' \in Seq(Cell) /\ (fifo # <<>> => fifo' # <<>>)
  BY <1>3, Sends, Zenon DEF Cell
<1>4. Types'
  BY <1>1, <1>2, <1>3, <1>s, Zenon DEF Types, Moved
<1>5. Rings'
  BY <1>1, <1>2, <1>3, <1>s, Zenon DEF Rings
<1>6. Locks'
  <2>1. \A a \in Actor : a # p => pc'[a] = pc[a]
    BY <1>2, Zenon DEF Moved
  <2>2. txlock # p /\ p \notin Reader /\ p # Intr /\ pc'[p] \notin {"start", "send"}
    BY <1>2, <1>3, Zenon DEF Locks, Moved
  <2>3. /\ \A q \in Reader : lock' = q <=> pc'[q] \in {"read", "read_sleep"}
        /\ lock' = Intr <=> pc'[Intr] \in {"sync", "sync_send", "store"}
    BY <1>1, <2>1, <2>2, Zenon DEF Locks
  <2>4. \A a \in Writer \cup {Intr} : /\ pc'[a] \in {"start", "send"} => txlock' = a
                                      /\ txlock' = a => pc'[a] \in {"start", "send", "dead"}
    BY <1>1, <2>1, <2>2, Zenon DEF Locks
  <2> QED
    BY <2>3, <2>4, Zenon DEF Locks
<1>7. Found'
  BY <1>1, <1>2, <1>3, <1>s, Zenon DEF Found, Moved, Room, Types, Locks
<1>8. Sleepers'
  BY <1>1, <1>2, <1>3, <1>s, Zenon DEF Sleepers, Types
<1>9. Ahead'
  BY <1>1, <1>2, <1>3, <1>s DEF Ahead, Moved
<1> QED
  BY <1>4, <1>5, <1>6, <1>7, <1>8, <1>9, Zenon

LEMMA PanicStep ==
  ASSUME IndInv, NEW p \in Writer, panic(p), load' = load
  PROVE  IndInv'
<1> USE Names DEF IndInv
<1>1. UNCHANGED <<buf, r, w, e, lock, txbuf, txr, txw, txlock, fifo, rx, irq, char, echo, asleep, load>>
  BY Zenon DEF panic, cons, tx, uart, reading
<1>2. Moved(p, "dead") /\ pc[p] \in PC
  <2>1. Goto(p, "dead") /\ p \in Actor /\ "dead" \in PC
    BY Zenon DEF panic, PC
  <2> QED
    BY <2>1, Moves, Zenon DEF Types
<1>3. pc[p] = "idle"
  BY Zenon DEF panic, cons, tx, uart, reading, Types
<1>4. Types'
  BY <1>1, <1>2, <1>3, Zenon DEF Types, Moved
<1>5. Rings'
  BY <1>1, <1>2, <1>3, Zenon DEF Rings
<1>6. Locks'
  BY <1>1, <1>2, <1>3 DEF Locks, Moved, Types
<1>7. Found'
  BY <1>1, <1>2, <1>3, Zenon DEF Found, Moved, Room, Types, Locks
<1>8. Sleepers'
  BY <1>1, <1>2, <1>3, Zenon DEF Sleepers, Types
<1>9. Ahead'
  BY <1>1, <1>2, <1>3, Zenon DEF Ahead, Moved
<1> QED
  BY <1>4, <1>5, <1>6, <1>7, <1>8, <1>9, Zenon

LEMMA UartintrStep ==
  ASSUME IndInv, uartintr, load' = load
  PROVE  IndInv'
<1> USE Names DEF IndInv
<1>1. UNCHANGED <<buf, r, w, e, lock, txbuf, txr, txw, txlock, fifo, rx, char, echo, asleep, load>>
  BY Zenon DEF uartintr, cons, tx, uart, reading
<1>2. Moved(Intr, "getc") /\ pc[Intr] \in PC
  <2>1. Goto(Intr, "getc") /\ Intr \in Actor /\ "getc" \in PC
    BY Zenon DEF uartintr, PC
  <2> QED
    BY <2>1, Moves, Zenon DEF Types
<1>3. pc[Intr] = "idle"
  BY Zenon DEF uartintr, cons, tx, uart, reading, Types
<1>4. Types'
  BY <1>1, <1>2, <1>3, ZenonT(40) DEF Types, Moved
<1>5. Rings'
  BY <1>1, <1>2, <1>3, Zenon DEF Rings
<1>6. Locks'
  BY <1>1, <1>2, <1>3, Zenon DEF Locks, Moved, Types
<1>7. Found'
  BY <1>1, <1>2, <1>3, Zenon DEF Found, Moved, Room, Types, Locks
<1>8. Sleepers'
  BY <1>1, <1>2, <1>3, Zenon DEF Sleepers, Types
<1>9. Ahead'
  BY <1>1, <1>2, <1>3 DEF Ahead, Moved
<1> QED
  BY <1>4, <1>5, <1>6, <1>7, <1>8, <1>9, Zenon

LEMMA IntrStartStep ==
  ASSUME IndInv, intr_start, load' = load
  PROVE  IndInv'
<1> USE Names DEF IndInv
<1>1. UNCHANGED <<buf, r, w, e, lock, txbuf, txr, txw, fifo, rx, irq, char, echo, asleep, load>>
  BY Zenon DEF intr_start, cons, tx, uart, reading
<1>2. Moved(Intr, "start") /\ pc[Intr] \in PC
  <2>1. Goto(Intr, "start") /\ Intr \in Actor /\ "start" \in PC
    BY Zenon DEF intr_start, PC
  <2> QED
    BY <2>1, Moves, Zenon DEF Types
<1>3. pc[Intr] = "intr_start" /\ txlock = Nobody /\ txlock' = Intr
  BY Zenon DEF intr_start, cons, tx, uart, reading, Types
<1>4. Types'
  BY <1>1, <1>2, <1>3, Zenon DEF Types, Moved
<1>5. Rings'
  BY <1>1, <1>2, <1>3, Zenon DEF Rings
<1>6. Locks'
  BY <1>1, <1>2, <1>3, ZenonT(40) DEF Locks, Moved, Types
<1>7. Found'
  BY <1>1, <1>2, <1>3, Zenon DEF Found, Moved, Room, Types, Locks
<1>8. Sleepers'
  BY <1>1, <1>2, <1>3, Zenon DEF Sleepers, Types
<1>9. Ahead'
  BY <1>1, <1>2, <1>3, Zenon DEF Ahead, Moved
<1> QED
  BY <1>4, <1>5, <1>6, <1>7, <1>8, <1>9, Zenon

LEMMA TransmitStep ==
  ASSUME IndInv, transmit, load' = load
  PROVE  IndInv'
<1> USE Names DEF IndInv
<1>1. UNCHANGED <<buf, r, w, e, lock, txbuf, txr, txw, txlock, rx, char, echo, asleep, load, pc>>
  BY Zenon DEF transmit, cons, tx, uart, reading
<1>2. TRUE
  BY Zenon
<1>3. fifo # <<>> /\ fifo' = Tail(fifo) /\ irq' = (irq \/ Tail(fifo) = <<>>)
  BY Zenon DEF transmit, cons, tx, uart, reading, Types
<1>4. Types'
  BY <1>1, <1>2, <1>3 DEF Types, Moved
<1>5. Rings'
  BY <1>1, <1>2, <1>3, Zenon DEF Rings
<1>6. Locks'
  BY <1>1, <1>2, <1>3, Zenon DEF Locks, Moved, Types
<1>7. Found'
  BY <1>1, <1>2, <1>3, Zenon DEF Found, Moved, Room, Types, Locks
<1>8. Sleepers'
  BY <1>1, <1>2, <1>3, Zenon DEF Sleepers, Types
<1>9. Ahead'
  BY <1>1, <1>2, <1>3, Zenon DEF Ahead, Moved
<1> QED
  BY <1>4, <1>5, <1>6, <1>7, <1>8, <1>9, Zenon

LEMMA ReceiveStep ==
  ASSUME IndInv, NEW c \in Char, receive(c), load' = load
  PROVE  IndInv'
<1> USE Names DEF IndInv
<1>1. UNCHANGED <<buf, r, w, e, lock, txbuf, txr, txw, txlock, fifo, char, echo, asleep, load, pc>>
  BY Zenon DEF receive, cons, tx, uart, reading
<1>2. TRUE
  BY Zenon
<1>3. rx' = <<c>> /\ irq' = TRUE
  BY Zenon DEF receive, cons, tx, uart, reading, Types
<1>4. Types'
  BY <1>1, <1>2, <1>3 DEF Types, Moved
<1>5. Rings'
  BY <1>1, <1>2, <1>3, Zenon DEF Rings
<1>6. Locks'
  BY <1>1, <1>2, <1>3, Zenon DEF Locks, Moved, Types
<1>7. Found'
  BY <1>1, <1>2, <1>3, Zenon DEF Found, Moved, Room, Types, Locks
<1>8. Sleepers'
  BY <1>1, <1>2, <1>3, Zenon DEF Sleepers, Types
<1>9. Ahead'
  BY <1>1, <1>2, <1>3, Zenon DEF Ahead, Moved
<1> QED
  BY <1>4, <1>5, <1>6, <1>7, <1>8, <1>9, Zenon

\* A reader takes the next character: nobody sleeps for one, and the distances shrink.
LEMMA Takes ==
  ASSUME IndInv, r # w, r' = (r + 1) % WRAP, UNCHANGED <<w, e, txr, txw, asleep>>
  PROVE  r' \in Index /\ Rings' /\ Sleepers'
<1>1. r \in Index /\ w \in Index /\ e \in Index
  BY Zenon DEF IndInv, Types, Index
<1>2. r' \in Index
  BY <1>1, After, Zenon
<1>3. /\ Minus(w, r) \in Index /\ Minus(e, r) \in Index /\ Minus(e, w) \in Index /\ Minus(w, r) # 0
      /\ Minus(w, r') = Minus(w, r) - 1
  BY <1>1, Advance, Zenon
<1>4. Minus(w, r) + Minus(e, w) = Minus(e, r) /\ Minus(e, r) <= INPUT_BUF /\ Minus(txw, txr) <= UART_TX_BUF_SIZE
  BY Zenon DEF IndInv, Rings
<1>5. Minus(e, r) # 0
  BY <1>3, <1>4, Sizes DEF Index
<1>6. Minus(e, r') = Minus(e, r) - 1
  BY <1>1, <1>5, Advance, ZenonT(40)
<1>7. Rings'
  <2>1. Minus(w, r') + Minus(e, w) = Minus(e, r') /\ Minus(e, r') <= INPUT_BUF
    BY <1>3, <1>4, <1>6, Sizes DEF Index
  <2> QED
    BY <1>4, <2>1, Zenon DEF Rings, Minus
<1>8. Sleepers'
  BY Zenon DEF IndInv, Sleepers
<1> QED
  BY <1>2, <1>7, <1>8, Zenon

\* consoleread returns, with the index r moved or not.
LEMMA Returns ==
  ASSUME IndInv, NEW p \in Reader, pc[p] = "read", lock' = Nobody, Moved(p, "idle"),
         UNCHANGED <<buf, w, e, txbuf, txr, txw, txlock, fifo, rx, irq, char, asleep, load>>,
         r' \in Index, Rings', Sleepers'
  PROVE  IndInv'
<1> USE Names DEF IndInv
<1>1. lock = p
  BY Zenon DEF Locks
<1>2. \A q \in Reader : q # p => pc[q] \notin {"read", "read_sleep"}
  BY <1>1, Zenon DEF Locks
<1>3. pc[Intr] \notin {"sync", "sync_send", "store"}
  BY <1>1, Zenon DEF Locks
<1>4. pc'[p] = "idle" /\ \A q \in Actor : q # p => pc'[q] = pc[q]
  BY Zenon DEF Moved
<1>5. Types'
  BY <1>4, Zenon DEF Types, Moved, Index
<1>6. Locks'
  <2>1. /\ \A q \in Reader : lock' = q <=> pc'[q] \in {"read", "read_sleep"}
        /\ lock' = Intr <=> pc'[Intr] \in {"sync", "sync_send", "store"}
    BY <1>2, <1>3, <1>4, Zenon
  <2> QED
    BY <1>4, <2>1 DEF Locks
<1>7. Found'
  <2>1. \A q \in Reader : pc'[q] # "read_sleep"
    BY <1>2, <1>4, Zenon
  <2> QED
    BY <1>3, <1>4, <2>1 DEF Found
<1>8. Ahead'
  BY <1>4, Zenon DEF Ahead
<1> QED
  BY <1>5, <1>6, <1>7, <1>8, Zenon

LEMMA ReadDoneStep ==
  ASSUME IndInv, NEW p \in Reader, read_done(p), load' = load
  PROVE  IndInv'
<1>1. pc[p] = "read" /\ lock' = Nobody /\ Goto(p, "idle")
  BY Zenon DEF read_done, ReadReturns
<1>2. UNCHANGED <<buf, r, w, e, txbuf, txr, txw, txlock, fifo, rx, irq, char, asleep, load>>
  BY Zenon DEF read_done, tx, uart
<1>3. Moved(p, "idle")
  BY <1>1, Moves, Names, Zenon DEF IndInv, PC
<1>4. r' \in Index /\ Rings' /\ Sleepers'
  BY <1>2, Zenon DEF IndInv, Types, Index, Rings, Sleepers, Minus
<1> QED
  BY <1>1, <1>2, <1>3, <1>4, Returns, Zenon

LEMMA ReadWaitStep ==
  ASSUME IndInv, NEW p \in Reader, read_wait(p), load' = load
  PROVE  IndInv'
<1>1. pc[p] = "read" /\ r = w
  BY Zenon DEF read_wait
<1>2. UNCHANGED <<buf, r, w, e, txbuf, txr, txw, txlock, fifo, rx, irq, char, asleep, load>>
  BY Zenon DEF read_wait, tx, uart
<1>3. r' \in Index /\ Rings' /\ Sleepers'
  BY <1>2, Zenon DEF IndInv, Types, Index, Rings, Sleepers, Minus
<1>4. CASE ReadReturns(p)
  <2>1. lock' = Nobody /\ Goto(p, "idle")
    BY <1>4, Zenon DEF ReadReturns
  <2>2. Moved(p, "idle")
    BY <2>1, Moves, Names, Zenon DEF IndInv, PC
  <2> QED
    BY <1>1, <1>2, <1>3, <2>1, <2>2, Returns, Zenon
<1>5. CASE Goto(p, "read_sleep") /\ lock' = lock
  <2> USE Names DEF IndInv
  <2>1. Moved(p, "read_sleep")
    BY <1>5, Moves, Zenon DEF PC
  <2>2. pc'[p] = "read_sleep" /\ \A q \in Actor : q # p => pc'[q] = pc[q]
    BY <2>1, Zenon DEF Moved
  <2>3. Types'
    BY <1>2, <1>5, <2>1, <2>2, Zenon DEF Types, Moved
  <2>4. Locks'
    BY <1>1, <1>2, <1>5, <2>2 DEF Locks
  <2>5. Found'
    BY <1>1, <1>2, <2>2, Zenon DEF Found, Room, Minus
  <2>6. Ahead'
    BY <1>2, <2>2, Zenon DEF Ahead
  <2> QED
    BY <1>3, <2>3, <2>4, <2>5, <2>6, Zenon
<1> QED
  BY <1>4, <1>5, Zenon DEF read_wait

LEMMA ReadCharStep ==
  ASSUME IndInv, NEW p \in Reader, NEW copied \in BOOLEAN, read_char(p, copied), load' = load
  PROVE  IndInv'
<1>1. pc[p] = "read" /\ r # w
  BY Zenon DEF read_char
<1>2. UNCHANGED <<buf, w, e, txbuf, txr, txw, txlock, fifo, rx, irq, char, asleep, load>>
  BY Zenon DEF read_char, tx, uart
<1>3. r' = r \/ r' = (r + 1) % WRAP
  BY Zenon DEF read_char
<1>4. r' \in Index /\ Rings' /\ Sleepers'
  <2>1. CASE r' = r
    BY <1>2, <2>1, Zenon DEF IndInv, Types, Index, Rings, Sleepers, Minus
  <2>2. CASE r' = (r + 1) % WRAP
    BY <1>1, <1>2, <2>2, Takes, Zenon
  <2> QED
    BY <1>3, <2>1, <2>2, Zenon
<1>5. CASE ReadReturns(p)
  <2>1. lock' = Nobody /\ Goto(p, "idle")
    BY <1>5, Zenon DEF ReadReturns
  <2>2. Moved(p, "idle")
    BY <2>1, Moves, Names, Zenon DEF IndInv, PC
  <2> QED
    BY <1>1, <1>2, <1>4, <2>1, <2>2, Returns, Zenon
<1>6. CASE UNCHANGED <<lock, pc>>
  <2> USE Names DEF IndInv
  <2>1. lock = p
    BY <1>1, Zenon DEF Locks
  <2>2. pc[Intr] \notin {"sync", "sync_send", "store"} /\ \A q \in Reader : pc[q] # "read_sleep"
    BY <1>1, <2>1, Zenon DEF Locks
  <2>3. Types'
    BY <1>2, <1>4, <1>6, Zenon DEF Types, Index
  <2>4. Locks' /\ Ahead'
    BY <1>2, <1>6, Zenon DEF Locks, Ahead
  <2>5. Found'
    BY <1>2, <1>6, <2>2 DEF Found
  <2> QED
    BY <1>4, <2>3, <2>4, <2>5, Zenon
<1> QED
  BY <1>5, <1>6, Zenon DEF read_char

LEMMA UartputcStep ==
  ASSUME IndInv, NEW p \in Writer, uartputc(p), load' = load
  PROVE  IndInv'
<1> USE Names DEF IndInv
<1>1. pc[p] \in {"putc", "putc_full"} /\ txlock = Nobody /\ \A a \in Writer \cup {Intr} : pc[a] \notin {"start", "send"}
  BY Zenon DEF uartputc, Locks
<1>2. UNCHANGED <<buf, r, w, e, lock, txr, fifo, rx, irq, echo, load>>
  BY Zenon DEF uartputc, cons, uart
<1>3. CASE txlock' = p /\ Goto(p, "dead") /\ UNCHANGED <<txbuf, txw, char, asleep>>
  <2>1. Moved(p, "dead")
    BY <1>3, Moves, Zenon DEF PC
  <2>2. pc'[p] = "dead" /\ \A q \in Actor : q # p => pc'[q] = pc[q]
    BY <2>1, Zenon DEF Moved
  <2>3. Types'
    BY <1>2, <1>3, <2>1, <2>2, Zenon DEF Types, Moved
  <2>4. Locks'
    BY <1>1, <1>2, <1>3, <2>2, Zenon DEF Locks
  <2>5. Found'
    BY <1>1, <1>2, <1>3, <2>2, Zenon DEF Found, Room, Minus
  <2>6. Ahead'
    BY <1>2, <1>3, <2>2, Zenon DEF Ahead
  <2>7. Rings' /\ Sleepers'
    BY <1>2, <1>3, Zenon DEF Rings, Sleepers, Minus
  <2> QED
    BY <2>3, <2>4, <2>5, <2>6, <2>7, Zenon
<1>4. CASE /\ txw = (txr + UART_TX_BUF_SIZE) % WRAP
           /\ asleep' = [asleep EXCEPT ![p] = "tx_r"] /\ Goto(p, "putc_full")
           /\ UNCHANGED <<txbuf, txw, txlock, char>>
  <2>1. Moved(p, "putc_full")
    BY <1>4, Moves, Zenon DEF PC
  <2>2. pc'[p] = "putc_full" /\ \A q \in Actor : q # p => pc'[q] = pc[q]
    BY <2>1, Zenon DEF Moved
  <2>3. asleep' \in [Proc -> {"no", "r", "tx_r"}] /\ \A q \in Proc : asleep'[q] = IF q = p THEN "tx_r" ELSE asleep[q]
    BY <1>4, Zenon DEF Types
  <2>4. Types'
    <3>1. \A q \in Writer : pc'[q] \in {"idle", "putc", "putc_full", "start", "send", "sync", "sync_send", "dead"}
      BY <2>2, Zenon DEF Types
    <3>2. pc' \in [Actor -> PC] /\ pc'[Intr] = pc[Intr] /\ \A q \in Reader : pc'[q] = pc[q]
      BY <2>1, Zenon DEF Moved
    <3> QED
      BY <1>2, <1>4, <2>3, <3>1, <3>2, Zenon DEF Types
  <2>5. Sleepers'
    BY <1>2, <1>4, <2>3, Zenon DEF Sleepers
  <2>6. Locks'
    BY <1>1, <1>2, <1>4, <2>2, Zenon DEF Locks
  <2>7. Found'
    BY <1>1, <1>2, <1>4, <2>2, Zenon DEF Found, Room, Minus
  <2>8. Ahead'
    BY <1>2, <1>4, <2>2, Zenon DEF Ahead
  <2>9. Rings'
    BY <1>2, <1>4, Zenon DEF Rings, Minus
  <2> QED
    BY <2>4, <2>5, <2>6, <2>7, <2>8, <2>9, Zenon
<1>5. CASE /\ txw # (txr + UART_TX_BUF_SIZE) % WRAP
           /\ txbuf' = [txbuf EXCEPT ![txw % UART_TX_BUF_SIZE] = char[p]]
           /\ txw' = (txw + 1) % WRAP /\ txlock' = p
           /\ char' = [char EXCEPT ![p] = "nul"]
           /\ Goto(p, "start") /\ asleep' = asleep
  <2>1. Moved(p, "start")
    BY <1>5, Moves, Zenon DEF PC
  <2>2. pc'[p] = "start" /\ \A q \in Actor : q # p => pc'[q] = pc[q]
    BY <2>1, Zenon DEF Moved
  <2>3. txr \in Index /\ txw \in Index /\ char[p] \in Cell
    BY Zenon DEF Types, Index
  <2>4. txw' \in Index
    BY <1>5, <2>3, After, Zenon
  <2>5. /\ Minus(txw, txr) \in Index /\ Minus(txw, txr) <= UART_TX_BUF_SIZE
        /\ Minus(txw, txr) # UART_TX_BUF_SIZE
    BY <1>5, <2>3, Advance, FullTest, Sizes DEF Rings
  <2>6. Minus(txw, txr) < WRAP - 1 /\ Minus(txw, txr) + 1 <= UART_TX_BUF_SIZE
    BY <2>5, Sizes DEF Index
  <2>7. Minus(txw', txr) = Minus(txw, txr) + 1
    BY <1>5, <2>3, <2>6, Advance, Zenon
  <2>8. Minus(txw', txr) <= UART_TX_BUF_SIZE
    BY <2>6, <2>7, Zenon
  <2>9. txw' # txr
    BY <2>3, <2>4, <2>5, <2>7, Advance, Sizes DEF Index
  <2>10. txbuf' \in [0..(UART_TX_BUF_SIZE - 1) -> Cell]
    BY <1>5, <2>3, Zenon DEF Types
  <2>11. char' \in [Actor -> Cell] /\ char'[Intr] = char[Intr]
    BY <1>5, Zenon DEF Types, Cell
  <2>12. Types'
    <3>1. \A q \in Writer : pc'[q] \in {"idle", "putc", "putc_full", "start", "send", "sync", "sync_send", "dead"}
      BY <2>2, Zenon DEF Types
    <3>2. pc' \in [Actor -> PC] /\ pc'[Intr] = pc[Intr] /\ \A q \in Reader : pc'[q] = pc[q]
      BY <2>1, Zenon DEF Moved
    <3>3. txw' \in 0..(WRAP - 1) /\ txlock' \in Writer \cup {Intr, Nobody}
      BY <1>5, <2>4, Zenon DEF Index
    <3> QED
      BY <1>2, <1>5, <2>10, <2>11, <3>1, <3>2, <3>3, Zenon DEF Types
  <2>13. Rings'
    BY <1>2, <2>8, Zenon DEF Rings, Minus
  <2>14. Locks'
    BY <1>1, <1>2, <1>5, <2>2, Zenon DEF Locks
  <2>15. Found'
    BY <1>1, <1>2, <2>2, <2>11, Zenon DEF Found, Room, Minus
  <2>16. Sleepers'
    BY <1>2, <1>5, Zenon DEF Sleepers
  <2>17. Ahead'
    BY <1>2, <1>5, <2>2, ZenonT(40) DEF Ahead
  <2> QED
    BY <2>12, <2>13, <2>14, <2>15, <2>16, <2>17, Zenon
<1> QED
  BY <1>3, <1>4, <1>5, Zenon DEF uartputc

LEMMA UartstartStep ==
  ASSUME IndInv, NEW a \in Writer \cup {Intr}, uartstart(a), load' = load
  PROVE  IndInv'
<1> USE Names DEF IndInv
<1>1. pc[a] = "start" /\ txlock = a /\ a \in Actor
      /\ \A b \in Writer \cup {Intr} : b # a => pc[b] \notin {"start", "send"}
  BY Zenon DEF uartstart, Locks
<1>2. UNCHANGED <<buf, r, w, e, lock, txbuf, txr, txw, fifo, rx, irq, char, echo, asleep, load>>
  BY Zenon DEF uartstart, cons, uart
<1>3. Rings' /\ Sleepers'
  BY <1>2, Zenon DEF Rings, Sleepers, Minus
<1>4. CASE (txw = txr \/ ~Idle) /\ txlock' = Nobody /\ Goto(a, "idle")
  <2>1. Moved(a, "idle")
    BY <1>1, <1>4, Moves, Zenon DEF PC
  <2>2. pc'[a] = "idle" /\ \A q \in Actor : q # a => pc'[q] = pc[q]
    BY <2>1, Zenon DEF Moved
  <2>3. Types'
    BY <1>1, <1>2, <1>4, <2>1, <2>2, Zenon DEF Types, Moved
  <2>4. Locks'
    BY <1>1, <1>2, <1>4, <2>2 DEF Locks
  <2>5. Found'
    BY <1>1, <1>2, <2>2 DEF Found, Room, Minus
  <2>6. Ahead'
    BY <1>1, <1>2, <1>4, <2>2, Zenon DEF Ahead, Idle
  <2> QED
    BY <1>3, <2>3, <2>4, <2>5, <2>6, Zenon
<1>5. CASE txw # txr /\ Goto(a, "send") /\ txlock' = txlock
  <2>1. Moved(a, "send")
    BY <1>1, <1>5, Moves, Zenon DEF PC
  <2>2. pc'[a] = "send" /\ \A q \in Actor : q # a => pc'[q] = pc[q]
    BY <2>1, Zenon DEF Moved
  <2>3. Types'
    BY <1>1, <1>2, <1>5, <2>1, <2>2, Zenon DEF Types, Moved
  <2>4. Locks'
    BY <1>1, <1>2, <1>5, <2>2, Zenon DEF Locks
  <2>5. Found'
    BY <1>1, <1>2, <1>5, <2>2 DEF Found, Room, Minus
  <2>6. Ahead'
    BY <1>1, <1>2, <1>5, <2>2, Zenon DEF Ahead
  <2> QED
    BY <1>3, <2>3, <2>4, <2>5, <2>6, Zenon
<1> QED
  BY <1>4, <1>5 DEF uartstart

LEMMA StartSendStep ==
  ASSUME IndInv, NEW a \in Writer \cup {Intr}, start_send(a), load' = load
  PROVE  IndInv'
<1> USE Names DEF IndInv
<1>1. pc[a] = "send" /\ txlock = a /\ a \in Actor /\ txw # txr
      /\ \A b \in Writer \cup {Intr} : b # a => pc[b] \notin {"start", "send"}
  BY Zenon DEF start_send, Locks, Found
<1>2. UNCHANGED <<buf, r, w, e, lock, txbuf, txw, txlock, rx, irq, char, echo, load>>
  BY Zenon DEF start_send, cons
<1>3. txr' = (txr + 1) % WRAP /\ Sent(txbuf[txr % UART_TX_BUF_SIZE]) /\ asleep' = Wakeup("tx_r") /\ Goto(a, "start")
  BY Zenon DEF start_send
<1>4. Moved(a, "start")
  BY <1>1, <1>3, Moves, Zenon DEF PC
<1>5. pc'[a] = "start" /\ \A q \in Actor : q # a => pc'[q] = pc[q]
  BY <1>4, Zenon DEF Moved
<1>6. fifo' \in Seq(Cell) /\ (fifo # <<>> => fifo' # <<>>)
  <2>1. txr % UART_TX_BUF_SIZE \in 0..(UART_TX_BUF_SIZE - 1)
    BY Sizes DEF Types
  <2>2. txbuf[txr % UART_TX_BUF_SIZE] \in Cell
    BY <2>1, Zenon DEF Types
  <2> QED
    BY <1>3, <2>2, Sends, Zenon
<1>7. asleep' \in [Proc -> {"no", "r", "tx_r"}] /\ \A q \in Proc : asleep'[q] # "tx_r" /\ (asleep'[q] = "r" => asleep[q] = "r")
  BY <1>3, Zenon DEF Wakeup, Types
<1>8. txr \in Index /\ txw \in Index
  BY Zenon DEF Types, Index
<1>9. txr' \in Index /\ Minus(txw, txr') = Minus(txw, txr) - 1 /\ Minus(txw, txr) \in Index
  BY <1>1, <1>3, <1>8, After, Advance
<1>10. Minus(txw, txr') <= UART_TX_BUF_SIZE
  <2>1. Minus(txw, txr) <= UART_TX_BUF_SIZE
    BY Zenon DEF Rings
  <2> QED
    BY <1>9, <2>1, Sizes DEF Index
<1>11. Types'
  BY <1>1, <1>2, <1>4, <1>5, <1>6, <1>7, <1>9, ZenonT(40) DEF Types, Moved, Index
<1>12. Rings'
  BY <1>2, <1>10, Zenon DEF Rings, Minus
<1>13. Locks'
  BY <1>1, <1>2, <1>5, Zenon DEF Locks
<1>14. Found'
  BY <1>1, <1>2, <1>5, Zenon DEF Found, Room, Minus
<1>15. Sleepers'
  BY <1>2, <1>7, Zenon DEF Sleepers
<1>16. Ahead'
  BY <1>1, <1>2, <1>5, Zenon DEF Ahead
<1> QED
  BY <1>11, <1>12, <1>13, <1>14, <1>15, <1>16, Zenon

LEMMA UartgetcStep ==
  ASSUME IndInv, uartgetc, load' = load
  PROVE  IndInv'
<1> USE Names DEF IndInv
<1>1. pc[Intr] = "getc"
  BY Zenon DEF uartgetc
<1>2. UNCHANGED <<buf, r, w, e, lock, txbuf, txr, txw, txlock, fifo, irq, echo, asleep, load>>
  BY Zenon DEF uartgetc, cons, tx
<1>3. Rings' /\ Sleepers'
  BY <1>2, Zenon DEF Rings, Sleepers, Minus
<1>4. CASE rx # <<>> /\ rx' = Tail(rx) /\ char' = [char EXCEPT ![Intr] = Head(rx)] /\ Goto(Intr, "intr")
  <2>1. Moved(Intr, "intr")
    BY <1>4, Moves, Zenon DEF PC
  <2>2. pc'[Intr] = "intr" /\ \A q \in Actor : q # Intr => pc'[q] = pc[q]
    BY <2>1, Zenon DEF Moved
  <2>3. rx' \in Seq(Char) /\ Head(rx) \in Char
    BY <1>4 DEF Types
  <2>4. char' \in [Actor -> Cell]
    BY <1>4, <2>3, Zenon DEF Types, Cell
  <2>5. Types'
    BY <1>2, <2>1, <2>2, <2>3, <2>4, Zenon DEF Types, Moved
  <2>6. Locks'
    BY <1>1, <1>2, <2>2 DEF Locks
  <2>7. Found'
    BY <1>2, <2>2, Zenon DEF Found
  <2>8. Ahead'
    BY <1>1, <1>2, <2>2, Zenon DEF Ahead
  <2> QED
    BY <1>3, <2>5, <2>6, <2>7, <2>8, Zenon
<1>5. CASE rx = <<>> /\ Goto(Intr, "intr_start") /\ UNCHANGED <<rx, char>>
  <2>1. Moved(Intr, "intr_start")
    BY <1>5, Moves, Zenon DEF PC
  <2>2. pc'[Intr] = "intr_start" /\ \A q \in Actor : q # Intr => pc'[q] = pc[q]
    BY <2>1, Zenon DEF Moved
  <2>3. Types'
    BY <1>2, <1>5, <2>1, <2>2, Zenon DEF Types, Moved
  <2>4. Locks'
    BY <1>1, <1>2, <2>2 DEF Locks
  <2>5. Found'
    BY <1>2, <2>2, Zenon DEF Found
  <2>6. Ahead'
    BY <1>2, <1>5, <2>2, Zenon DEF Ahead
  <2> QED
    BY <1>3, <2>3, <2>4, <2>5, <2>6, Zenon
<1> QED
  BY <1>4, <1>5, Zenon DEF uartgetc

\* Characters are erased: k of them, at most what the line has.
LEMMA Erases ==
  ASSUME IndInv, NEW k \in Nat, k <= Minus(e, w), e' = Minus(e, k), UNCHANGED <<r, w, txr, txw>>
  PROVE  e' \in Index /\ Rings'
<1>1. r \in Index /\ w \in Index /\ e \in Index
  BY Zenon DEF IndInv, Types, Index
<1>2. Minus(w, r) \in Index /\ Minus(e, r) \in Index /\ Minus(e, w) \in Index
  BY <1>1, Advance, Zenon
<1>3. Minus(w, r) + Minus(e, w) = Minus(e, r) /\ Minus(e, r) <= INPUT_BUF /\ Minus(txw, txr) <= UART_TX_BUF_SIZE
  BY Zenon DEF IndInv, Rings
<1>4. e' \in Index /\ Minus(e', w) = Minus(e, w) - k
  BY <1>1, Back, Zenon
<1>5. k <= Minus(e, r)
  BY <1>2, <1>3, Sizes DEF Index
<1>6. Minus(e', r) = Minus(e, r) - k
  BY <1>1, <1>5, Back, Zenon
<1>7. Minus(w, r) + Minus(e', w) = Minus(e', r) /\ Minus(e', r) <= INPUT_BUF
  BY <1>2, <1>3, <1>4, <1>6, Sizes DEF Index
<1> QED
  BY <1>3, <1>4, <1>7, Zenon DEF Rings, Minus

\* consoleintr goes on to echo a character: one that is left out of the line, or one
\* there is room for.
LEMMA EchoesStep ==
  ASSUME IndInv, NEW n, pc[Intr] = "intr", lock = Nobody, Echoes(n), load' = load,
         UNCHANGED <<buf, r, w, txbuf, txr, txw, txlock, fifo, rx, irq, asleep>>,
         e' \in Index, Rings',
         char[Intr] \in {"P", "U", "H"} \/ (char[Intr] \notin Special /\ Room /\ e' = e)
  PROVE  IndInv'
<1> USE Names DEF IndInv
<1>1. lock' = Intr /\ Goto(Intr, "sync") /\ char' = [char EXCEPT ![Intr] = IF char[Intr] = "cr" THEN "nl" ELSE char[Intr]]
  BY Zenon DEF Echoes
<1>2. Moved(Intr, "sync")
  BY <1>1, Moves, Zenon DEF PC
<1>3. pc'[Intr] = "sync" /\ \A q \in Actor : q # Intr => pc'[q] = pc[q]
  BY <1>2, Zenon DEF Moved
<1>4. char' \in [Actor -> Cell] /\ char'[Intr] = IF char[Intr] = "cr" THEN "nl" ELSE char[Intr]
  BY <1>1, Zenon DEF Types, Cell
<1>5. char'[Intr] \notin Special => Room'
  BY <1>4 DEF Room, Special, Minus
<1>6. Types'
  BY <1>1, <1>2, <1>3, <1>4, Zenon DEF Types, Moved, Index
<1>7. Locks'
  BY <1>1, <1>3 DEF Locks
<1>8. Found'
  BY <1>3, <1>5, Zenon DEF Found
<1>9. Sleepers' /\ Ahead'
  BY <1>3, Zenon DEF Sleepers, Ahead
<1> QED
  BY <1>6, <1>7, <1>8, <1>9, Zenon

LEMMA IgnoredStep ==
  ASSUME IndInv, pc[Intr] = "intr", Ignored, load' = load,
         UNCHANGED <<buf, r, w, txbuf, txr, txw, txlock, fifo, rx, irq, asleep>>
  PROVE  IndInv'
<1> USE Names DEF IndInv
<1>1. UNCHANGED <<lock, echo, e>> /\ Goto(Intr, "getc") /\ char' = [char EXCEPT ![Intr] = "nul"]
  BY Zenon DEF Ignored
<1>2. Moved(Intr, "getc")
  BY <1>1, Moves, Zenon DEF PC
<1>3. pc'[Intr] = "getc" /\ \A q \in Actor : q # Intr => pc'[q] = pc[q]
  BY <1>2, Zenon DEF Moved
<1>4. char' \in [Actor -> Cell]
  BY <1>1, Zenon DEF Types, Cell
<1>5. Types'
  BY <1>1, <1>2, <1>3, <1>4, Zenon DEF Types, Moved
<1>6. Locks'
  BY <1>1, <1>3 DEF Locks
<1>7. Found' /\ Sleepers' /\ Ahead'
  BY <1>1, <1>3 DEF Found, Sleepers, Ahead
<1>8. Rings'
  BY <1>1, Zenon DEF Rings, Minus
<1> QED
  BY <1>5, <1>6, <1>7, <1>8, Zenon

\* What LineInput's variables stand for.
Edited == Cells(buf, INPUT_BUF, w, e)

Handed == Cells(buf, INPUT_BUF, r, w)

Got == [p \in Reader |-> target[p] - left[p]]

\* In terms of runs of cells.
LEMMA Runs ==
  ASSUME IndInv, LineInv
  PROVE  /\ r \in Index /\ w \in Index /\ e \in Index /\ buf \in Ring
         /\ Minus(w, r) \in Nat /\ Minus(e, w) \in Nat /\ Minus(e, r) \in Nat
         /\ Minus(w, r) + Minus(e, w) = Minus(e, r) /\ Minus(e, r) <= INPUT_BUF
         /\ Edited = Run(buf, w, Minus(e, w)) /\ Handed = Run(buf, r, Minus(w, r))
         /\ Edited \in Seq(Cell) /\ Len(Edited) = Minus(e, w)
         /\ Handed \in Seq(Cell) /\ Len(Handed) = Minus(w, r)
<1>1. r \in Index /\ w \in Index /\ e \in Index /\ buf \in Ring
  BY Zenon DEF IndInv, Types, Index, LineInv, Edits
<1>2. Minus(w, r) \in Nat /\ Minus(e, w) \in Nat /\ Minus(e, r) \in Nat
  <2>1. Minus(w, r) \in Index /\ Minus(e, w) \in Index /\ Minus(e, r) \in Index
    BY <1>1, Advance, Zenon
  <2> QED
    BY <2>1, Sizes DEF Index
<1>3. Minus(w, r) + Minus(e, w) = Minus(e, r) /\ Minus(e, r) <= INPUT_BUF
  BY Zenon DEF IndInv, Rings
<1>4. Edited = Run(buf, w, Minus(e, w)) /\ Handed = Run(buf, r, Minus(w, r))
  BY Zenon DEF Edited, Handed, Cells, Run
<1>5. /\ Edited \in Seq(Cell) /\ Len(Edited) = Minus(e, w)
      /\ Handed \in Seq(Cell) /\ Len(Handed) = Minus(w, r)
  BY <1>1, <1>2, <1>4, RunSeq, Zenon
<1> QED
  BY <1>1, <1>2, <1>3, <1>4, <1>5, Zenon

\* ^U erases the whole line: there is no end in it to stop at.
LEMMA ErasesLine ==
  ASSUME IndInv, LineInv
  PROVE  Erased = Minus(e, w)
<1> DEFINE d == Minus(e, w)
           stop(k) == Minus(e, k) = w \/ buf[Minus(e, k + 1) % INPUT_BUF] = "nl"
<1>1. /\ w \in Index /\ e \in Index /\ Minus(w, r) \in Nat /\ d \in Nat
      /\ Minus(w, r) + d = Minus(e, r) /\ Minus(e, r) <= INPUT_BUF
  BY Runs, Zenon
<1>2. d \in 0..INPUT_BUF
  BY <1>1, Sizes
<1>3. stop(d)
  <2>1. d \in Nat /\ d <= d
    BY <1>1
  <2>2. Minus(e, d) \in Index /\ Minus(Minus(e, d), w) = d - d
    BY <1>1, <2>1, Back
  <2>3. Minus(Minus(e, d), w) = 0
    BY <2>1, <2>2
  <2> QED
    BY <1>1, <2>2, <2>3, Advance
<1>4. ASSUME NEW j \in 0..(d - 1) PROVE ~stop(j)
  <2> DEFINE x == Minus(e, j)   y == Minus(e, j + 1)
  <2>1. j \in Nat /\ j + 1 \in Nat /\ j <= d /\ j + 1 <= d /\ d - (j + 1) \in 0..(d - 1) /\ d - j # 0
    BY <1>1
  <2>2. x \in Index /\ Minus(x, w) = d - j /\ y \in Index /\ Minus(y, w) = d - (j + 1)
    BY <1>1, <2>1, Back, Zenon
  <2>3. x # w
    BY <1>1, <2>1, <2>2, Advance
  <2>4. y % INPUT_BUF = (w + (d - (j + 1))) % INPUT_BUF
    <3>1. 0 \in Nat
      OBVIOUS
    <3> HIDE DEF d, y
    <3>2. (y + 0) % INPUT_BUF = (w + Minus(y, w) + 0) % INPUT_BUF
      BY <1>1, <2>2, <3>1, Counted, Zenon
    <3>3. y + 0 = y /\ w + (d - (j + 1)) + 0 = w + (d - (j + 1))
      BY <1>1, <2>1, <2>2 DEF Index
    <3> QED
      BY <2>2, <3>2, <3>3, Zenon
  <2>5. buf[y % INPUT_BUF] # "nl"
    BY <2>1, <2>4, Zenon DEF LineInv, Edits
  <2> QED
    BY <2>3, <2>5, Zenon
<1>5. Erased \in 0..INPUT_BUF /\ stop(Erased) /\ \A j \in 0..(Erased - 1) : ~stop(j)
  BY <1>2, <1>3, <1>4, Zenon DEF Erased
<1> HIDE DEF d, stop
<1>6. CASE Erased < d
  <2>1. Erased \in 0..(d - 1)
    BY <1>1, <1>5, <1>6, Sizes
  <2> QED
    BY <1>4, <1>5, <2>1, Zenon
<1>7. CASE d < Erased
  <2>1. d \in 0..(Erased - 1)
    BY <1>1, <1>5, <1>7, Sizes
  <2> QED
    BY <1>3, <1>5, <2>1, Zenon
<1> QED
  BY <1>1, <1>5, <1>6, <1>7, Sizes DEF d

LEMMA ConsoleintrStep ==
  ASSUME IndInv, LineInv, consoleintr, load' = load
  PROVE  IndInv'
<1> USE DEF IndInv
<1>1. pc[Intr] = "intr" /\ lock = Nobody
      /\ UNCHANGED <<buf, r, w, txbuf, txr, txw, txlock, fifo, rx, irq, asleep>>
  BY Zenon DEF consoleintr, tx, uart
<1>2. r \in Index /\ w \in Index /\ e \in Index
  BY Zenon DEF Types, Index
<1>3. Minus(e, w) \in Index /\ Minus(e, w) <= INPUT_BUF /\ (e # w => 1 <= Minus(e, w))
  <2>1. Minus(w, r) \in Index /\ Minus(e, r) \in Index /\ Minus(e, w) \in Index /\ (Minus(e, w) = 0 <=> e = w)
    BY <1>2, Advance, Zenon
  <2>2. Minus(w, r) + Minus(e, w) = Minus(e, r) /\ Minus(e, r) <= INPUT_BUF
    BY Zenon DEF Rings
  <2> QED
    BY <2>1, <2>2, Sizes DEF Index
<1>4. CASE char[Intr] = "P" /\ Echoes(1) /\ e' = e
  <2>1. e' \in Index /\ Rings'
    BY <1>1, <1>2, <1>4, Zenon DEF Rings, Minus
  <2> QED
    BY <1>1, <1>4, <2>1, EchoesStep, Zenon
<1>5. CASE char[Intr] = "U" /\ e' = Minus(e, Erased) /\ Echoes(3 * Erased)
  <2>1. Erased \in Nat /\ Erased <= Minus(e, w)
    BY <1>3, ErasesLine, Sizes DEF Index
  <2>2. e' \in Index /\ Rings'
    BY <1>1, <1>5, <2>1, Erases, Zenon
  <2> QED
    BY <1>1, <1>5, <2>2, EchoesStep, Zenon
<1>6. CASE char[Intr] = "H" /\ e # w /\ e' = Minus(e, 1) /\ Echoes(3)
  <2>1. e' \in Index /\ Rings'
    BY <1>1, <1>3, <1>6, Erases, Zenon
  <2> QED
    BY <1>1, <1>6, <2>1, EchoesStep, Zenon
<1>7. CASE char[Intr] \notin Special /\ Room /\ Echoes(1) /\ e' = e
  <2>1. e' \in Index /\ Rings'
    BY <1>1, <1>2, <1>7, Zenon DEF Rings, Minus
  <2> QED
    BY <1>1, <1>7, <2>1, EchoesStep, Zenon
<1>8. CASE Ignored
  BY <1>1, <1>8, IgnoredStep, Zenon
<1> QED
  BY <1>4, <1>5, <1>6, <1>7, <1>8, Zenon DEF consoleintr

LEMMA IntrEchoStep ==
  ASSUME IndInv, intr_echo, load' = load
  PROVE  IndInv'
<1> USE Names DEF IndInv
<1>1. pc[Intr] = "sync_send" /\ Sent(Echo) /\ lock = Intr /\ \A p \in Reader : pc[p] \notin {"read", "read_sleep"}
  BY Zenon DEF intr_echo, Locks
<1>2. UNCHANGED <<buf, r, w, e, txbuf, txr, txw, txlock, rx, irq, asleep, load>>
  BY Zenon DEF intr_echo, tx
<1>3. Rings' /\ Sleepers'
  BY <1>2, Zenon DEF Rings, Sleepers, Minus
<1>4. fifo' \in Seq(Cell) /\ (fifo # <<>> => fifo' # <<>>)
  BY <1>1, Sends, Zenon DEF Cell
<1>5. ASSUME NEW to \in {"sync", "store"}, Goto(Intr, to), UNCHANGED <<lock, char>>,
             to = "store" => char[Intr] \notin Special
      PROVE  IndInv'
  <2>1. Moved(Intr, to)
    BY <1>5, Moves, Zenon DEF PC
  <2>2. pc'[Intr] = to /\ \A q \in Actor : q # Intr => pc'[q] = pc[q]
    BY <2>1, Zenon DEF Moved
  <2>3. Types'
    BY <1>2, <1>4, <1>5, <2>1, <2>2, Zenon DEF Types, Moved
  <2>4. Locks'
    BY <1>1, <1>2, <1>5, <2>2, Zenon DEF Locks
  <2>5. Found'
    BY <1>1, <1>2, <1>5, <2>2, Zenon DEF Found, Room, Minus
  <2>6. Ahead'
    BY <1>1, <1>2, <1>4, <1>5, <2>2, Zenon DEF Ahead
  <2> QED
    BY <1>3, <2>3, <2>4, <2>5, <2>6, Zenon
<1>6. CASE lock' = Nobody /\ char' = [char EXCEPT ![Intr] = "nul"] /\ Goto(Intr, "getc")
  <2>1. Moved(Intr, "getc")
    BY <1>6, Moves, Zenon DEF PC
  <2>2. pc'[Intr] = "getc" /\ \A q \in Actor : q # Intr => pc'[q] = pc[q]
    BY <2>1, Zenon DEF Moved
  <2>3. char' \in [Actor -> Cell]
    BY <1>6, Zenon DEF Types, Cell
  <2>4. Types'
    BY <1>2, <1>4, <1>6, <2>1, <2>2, <2>3, Zenon DEF Types, Moved
  <2>5. Locks'
    BY <1>1, <1>2, <1>6, <2>2, SMTT(30) DEF Locks
  <2>6. Found'
    BY <1>1, <1>2, <2>2 DEF Found
  <2>7. Ahead'
    BY <1>1, <1>2, <1>4, <2>2, Zenon DEF Ahead
  <2> QED
    BY <1>3, <2>4, <2>5, <2>6, <2>7, Zenon
<1> QED
  BY <1>5, <1>6, Zenon DEF intr_echo

LEMMA IntrStoreStep ==
  ASSUME IndInv, intr_store, load' = load
  PROVE  IndInv'
<1> USE Names DEF IndInv
<1>1. /\ pc[Intr] = "store" /\ lock = Intr /\ \A p \in Reader : pc[p] \notin {"read", "read_sleep"}
      /\ Minus(e, r) < INPUT_BUF
  BY Zenon DEF intr_store, Locks, Found, Room
<1>2. UNCHANGED <<r, txbuf, txr, txw, txlock, fifo, rx, irq, load>>
  BY ZenonT(40) DEF intr_store, tx, uart
<1>3. /\ lock' = Nobody /\ char' = [char EXCEPT ![Intr] = "nul"] /\ Goto(Intr, "getc")
      /\ e' = (e + 1) % WRAP
      /\ (w' = e' /\ asleep' = Wakeup("r")) \/ UNCHANGED <<w, asleep>>
  BY DEF intr_store
<1>4. Moved(Intr, "getc")
  BY <1>3, Moves, Zenon DEF PC
<1>5. pc'[Intr] = "getc" /\ \A q \in Actor : q # Intr => pc'[q] = pc[q]
  BY <1>4, Zenon DEF Moved
<1>6. char' \in [Actor -> Cell]
  BY <1>3, Zenon DEF Types, Cell
<1>7. r \in Index /\ w \in Index /\ e \in Index
  BY Zenon DEF Types, Index
<1>8. e' \in Index /\ w' \in Index
  BY <1>3, <1>7, After, Zenon
<1>9. Minus(w, r) \in Index /\ Minus(e, r) \in Index /\ Minus(e, w) \in Index
  BY <1>7, Advance
<1>10. Minus(w, r) + Minus(e, w) = Minus(e, r) /\ Minus(txw, txr) <= UART_TX_BUF_SIZE
  BY Zenon DEF Rings
<1>11. Minus(e, r) < WRAP - 1 /\ Minus(e, w) < WRAP - 1
  BY <1>1, <1>9, <1>10, Sizes DEF Index
<1>12. Minus(e', r) = Minus(e, r) + 1 /\ Minus(e', w) = Minus(e, w) + 1
  BY <1>3, <1>7, <1>11, Advance, Zenon
<1>13. Minus(e', e') = 0
  BY <1>8, Advance, Zenon
<1>14. Rings'
  <2>1. Minus(w', r) + Minus(e', w') = Minus(e', r) /\ Minus(e', r) <= INPUT_BUF
    <3>1. CASE w' = e'
      BY <1>1, <1>9, <1>12, <1>13, <3>1, Sizes, SMTT(30) DEF Index
    <3>2. CASE w' = w
      BY <1>1, <1>9, <1>10, <1>12, <3>2, Sizes DEF Index
    <3> QED
      BY <1>3, <3>1, <3>2, Zenon
  <2> QED
    BY <1>2, <1>10, <2>1, Zenon DEF Rings, Minus
<1>15. asleep' \in [Proc -> {"no", "r", "tx_r"}] /\ Sleepers'
  <2>1. CASE w' = w /\ asleep' = asleep
    BY <1>2, <2>1, Zenon DEF Types, Sleepers
  <2>2. CASE asleep' = Wakeup("r")
    <3>1. \A p \in Proc : asleep'[p] # "r" /\ (asleep'[p] = "tx_r" => asleep[p] = "tx_r")
      BY <2>2, Zenon DEF Wakeup, Types
    <3>2. asleep' \in [Proc -> {"no", "r", "tx_r"}]
      BY <2>2, Zenon DEF Wakeup, Types
    <3> QED
      BY <1>2, <3>1, <3>2 DEF Sleepers
  <2> QED
    BY <1>3, <2>1, <2>2, Zenon
<1>16. Types'
  BY <1>2, <1>3, <1>4, <1>5, <1>6, <1>8, <1>15, SMTT(30) DEF Types, Moved, Index
<1>17. Locks'
  BY <1>1, <1>2, <1>3, <1>5 DEF Locks
<1>18. Found' /\ Ahead'
  BY <1>1, <1>2, <1>5, Zenon DEF Found, Ahead
<1> QED
  BY <1>14, <1>15, <1>16, <1>17, <1>18, Zenon

LEMMA InitInv == Init => IndInv
<1> SUFFICES ASSUME Init PROVE IndInv
  BY Zenon
<1> USE Names, Sizes DEF Init
<1>1. /\ \A a \in Actor : pc[a] = "idle"
      /\ pc \in [Actor -> PC] /\ char \in [Actor -> Cell]
      /\ txbuf \in [0..(UART_TX_BUF_SIZE - 1) -> Cell]
      /\ asleep \in [Proc -> {"no", "r", "tx_r"}] /\ \A p \in Proc : asleep[p] = "no"
  BY Zenon DEF Actor, PC, Cell
<1>2. fifo \in Seq(Cell) /\ rx \in Seq(Char)
  OBVIOUS
<1>3. 0 \in Index
  BY DEF Index
<1>4. Types
  BY <1>1, <1>2, <1>3, Zenon DEF Types, Index
<1>5. Rings
  <2>1. Minus(0, 0) = 0
    BY <1>3, Advance, Zenon
  <2> QED
    BY <2>1 DEF Rings
<1>6. Locks /\ Found /\ Sleepers /\ Ahead
  BY <1>1, Zenon DEF Locks, Found, Sleepers, Ahead
<1> QED
  BY <1>4, <1>5, <1>6, Zenon DEF IndInv

LEMMA StepInv == IndInv /\ LineInv /\ [Next]_vars => IndInv'
<1> SUFFICES ASSUME IndInv, LineInv, [Next]_vars PROVE IndInv'
  BY Zenon
<1>0. /\ load.procs \subseteq Proc /\ load.chars \subseteq Char /\ load.bytes \subseteq Byte
  BY LoadsAssumption, ZenonT(40) DEF IndInv, Types
<1>1. CASE UNCHANGED vars
  BY <1>1 DEF vars, cons, tx, uart, IndInv, Types, Rings, Locks, Found, Sleepers, Ahead, Minus, Room
<1>2. CASE Step /\ load' = load
  <2>1. CASE \E p \in Reader : \/ \E n \in load.sizes : consoleread(p, n)
                               \/ read_acquire(p) \/ read_wait(p) \/ read_sleep(p)
                               \/ \E copied \in BOOLEAN : read_char(p, copied)
                               \/ read_done(p)
    BY <1>2, <2>1, ConsolereadStep, ReadAcquireStep, ReadWaitStep, ReadSleepStep, ReadCharStep, ReadDoneStep, Zenon
  <2>2. CASE \E p \in Writer : \/ \E b \in Byte : consolewrite(p, b)
                               \/ uartputc(p) \/ printf(p) \/ sync_send(p) \/ panic(p)
    BY <1>2, <2>2, ConsolewriteStep, UartputcStep, PrintfStep, SyncSendStep, PanicStep, Zenon
  <2>3. CASE \E p \in Proc : kill(p)
    BY <1>2, <2>3, KillStep, Zenon
  <2>4. CASE \E a \in Writer \cup {Intr} : uartstart(a) \/ start_send(a) \/ sync_wait(a)
    BY <1>2, <2>4, UartstartStep, StartSendStep, SyncWaitStep, Zenon
  <2>5. CASE uartintr \/ uartgetc \/ consoleintr \/ intr_echo \/ intr_store \/ intr_start \/ transmit
    BY <1>2, <2>5, UartintrStep, UartgetcStep, ConsoleintrStep, IntrEchoStep, IntrStoreStep, IntrStartStep,
       TransmitStep, Zenon
  <2>6. CASE \E c \in Char : receive(c)
    BY <1>2, <2>6, ReceiveStep, Zenon
  <2> QED
    BY <1>0, <1>2, <2>1, <2>2, <2>3, <2>4, <2>5, <2>6, Zenon DEF Step
<1> QED
  BY <1>1, <1>2, Zenon DEF Next

=============================================================================
