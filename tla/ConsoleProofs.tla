---------------------------- MODULE ConsoleProofs ----------------------------
(***************************************************************************)
(* Proofs about module Console, for any number of readers and writers, any *)
(* sizes of the two buffers and any width of the indices that both sizes   *)
(* divide: NoLostWakeup, and that the input side implements module         *)
(* LineInput.  The three indices r, w and e, which wrap around, cut two    *)
(* sequences out of the one buffer, the characters handed over and the     *)
(* line that is still edited.                                              *)
(***************************************************************************)
EXTENDS ConsoleSteps

-----------------------------------------------------------------------------
(* The cells of a ring as a sequence                                       *)
\* What the sequence operators return.
LEMMA SameCells ==
  ASSUME NEW S, NEW s \in Seq(S), NEW t \in Seq(S), Len(s) = Len(t), \A k \in 1..Len(s) : s[k] = t[k]
  PROVE  s = t
OBVIOUS

LEMMA Appended ==
  ASSUME NEW S, NEW s \in Seq(S), NEW c \in S
  PROVE  /\ Append(s, c) \in Seq(S) /\ Len(Append(s, c)) = Len(s) + 1
         /\ \A k \in 1..Len(s) : Append(s, c)[k] = s[k]
         /\ Append(s, c)[Len(s) + 1] = c
OBVIOUS

LEMMA Tails ==
  ASSUME NEW S, NEW s \in Seq(S), s # <<>>
  PROVE  /\ Tail(s) \in Seq(S) /\ Len(Tail(s)) = Len(s) - 1
         /\ \A k \in 1..(Len(s) - 1) : Tail(s)[k] = s[k + 1]
OBVIOUS

LEMMA Prefixes ==
  ASSUME NEW S, NEW s \in Seq(S), NEW m \in Nat, m <= Len(s)
  PROVE  /\ SubSeq(s, 1, m) \in Seq(S) /\ Len(SubSeq(s, 1, m)) = m
         /\ \A k \in 1..m : SubSeq(s, 1, m)[k] = s[k]
OBVIOUS

LEMMA Concatenated ==
  ASSUME NEW S, NEW s \in Seq(S), NEW t \in Seq(S)
  PROVE  /\ s \o t \in Seq(S) /\ Len(s \o t) = Len(s) + Len(t)
         /\ \A k \in 1..(Len(s) + Len(t)) : (s \o t)[k] = IF k <= Len(s) THEN s[k] ELSE t[k - Len(s)]
OBVIOUS

\* Appending to the second of two sequences appends to both.
LEMMA AppendJoined ==
  ASSUME NEW s \in Seq(Cell), NEW t \in Seq(Cell), NEW c \in Cell
  PROVE  Append(s \o t, c) = s \o Append(t, c)
OBVIOUS

\* The ring d with c stored i places after a.
Put(d, a, i, c) == [d EXCEPT ![(a + i) % INPUT_BUF] = c]

\* A store leaves the cells that lie before it alone.
LEMMA Kept ==
  ASSUME NEW d \in Ring, NEW c \in Cell, NEW a \in Index, NEW n \in Nat, NEW i \in Nat, n <= i, i < INPUT_BUF
  PROVE  /\ Put(d, a, i, c) \in Ring
         /\ \A k \in 1..n : Put(d, a, i, c)[(a + k - 1) % INPUT_BUF] = d[(a + k - 1) % INPUT_BUF]
         /\ Put(d, a, i, c)[(a + i) % INPUT_BUF] = c
<1>1. (a + i) % INPUT_BUF \in 0..(INPUT_BUF - 1)
  <2>1. a + i \in Nat
    BY DEF Index
  <2> QED
    BY <2>1, OnRing, Zenon
<1>2. \A k \in 1..n : /\ (a + k - 1) % INPUT_BUF \in 0..(INPUT_BUF - 1)
                      /\ (a + k - 1) % INPUT_BUF # (a + i) % INPUT_BUF
  <2> TAKE k \in 1..n
  <2>1. /\ a + k - 1 \in Nat /\ a + i \in Nat /\ a + k - 1 < a + i
        /\ (a + i) - (a + k - 1) < INPUT_BUF
    BY Sizes DEF Index
  <2> QED
    BY <2>1, OnRing, Apart, Sizes, Zenon
<1>3. Put(d, a, i, c) \in Ring
  BY <1>1, Zenon DEF Ring, Put
<1>4. \A k \in 1..n : Put(d, a, i, c)[(a + k - 1) % INPUT_BUF] = d[(a + k - 1) % INPUT_BUF]
  BY <1>1, <1>2, Zenon DEF Ring, Put
<1>5. Put(d, a, i, c)[(a + i) % INPUT_BUF] = c
  BY <1>1, Zenon DEF Ring, Put
<1> QED
  BY <1>3, <1>4, <1>5, Zenon

LEMMA KeptRun ==
  ASSUME NEW d \in Ring, NEW c \in Cell, NEW a \in Index, NEW n \in Nat, NEW i \in Nat, n <= i, i < INPUT_BUF
  PROVE  Run(Put(d, a, i, c), a, n) = Run(d, a, n)
<1>1. \A k \in 1..n : Put(d, a, i, c)[(a + k - 1) % INPUT_BUF] = d[(a + k - 1) % INPUT_BUF]
  BY Kept
<1> QED
  BY <1>1, Zenon DEF Run

\* A store right after the cells appends to them.
LEMMA Pushed ==
  ASSUME NEW d \in Ring, NEW c \in Cell, NEW a \in Index, NEW n \in Nat, n < INPUT_BUF
  PROVE  Run(Put(d, a, n, c), a, n + 1) = Append(Run(d, a, n), c)
<1> DEFINE f == Put(d, a, n, c)
           old == Run(d, a, n)
           new == Run(f, a, n + 1)
<1>1. n \in Nat /\ n <= n /\ n + 1 \in Nat
  OBVIOUS
<1>2. /\ f \in Ring /\ f[(a + n) % INPUT_BUF] = c
      /\ \A k \in 1..n : f[(a + k - 1) % INPUT_BUF] = d[(a + k - 1) % INPUT_BUF]
  BY <1>1, Kept
<1> HIDE DEF f
<1>3. /\ old \in Seq(Cell) /\ Len(old) = n
      /\ \A k \in 1..n : old[k] = d[(a + k - 1) % INPUT_BUF]
  BY <1>1, RunSeq, Zenon
<1>4. /\ new \in Seq(Cell) /\ Len(new) = n + 1
      /\ \A k \in 1..(n + 1) : new[k] = f[(a + k - 1) % INPUT_BUF]
  BY <1>1, <1>2, RunSeq, Zenon
<1> HIDE DEF old, new
<1>5. /\ Append(old, c) \in Seq(Cell) /\ Len(Append(old, c)) = n + 1
      /\ \A k \in 1..n : Append(old, c)[k] = old[k]
      /\ Append(old, c)[n + 1] = c
  BY <1>3, Appended
<1>6. \A k \in 1..Len(new) : new[k] = Append(old, c)[k]
  <2> TAKE k \in 1..Len(new)
  <2>1. k \in 1..n \/ k = n + 1
    BY <1>4
  <2>2. CASE k \in 1..n
    BY <1>2, <1>3, <1>4, <1>5, <2>2, Zenon
  <2>3. CASE k = n + 1
    <3>1. a + k - 1 = a + n /\ n + 1 \in 1..(n + 1)
      BY <2>3 DEF Index
    <3>2. new[k] = f[(a + n) % INPUT_BUF]
      BY <1>4, <2>3, <3>1, Zenon
    <3> QED
      BY <1>2, <1>5, <2>3, <3>2, Zenon
  <2> QED
    BY <2>1, <2>2, <2>3, Zenon
<1>7. new = Append(old, c)
  BY <1>4, <1>5, <1>6, SameCells, Zenon
<1> QED
  BY <1>7, Zenon DEF f, old, new

\* Advancing the start takes the first cell off.
LEMMA Popped ==
  ASSUME NEW d \in Ring, NEW a \in Index, NEW n \in Nat, n > 0
  PROVE  /\ Run(d, a, n) # <<>> /\ Head(Run(d, a, n)) = d[a % INPUT_BUF]
         /\ Run(d, (a + 1) % WRAP, n - 1) = Tail(Run(d, a, n))
<1> DEFINE b == (a + 1) % WRAP   m == n - 1
           old == Run(d, a, n)
           new == Run(d, b, m)
<1>1. b \in Index /\ m \in Nat
  BY After
<1>2. Minus(b, a) = 1
  <2>1. 0 < WRAP - 1 /\ Minus(a, a) = 0
    BY Advance, Sizes
  <2> QED
    BY <2>1, Advance
<1>3. \A k \in Nat : (b + k) % INPUT_BUF = (a + 1 + k) % INPUT_BUF
  BY <1>1, <1>2, Counted
<1>4. /\ old \in Seq(Cell) /\ Len(old) = n
      /\ \A k \in 1..n : old[k] = d[(a + k - 1) % INPUT_BUF]
  BY RunSeq, Zenon
<1> HIDE DEF b, m, old
<1>5. /\ new \in Seq(Cell) /\ Len(new) = m
      /\ \A k \in 1..m : new[k] = d[(b + k - 1) % INPUT_BUF]
  BY <1>1, RunSeq, Zenon
<1> HIDE DEF new
<1>6. old # <<>>
  BY <1>4
<1>7. Tail(old) \in Seq(Cell) /\ Len(Tail(old)) = n - 1 /\ \A k \in 1..(n - 1) : Tail(old)[k] = old[k + 1]
  BY <1>4, <1>6, Tails, Zenon
<1>8. Head(old) = d[a % INPUT_BUF]
  <2>1. Head(old) = old[1]
    BY <1>4, <1>6
  <2>2. 1 \in 1..n /\ a + 1 - 1 = a
    BY DEF Index
  <2> QED
    BY <1>4, <2>1, <2>2, Zenon
<1>9. \A k \in 1..Len(new) : new[k] = Tail(old)[k]
  <2> TAKE k \in 1..Len(new)
  <2>1. /\ k \in 1..m /\ k \in 1..(n - 1) /\ k + 1 \in 1..n /\ k - 1 \in Nat
        /\ b + k - 1 = b + (k - 1) /\ a + 1 + (k - 1) = a + (k + 1) - 1
    BY <1>1, <1>5 DEF m, Index
  <2>2. new[k] = d[(b + (k - 1)) % INPUT_BUF]
    BY <1>5, <2>1, Zenon
  <2>3. (b + (k - 1)) % INPUT_BUF = (a + (k + 1) - 1) % INPUT_BUF
    BY <1>3, <2>1, Zenon
  <2>4. Tail(old)[k] = d[(a + (k + 1) - 1) % INPUT_BUF]
    BY <1>4, <1>7, <2>1, Zenon
  <2> QED
    BY <2>2, <2>3, <2>4, Zenon
<1>10. new = Tail(old)
  <2>1. Len(new) = Len(Tail(old))
    BY <1>5, <1>7, Zenon DEF m
  <2> QED
    BY <1>5, <1>7, <1>9, <2>1, SameCells, Zenon
<1> QED
  BY <1>6, <1>8, <1>10, Zenon DEF b, m, old, new

\* Fewer cells from the same start are a prefix.
LEMMA Cut ==
  ASSUME NEW d \in Ring, NEW a \in Index, NEW n \in Nat, NEW m \in Nat, m <= n
  PROVE  Run(d, a, m) = SubSeq(Run(d, a, n), 1, m)
<1> DEFINE old == Run(d, a, n)   new == Run(d, a, m)
<1>1. /\ old \in Seq(Cell) /\ Len(old) = n
      /\ \A k \in 1..n : old[k] = d[(a + k - 1) % INPUT_BUF]
  BY RunSeq, Zenon
<1>2. /\ new \in Seq(Cell) /\ Len(new) = m
      /\ \A k \in 1..m : new[k] = d[(a + k - 1) % INPUT_BUF]
  BY RunSeq, Zenon
<1> HIDE DEF old, new
<1>3. \A k \in 1..m : k \in 1..n /\ old[k] \in Cell
  BY <1>1
<1>4. /\ SubSeq(old, 1, m) \in Seq(Cell)
      /\ Len(SubSeq(old, 1, m)) = m
      /\ \A k \in 1..m : SubSeq(old, 1, m)[k] = old[k]
  BY <1>1, Prefixes
<1>5. \A k \in 1..Len(new) : new[k] = SubSeq(old, 1, m)[k]
  BY <1>1, <1>2, <1>3, <1>4, Zenon
<1>6. new = SubSeq(old, 1, m)
  BY <1>2, <1>4, <1>5, SameCells, Zenon
<1> QED
  BY <1>6, Zenon DEF old, new

\* The cells up to b and the cells from b on.
LEMMA Joined ==
  ASSUME NEW d \in Ring, NEW a \in Index, NEW b \in Index, NEW n \in Nat
  PROVE  Run(d, a, Minus(b, a) + n) = Run(d, a, Minus(b, a)) \o Run(d, b, n)
<1> DEFINE m == Minus(b, a)
           s == Run(d, a, m)   t == Run(d, b, n)   u == Run(d, a, m + n)
<1>1. m \in Nat /\ m + n \in Nat /\ \A k \in Nat : (b + k) % INPUT_BUF = (a + m + k) % INPUT_BUF
  <2>1. m \in Index
    BY Advance, Zenon
  <2>2. \A k \in Nat : (b + k) % INPUT_BUF = (a + m + k) % INPUT_BUF
    BY Counted, Zenon
  <2> HIDE DEF m
  <2>3. m \in Nat /\ m + n \in Nat
    BY <2>1, Sizes DEF Index
  <2> QED
    BY <2>2, <2>3, Zenon
<1> HIDE DEF m
<1>2. /\ s \in Seq(Cell) /\ Len(s) = m /\ \A k \in 1..m : s[k] = d[(a + k - 1) % INPUT_BUF]
  BY <1>1, RunSeq, Zenon
<1>3. /\ t \in Seq(Cell) /\ Len(t) = n /\ \A k \in 1..n : t[k] = d[(b + k - 1) % INPUT_BUF]
  BY <1>1, RunSeq, Zenon
<1>4. /\ u \in Seq(Cell) /\ Len(u) = m + n /\ \A k \in 1..(m + n) : u[k] = d[(a + k - 1) % INPUT_BUF]
  BY <1>1, RunSeq, Zenon
<1> HIDE DEF s, t, u
<1>5. /\ s \o t \in Seq(Cell) /\ Len(s \o t) = m + n
      /\ \A k \in 1..(m + n) : (s \o t)[k] = IF k <= m THEN s[k] ELSE t[k - m]
  BY <1>2, <1>3, Concatenated, ZenonT(40)
<1>6. \A k \in 1..Len(u) : u[k] = (s \o t)[k]
  <2> TAKE k \in 1..Len(u)
  <2>1. k \in 1..(m + n)
    BY <1>4, Zenon
  <2>2. CASE k <= m
    <3>1. k \in 1..m
      BY <1>1, <2>1, <2>2
    <3> QED
      BY <1>2, <1>4, <1>5, <2>1, <2>2, <3>1, Zenon
  <2>3. CASE ~(k <= m)
    <3>1. k - m \in 1..n /\ (k - m) - 1 \in Nat /\ a + m + ((k - m) - 1) = a + k - 1
          /\ b + (k - m) - 1 = b + ((k - m) - 1)
      BY <1>1, <2>1, <2>3 DEF Index
    <3>2. (s \o t)[k] = t[k - m]
      BY <1>5, <2>1, <2>3, Zenon
    <3>3. t[k - m] = d[(b + ((k - m) - 1)) % INPUT_BUF]
      BY <1>3, <3>1, Zenon
    <3>4. (b + ((k - m) - 1)) % INPUT_BUF = (a + k - 1) % INPUT_BUF
      BY <1>1, <3>1, Zenon
    <3> QED
      BY <1>4, <2>1, <3>2, <3>3, <3>4, Zenon
  <2> QED
    BY <2>2, <2>3, Zenon
<1>7. u = s \o t
  BY <1>4, <1>5, <1>6, SameCells, Zenon
<1> QED
  BY <1>7, Zenon DEF s, t, u, m

-----------------------------------------------------------------------------
(* The input side                                                          *)
\* A step that LineInput does not see.
Unseen ==
  /\ UNCHANGED <<buf, r, w, e, left, target>> /\ Typed'
  /\ \A p \in Reader : pc'[p] = "idle" => pc[p] = "idle"

LEMMA UnseenStep ==
  ASSUME LineInv, Unseen
  PROVE  LineInv' /\ UNCHANGED <<Edited, Handed, Got>>
<1>1. Reads'
  BY Zenon DEF LineInv, Reads, Unseen
<1>2. Edits'
  BY Zenon DEF LineInv, Edits, Unseen, Minus, Ring
<1>3. UNCHANGED <<Edited, Handed, Got>>
  BY Zenon DEF Unseen, Edited, Handed, Got, Cells, Minus
<1> QED
  BY <1>1, <1>2, <1>3, Zenon DEF LineInv, Unseen

\* The steps of the writers and of kill(), and of a reader that takes and gives up the lock.
LEMMA ProcessUnseen ==
  ASSUME IndInv, LineInv, NEW p \in Proc,
         \/ p \in Reader /\ (read_acquire(p) \/ read_sleep(p))
         \/ p \in Writer /\ (uartputc(p) \/ printf(p) \/ sync_send(p) \/ panic(p) \/ \E b \in Byte : consolewrite(p, b))
         \/ kill(p)
  PROVE  Unseen
<1> USE Names DEF IndInv, Types
<1>1. UNCHANGED <<buf, r, w, e, left, target>>
  BY Zenon DEF read_acquire, read_sleep, uartputc, printf, sync_send, panic, consolewrite, kill, cons, reading
<1>2. pc' = pc \/ (p \in Reader /\ Goto(p, "read")) \/ (p \in Reader /\ Goto(p, "read_acquire"))
        \/ (p \in Writer /\ \E to \in PC : Goto(p, to))
  BY Zenon DEF read_acquire, read_sleep, uartputc, printf, sync_send, panic, consolewrite, kill, PC
<1>3. char' = char \/ \E c \in Cell : char' = [char EXCEPT ![p] = c]
  BY Zenon DEF read_acquire, read_sleep, uartputc, printf, sync_send, panic, consolewrite, kill, Cell
<1>4. pc'[Intr] = pc[Intr] /\ \A q \in Reader : pc'[q] = "idle" => pc[q] = "idle"
  BY <1>2, ZenonT(40) DEF Goto
<1>5. char'[Intr] = char[Intr]
  BY <1>3, ZenonT(40)
<1> QED
  BY <1>1, <1>4, <1>5, Zenon DEF Unseen, LineInv, Typed

\* The steps of the transmitter, of the receiver, and of the handler outside consoleintr.
LEMMA DeviceUnseen ==
  ASSUME IndInv, LineInv,
         \/ \E a \in Writer \cup {Intr} : uartstart(a) \/ start_send(a) \/ sync_wait(a)
         \/ uartintr \/ uartgetc \/ intr_start \/ intr_echo \/ transmit \/ \E c \in Char : receive(c)
  PROVE  Unseen
<1> USE Names DEF IndInv, Types
<1>1. UNCHANGED <<buf, r, w, e, left, target>>
  BY DEF uartstart, start_send, sync_wait, uartintr, uartgetc, intr_start, intr_echo, transmit, receive, cons, reading
<1>2. pc' = pc \/ \E a \in Writer \cup {Intr}, to \in PC : Goto(a, to)
  BY Zenon DEF uartstart, start_send, sync_wait, uartintr, uartgetc, intr_start, intr_echo, transmit, receive, PC
<1>3. \A q \in Reader : pc'[q] = pc[q]
  BY <1>2, ZenonT(40) DEF Goto
<1>4. Typed'
  <2>1. ASSUME NEW a \in Writer \cup {Intr}, uartstart(a) \/ start_send(a) \/ sync_wait(a)
        PROVE  Typed'
    <3>1. char' = char
      BY <2>1, Zenon DEF uartstart, start_send, sync_wait
    <3>2. \/ pc[a] \in {"start", "send"} /\ (Goto(a, "idle") \/ Goto(a, "send") \/ Goto(a, "start"))
          \/ pc[a] = "sync" /\ Goto(a, "sync_send")
      BY <2>1, Zenon DEF uartstart, start_send, sync_wait
    <3> QED
      BY <3>1, <3>2 DEF LineInv, Typed, Goto
  <2>2. CASE uartintr \/ intr_start \/ transmit \/ \E c \in Char : receive(c)
    <3>1. char' = char /\ (pc' = pc \/ Goto(Intr, "getc") \/ Goto(Intr, "start"))
      BY <2>2, Zenon DEF uartintr, intr_start, transmit, receive
    <3> QED
      BY <3>1, Zenon DEF LineInv, Typed, Goto
  <2>3. CASE uartgetc
    <3>1. CASE rx # <<>> /\ char' = [char EXCEPT ![Intr] = Head(rx)] /\ Goto(Intr, "intr")
      <4>1. Head(rx) \in Char
        BY <3>1
      <4>2. char'[Intr] = Head(rx) /\ pc'[Intr] = "intr"
        BY <3>1, Zenon DEF Goto
      <4> QED
        BY <4>1, <4>2, Zenon DEF Typed
    <3>2. CASE Goto(Intr, "intr_start")
      BY <3>2, Zenon DEF Typed, Goto
    <3> QED
      BY <2>3, <3>1, <3>2, Zenon DEF uartgetc
  <2>4. CASE intr_echo
    <3>1. pc[Intr] = "sync_send" /\ (Goto(Intr, "getc") \/ (char' = char /\ (Goto(Intr, "sync") \/ Goto(Intr, "store"))))
      BY <2>4, Zenon DEF intr_echo
    <3> QED
      BY <3>1, Zenon DEF LineInv, Typed, Goto
  <2> QED
    BY <2>1, <2>2, <2>3, <2>4, Zenon
<1> QED
  BY <1>1, <1>3, <1>4, Zenon DEF Unseen

\* A call takes nothing yet.
LEMMA ConsolereadLine ==
  ASSUME IndInv, LineInv, NEW p \in Reader, NEW n \in Nat, consoleread(p, n)
  PROVE  LineInv' /\ UNCHANGED <<Edited, Handed, Got>>
<1> USE Names DEF LineInv
<1>1. /\ pc[p] = "idle" /\ Goto(p, "read_acquire") /\ UNCHANGED <<buf, r, w, e, char>>
      /\ left' = [left EXCEPT ![p] = n] /\ target' = [target EXCEPT ![p] = n]
  BY Zenon DEF consoleread, cons
<1>2. Moved(p, "read_acquire")
  BY <1>1, Moves, Zenon DEF IndInv, PC
<1>3. /\ left' \in [Reader -> Nat] /\ target' \in [Reader -> Nat] /\ left'[p] = n /\ target'[p] = n
      /\ \A q \in Reader : q # p => left'[q] = left[q] /\ target'[q] = target[q]
  BY <1>1, Zenon DEF Reads
<1>4. Reads'
  BY <1>2, <1>3 DEF Reads, Moved
<1>5. Typed'
  BY <1>1, <1>2, Zenon DEF Typed, Moved
<1>6. Edits' /\ UNCHANGED <<Edited, Handed>>
  BY <1>1, Zenon DEF Edits, Edited, Handed, Cells, Minus, Ring
<1>7. \A q \in Reader : target'[q] - left'[q] = target[q] - left[q]
  <2> TAKE q \in Reader
  <2>1. left[p] \in Nat /\ target[p] = 0 /\ left[p] <= target[p]
    BY <1>1, Zenon DEF Reads
  <2> QED
    BY <1>3, <2>1
<1>8. UNCHANGED Got
  BY <1>7, Zenon DEF Got
<1> QED
  BY <1>4, <1>5, <1>6, <1>8, Zenon

\* The count of a read that returns.
LEMMA ReturnsLine ==
  ASSUME IndInv, LineInv, NEW p \in Reader, ReadReturns(p), UNCHANGED char
  PROVE  Reads' /\ Typed' /\ Got' = [Got EXCEPT ![p] = 0]
<1> USE Names DEF LineInv
<1>1. Goto(p, "idle") /\ left' = [left EXCEPT ![p] = 0] /\ target' = [target EXCEPT ![p] = 0]
  BY Zenon DEF ReadReturns
<1>2. Moved(p, "idle")
  BY <1>1, Moves, Zenon DEF IndInv, PC
<1>3. /\ left' \in [Reader -> Nat] /\ target' \in [Reader -> Nat] /\ left'[p] = 0 /\ target'[p] = 0
      /\ \A q \in Reader : q # p => left'[q] = left[q] /\ target'[q] = target[q]
  <2>1. 0 \in Nat
    BY Zenon
  <2> QED
    BY <1>1, <2>1, Zenon DEF Reads
<1>4. Reads'
  BY <1>2, <1>3 DEF Reads, Moved
<1>5. Typed'
  BY <1>2, Zenon DEF Typed, Moved
<1>6. target'[p] - left'[p] = 0
  BY <1>3
<1>7. \A q \in Reader : q # p => target'[q] - left'[q] = target[q] - left[q]
  BY <1>3, Zenon
<1>8. Got' = [Got EXCEPT ![p] = 0]
  BY <1>6, <1>7, Zenon DEF Got
<1> QED
  BY <1>4, <1>5, <1>8, Zenon

\* A read that gives up or has all it asked for.
LEMMA ReadEnds ==
  ASSUME IndInv, LineInv, NEW p \in Reader, ReadReturns(p), UNCHANGED <<buf, r, w, e, char>>
  PROVE  LineInv' /\ Line!Finish(p)
<1>1. Reads' /\ Typed' /\ Got' = [Got EXCEPT ![p] = 0]
  BY ReturnsLine, Zenon
<1>2. Edits' /\ UNCHANGED <<Edited, Handed>>
  BY Zenon DEF LineInv, Edits, Edited, Handed, Cells, Minus, Ring
<1>3. Line!Finish(p)
  BY <1>1, <1>2, ZenonT(40) DEF Line!Finish, Edited, Handed, Got
<1> QED
  BY <1>1, <1>2, <1>3, Zenon DEF LineInv

LEMMA ReadWaitLine ==
  ASSUME IndInv, LineInv, NEW p \in Reader, read_wait(p)
  PROVE  LineInv' /\ (Line!Finish(p) \/ UNCHANGED <<Edited, Handed, Got>>)
<1>1. UNCHANGED <<buf, r, w, e, char>>
  BY Zenon DEF read_wait
<1>2. CASE ReadReturns(p)
  BY <1>1, <1>2, ReadEnds, Zenon
<1>3. CASE Goto(p, "read_sleep") /\ UNCHANGED reading
  <2>1. Moved(p, "read_sleep")
    BY <1>3, Moves, Names, Zenon DEF IndInv, PC
  <2>2. Unseen
    BY <1>1, <1>3, <2>1, Names, Zenon DEF Unseen, Moved, LineInv, Typed, reading
  <2> QED
    BY <2>2, UnseenStep, Zenon
<1> QED
  BY <1>2, <1>3 DEF read_wait

\* The next character is the first one handed over.
LEMMA NextChar ==
  ASSUME IndInv, LineInv, r # w, UNCHANGED <<buf, w, e>>
  PROVE  /\ Handed # <<>> /\ Head(Handed) = buf[r % INPUT_BUF]
         /\ r' = (r + 1) % WRAP => Handed' = Tail(Handed)
         /\ Edits' /\ UNCHANGED Edited
<1>1. /\ r \in Index /\ w \in Index /\ buf \in Ring /\ Minus(w, r) \in Nat
      /\ Handed = Run(buf, r, Minus(w, r))
  BY Runs, Zenon
<1>2. Minus(w, r) > 0 /\ Minus(w, (r + 1) % WRAP) = Minus(w, r) - 1
  <2>1. Minus(w, r) # 0 /\ Minus(w, (r + 1) % WRAP) = Minus(w, r) - 1
    BY <1>1, Advance, Zenon
  <2> QED
    BY <1>1, <2>1
<1>3. /\ Handed # <<>> /\ Head(Handed) = buf[r % INPUT_BUF]
      /\ Run(buf, (r + 1) % WRAP, Minus(w, r) - 1) = Tail(Handed)
  BY <1>1, <1>2, Popped, Zenon
<1>4. ASSUME r' = (r + 1) % WRAP PROVE Handed' = Tail(Handed)
  <2>1. Handed' = Run(buf, r', Minus(w, r'))
    BY Zenon DEF Handed, Cells, Run, Minus
  <2> QED
    BY <1>2, <1>3, <1>4, <2>1, Zenon
<1>5. Edits' /\ UNCHANGED Edited
  BY Zenon DEF LineInv, Edits, Edited, Cells, Minus, Ring
<1> QED
  BY <1>3, <1>4, <1>5, Zenon

LEMMA ReadCharLine ==
  ASSUME IndInv, LineInv, NEW p \in Reader, NEW copied \in BOOLEAN, read_char(p, copied)
  PROVE  LineInv' /\ (Line!Take(p) \/ Line!TakeEof(p) \/ Line!Finish(p))
<1> DEFINE c == buf[r % INPUT_BUF]
<1>1. /\ pc[p] = "read" /\ left[p] > 0 /\ r # w /\ UNCHANGED <<buf, w, e, char>>
  BY Zenon DEF read_char
<1>2. /\ Handed # <<>> /\ Head(Handed) = c
      /\ r' = (r + 1) % WRAP => Handed' = Tail(Handed)
      /\ Edits' /\ UNCHANGED Edited
  BY <1>1, NextChar, Zenon
<1>3. left[p] \in Nat /\ target[p] \in Nat /\ left[p] <= target[p]
  BY Zenon DEF LineInv, Reads
<1>4. Got[p] = target[p] - left[p]
  BY Zenon DEF Got
<1>5. CASE c = "D" /\ left[p] < target[p] /\ r' = r /\ ReadReturns(p)
  BY <1>1, <1>5, ReadEnds, Zenon
<1>6. CASE c = "D" /\ ~(left[p] < target[p]) /\ r' = (r + 1) % WRAP /\ ReadReturns(p)
  <2>1. Reads' /\ Typed' /\ Got' = [Got EXCEPT ![p] = 0]
    BY <1>1, <1>6, ReturnsLine, Zenon
  <2>2. Got[p] = 0
    BY <1>3, <1>4, <1>6
  <2>3. Got' = Got
    <3>1. Got = [q \in Reader |-> Got[q]]
      BY Zenon DEF Got
    <3> QED
      BY <2>1, <2>2, <3>1, Zenon
  <2>4. Line!TakeEof(p)
    BY <1>2, <1>6, <2>2, <2>3, Zenon DEF Line!TakeEof, Edited, Handed, Got
  <2> QED
    BY <1>2, <2>1, <2>4, Zenon DEF LineInv
<1>7. CASE c # "D" /\ r' = (r + 1) % WRAP /\ ReadReturns(p)
  <2>1. Reads' /\ Typed' /\ Got' = [Got EXCEPT ![p] = 0]
    BY <1>1, <1>7, ReturnsLine, Zenon
  <2>2. Line!Take(p)
    BY <1>2, <1>7, <2>1, Zenon DEF Line!Take, Edited, Handed, Got
  <2> QED
    BY <1>2, <2>1, <2>2, Zenon DEF LineInv
<1>8. CASE c \notin {"D", "nl"} /\ r' = (r + 1) % WRAP /\ left' = [left EXCEPT ![p] = @ - 1] /\ UNCHANGED <<target, pc>>
  <2>1. left[p] - 1 \in Nat
    BY <1>1, <1>3
  <2>2. /\ left' \in [Reader -> Nat] /\ left'[p] = left[p] - 1
        /\ \A q \in Reader : q # p => left'[q] = left[q]
    BY <1>8, <2>1, Zenon DEF LineInv, Reads
  <2>3. Reads'
    BY <1>3, <1>8, <2>2 DEF LineInv, Reads
  <2>4. Typed'
    BY <1>1, <1>8, Zenon DEF LineInv, Typed
  <2>5. target'[p] - left'[p] = Got[p] + 1
    BY <1>3, <1>4, <1>8, <2>2
  <2>6. \A q \in Reader : q # p => target'[q] - left'[q] = target[q] - left[q]
    BY <1>8, <2>2, Zenon
  <2>7. Got' = [Got EXCEPT ![p] = Got[p] + 1]
    BY <2>5, <2>6, Zenon DEF Got
  <2>8. Line!Take(p)
    BY <1>2, <1>8, <2>7, Zenon DEF Line!Take, Edited, Handed, Got
  <2> QED
    BY <1>2, <2>3, <2>4, <2>8, Zenon DEF LineInv
<1> QED
  BY <1>5, <1>6, <1>7, <1>8, Zenon DEF read_char

\* The handler goes on to echo, or back for the next character.
LEMMA HandlerTyped ==
  ASSUME IndInv, LineInv, pc[Intr] = "intr", (\E n \in Nat : Echoes(n)) \/ Ignored, UNCHANGED <<left, target>>
  PROVE  Typed' /\ Reads' /\ UNCHANGED Got
<1> USE Names DEF IndInv, Types
<1>1. \/ Goto(Intr, "sync") /\ char' = [char EXCEPT ![Intr] = IF @ = "cr" THEN "nl" ELSE @]
      \/ Goto(Intr, "getc")
  BY Zenon DEF Echoes, Ignored
<1>2. \A q \in Reader : pc'[q] = pc[q]
  BY <1>1, Zenon DEF Goto
<1>3. Typed'
  <2>1. CASE Goto(Intr, "sync") /\ char' = [char EXCEPT ![Intr] = IF @ = "cr" THEN "nl" ELSE @]
    <3>1. char'[Intr] = IF char[Intr] = "cr" THEN "nl" ELSE char[Intr]
      BY <2>1, Zenon
    <3>2. pc'[Intr] = "sync"
      BY <2>1, Zenon DEF Goto
    <3> QED
      BY <3>1, <3>2, Zenon DEF LineInv, Typed
  <2>2. CASE Goto(Intr, "getc")
    BY <2>2, Zenon DEF Typed, Goto
  <2> QED
    BY <1>1, <2>1, <2>2, Zenon
<1>4. Reads'
  BY <1>2, Zenon DEF LineInv, Reads
<1> QED
  BY <1>3, <1>4, Zenon DEF Got

\* The line shortened by k.
LEMMA Shortened ==
  ASSUME IndInv, LineInv, NEW k \in Nat, k <= Minus(e, w), e' = Minus(e, k), UNCHANGED <<buf, r, w>>
  PROVE  Edits' /\ UNCHANGED Handed /\ Edited' = SubSeq(Edited, 1, Len(Edited) - k)
<1>1. /\ w \in Index /\ e \in Index /\ buf \in Ring /\ Minus(e, w) \in Nat
      /\ Edited = Run(buf, w, Minus(e, w)) /\ Len(Edited) = Minus(e, w)
  BY Runs, Zenon
<1>2. Minus(e', w) = Minus(e, w) - k
  BY <1>1, Back, Zenon
<1> DEFINE n == Minus(e, w) - k
<1>3. n \in Nat /\ n <= Minus(e, w)
  BY <1>1
<1>4. Edited' = Run(buf, w, n)
  <2>1. Edited' = Run(buf, w, Minus(e', w))
    BY Zenon DEF Edited, Cells, Run, Minus
  <2> QED
    BY <1>2, <2>1, Zenon
<1> HIDE DEF n
<1>5. Edited' = SubSeq(Edited, 1, n)
  BY <1>1, <1>3, <1>4, Cut, Zenon
<1>6. Edits'
  <2>1. \A j \in 0..(n - 1) : j \in 0..(Minus(e, w) - 1)
    BY <1>1, <1>3
  <2>2. \A j \in 0..(n - 1) : buf[(w + j) % INPUT_BUF] \notin {"nl", "D"}
    BY <2>1, Zenon DEF LineInv, Edits
  <2>3. Minus(e', w') = n
    BY <1>2, Zenon DEF Minus, n
  <2> QED
    BY <1>1, <2>2, <2>3, Zenon DEF Edits, Ring
<1>7. UNCHANGED Handed
  BY Zenon DEF Handed, Cells, Minus
<1> QED
  BY <1>1, <1>5, <1>6, <1>7, Zenon DEF n

LEMMA ConsoleintrLine ==
  ASSUME IndInv, LineInv, consoleintr
  PROVE  LineInv' /\ (Line!KillLine \/ Line!Rubout \/ UNCHANGED <<Edited, Handed, Got>>)
<1>1. pc[Intr] = "intr" /\ UNCHANGED <<buf, r, w, left, target>>
  BY Zenon DEF consoleintr, reading
<1>2. /\ w \in Index /\ e \in Index /\ Minus(e, w) \in Nat /\ (e # w => Minus(e, w) # 0)
      /\ Edited \in Seq(Cell) /\ Len(Edited) = Minus(e, w)
  BY Runs, Advance, Zenon
<1>3. CASE char[Intr] = "U" /\ e' = Minus(e, Erased) /\ Echoes(3 * Erased)
  <2>1. Erased = Minus(e, w) /\ Erased \in Nat /\ 3 * Erased \in Nat /\ Erased <= Minus(e, w)
    BY <1>2, ErasesLine
  <2>2. Typed' /\ Reads' /\ UNCHANGED Got
    BY <1>1, <1>3, <2>1, HandlerTyped, Zenon
  <2>3. Edits' /\ UNCHANGED Handed /\ Edited' = SubSeq(Edited, 1, Len(Edited) - Erased)
    BY <1>1, <1>3, <2>1, Shortened, Zenon
  <2>4. Edited' = <<>>
    <3>1. Len(Edited) - Erased = 0 /\ 0 < 1
      BY <1>2, <2>1
    <3> QED
      BY <2>3, <3>1, Prefixes
  <2>5. Line!KillLine
    BY <2>2, <2>3, <2>4, Zenon DEF Line!KillLine, Edited, Handed, Got
  <2> QED
    BY <2>2, <2>3, <2>5, Zenon DEF LineInv
<1>4. CASE char[Intr] = "H" /\ e # w /\ e' = Minus(e, 1) /\ Echoes(3)
  <2>1. 1 \in Nat /\ 3 \in Nat /\ 1 <= Minus(e, w)
    BY <1>2, <1>4
  <2>2. Typed' /\ Reads' /\ UNCHANGED Got
    BY <1>1, <1>4, <2>1, HandlerTyped, Zenon
  <2>3. Edits' /\ UNCHANGED Handed /\ Edited' = SubSeq(Edited, 1, Len(Edited) - 1)
    BY <1>1, <1>4, <2>1, Shortened, Zenon
  <2>4. Edited # <<>>
    BY <1>2, <2>1
  <2>5. Line!Rubout
    BY <2>2, <2>3, <2>4, Zenon DEF Line!Rubout, Edited, Handed, Got
  <2> QED
    BY <2>2, <2>3, <2>5, Zenon DEF LineInv
<1>5. CASE e' = e /\ (Echoes(1) \/ Ignored)
  <2>1. 1 \in Nat
    BY Zenon
  <2>2. Typed' /\ Reads' /\ UNCHANGED Got
    BY <1>1, <1>5, <2>1, HandlerTyped, Zenon
  <2>3. Edits' /\ UNCHANGED <<Edited, Handed>>
    BY <1>1, <1>5, Zenon DEF LineInv, Edits, Edited, Handed, Cells, Minus, Ring
  <2> QED
    BY <2>2, <2>3, Zenon DEF LineInv
<1> QED
  BY <1>3, <1>4, <1>5, Zenon DEF consoleintr, Ignored

LEMMA IntrStoreLine ==
  ASSUME IndInv, IndInv', LineInv, intr_store
  PROVE  LineInv' /\ \E c \in (Char \ (Special \cup {"cr"})) \cup {"nl"} : Line!Type(c)
<1> USE Names
<1> DEFINE c == char[Intr]
           m == Minus(w, r)   n == Minus(e, w)   k == Minus(e, r)
<1>1. /\ pc[Intr] = "store" /\ UNCHANGED <<r, left, target>> /\ e' = (e + 1) % WRAP
      /\ buf' = [buf EXCEPT ![e % INPUT_BUF] = c] /\ Goto(Intr, "getc")
      /\ (EndsLine(c) /\ w' = e') \/ (~EndsLine(c) /\ w' = w)
  BY Zenon DEF intr_store, reading
<1>2. /\ r \in Index /\ w \in Index /\ e \in Index /\ buf \in Ring
      /\ m \in Nat /\ n \in Nat /\ k \in Nat /\ m + n = k
      /\ Edited = Run(buf, w, n) /\ Handed = Run(buf, r, m)
      /\ Edited \in Seq(Cell) /\ Len(Edited) = n /\ Handed \in Seq(Cell) /\ Len(Handed) = m
  BY Runs, Zenon
<1>3. /\ c \notin Special /\ c \in (Char \cup {"nl"}) \ {"cr"} /\ c \in Cell /\ k < INPUT_BUF
  <2>1. c \notin Special /\ Room
    BY <1>1, Zenon DEF IndInv, Found
  <2>2. c \in (Char \cup {"nl"}) \ {"cr"}
    BY <1>1, Zenon DEF LineInv, Typed
  <2> QED
    BY <2>1, <2>2, Zenon DEF Room, Cell
<1>4. c \in (Char \ (Special \cup {"cr"})) \cup {"nl"}
  BY <1>3, Zenon
<1>5. e % INPUT_BUF = (r + k) % INPUT_BUF /\ e % INPUT_BUF = (w + n) % INPUT_BUF
  <2>1. 0 \in Nat
    BY Zenon
  <2>2. (e + 0) % INPUT_BUF = (r + k + 0) % INPUT_BUF /\ (e + 0) % INPUT_BUF = (w + n + 0) % INPUT_BUF
    BY <1>2, <2>1, Counted, ZenonT(40)
  <2> HIDE DEF k, n
  <2>3. e + 0 = e /\ r + k + 0 = r + k /\ w + n + 0 = w + n
    BY <1>2 DEF Index
  <2> QED
    BY <2>2, <2>3, Zenon
<1>6. e' \in Index /\ w' \in Index /\ Minus(e', r) = k + 1 /\ Minus(e', w) = n + 1 /\ Minus(e', e') = 0
  <2>1. k < WRAP - 1 /\ n < WRAP - 1
    BY <1>2, <1>3, Sizes
  <2>2. e' \in Index
    BY <1>1, <1>2, After, Zenon
  <2>3. Minus(e', r) = k + 1
    BY <1>1, <1>2, <2>1, Advance, ZenonT(40)
  <2>4. Minus(e', w) = n + 1
    BY <1>1, <1>2, <2>1, Advance, ZenonT(40)
  <2>5. Minus(e', e') = 0
    BY <2>2, Advance, ZenonT(40)
  <2> QED
    BY <1>1, <1>2, <2>2, <2>3, <2>4, <2>5, ZenonT(40)
<1>7. EndsLine(c) <=> c \in {"nl", "D"} \/ k + 1 = INPUT_BUF
  <2>1. e' = (r + INPUT_BUF) % WRAP <=> Minus(e', r) = INPUT_BUF
    BY <1>2, <1>6, FullTest, Sizes, SMTT(30)
  <2> QED
    BY <1>1, <1>6, <2>1, Zenon DEF EndsLine
<1>8. \A q \in Reader : pc'[q] = pc[q]
  BY <1>1 DEF Goto, IndInv, Types
<1>9. Reads' /\ UNCHANGED Got
  BY <1>1, <1>8, ZenonT(40) DEF LineInv, Reads, Got
<1>10. Typed'
  BY <1>1 DEF Typed, Goto, IndInv, Types
<1>11. buf' = Put(buf, r, k, c) /\ buf' = Put(buf, w, n, c)
  BY <1>1, <1>5, Zenon DEF Put
<1> HIDE DEF c, m, n, k
<1>12. n < INPUT_BUF /\ m <= k /\ n <= n
  BY <1>2, <1>3, Sizes
<1>15. Run(buf', r, k + 1) = Append(Run(buf, r, k), c) /\ Run(buf', w, n + 1) = Append(Run(buf, w, n), c)
  <2>1. /\ Run(Put(buf, r, k, c), r, k + 1) = Append(Run(buf, r, k), c)
        /\ Run(Put(buf, w, n, c), w, n + 1) = Append(Run(buf, w, n), c)
    BY <1>2, <1>3, <1>12, Pushed, SMTT(30)
  <2> QED
    BY <1>11, <2>1, ZenonT(40)
<1>16. buf' \in Ring /\ Run(buf', r, m) = Run(buf, r, m)
  <2>1. buf \in Ring /\ c \in Cell /\ r \in Index /\ m \in Nat /\ k \in Nat /\ m <= k /\ k < INPUT_BUF
    BY <1>2, <1>3, <1>12, Zenon
  <2>2. Put(buf, r, k, c) \in Ring
    BY <2>1, Kept, ZenonT(40)
  <2>3. Run(Put(buf, r, k, c), r, m) = Run(buf, r, m)
    BY <2>1, KeptRun, ZenonT(40)
  <2> QED
    BY <1>11, <2>2, <2>3, Zenon
<1>17. /\ buf'[(w + n) % INPUT_BUF] = c
       /\ \A j \in 1..n : buf'[(w + j - 1) % INPUT_BUF] = buf[(w + j - 1) % INPUT_BUF]
  <2>1. buf \in Ring /\ c \in Cell /\ w \in Index /\ n \in Nat /\ n <= n /\ n < INPUT_BUF
    BY <1>2, <1>3, <1>12, Zenon
  <2>2. Put(buf, w, n, c)[(w + n) % INPUT_BUF] = c
    BY <2>1, Kept
  <2>3. \A j \in 1..n : Put(buf, w, n, c)[(w + j - 1) % INPUT_BUF] = buf[(w + j - 1) % INPUT_BUF]
    BY <2>1, Kept
  <2> QED
    BY <1>11, <2>2, <2>3, Zenon
<1>18. r' = r
  BY <1>1, Zenon
<1>13. CASE EndsLine(c) /\ w' = e'
  <2>1. Edited' = <<>>
    <3>1. Edited' = Run(buf', e', 0)
      BY <1>6, <1>13, Zenon DEF Edited, Cells, Run, Minus
    <3> QED
      BY <3>1 DEF Run
  <2>2. Handed' = Run(buf', r, k + 1)
    <3>1. Handed' = Run(buf', r, Minus(e', r))
      BY <1>13, <1>18, Zenon DEF Handed, Cells, Run, Minus
    <3> QED
      BY <1>6, <3>1, Zenon
  <2>3. Handed' = Append(Run(buf, r, k), c)
    BY <1>15, <2>2, Zenon
  <2>4. Run(buf, r, k) = Handed \o Edited
    <3>1. Run(buf, r, Minus(w, r) + n) = Run(buf, r, Minus(w, r)) \o Run(buf, w, n)
      BY <1>2, Joined, ZenonT(40)
    <3> QED
      BY <1>2, <3>1, Zenon DEF m
  <2>5. Handed' = Handed \o Append(Edited, c)
    <3>1. Append(Handed \o Edited, c) = Handed \o Append(Edited, c)
      BY <1>2, <1>3, AppendJoined, ZenonT(40)
    <3> QED
      BY <2>3, <2>4, <3>1, Zenon
  <2>6. Edits'
    <3>1. buf' \in Ring
      BY <1>16, Zenon
    <3>2. Minus(e', w') = 0 /\ 0..(0 - 1) = {}
      BY <1>6, <1>13
    <3>3. \A j \in 0..(Minus(e', w') - 1) : buf'[(w' + j) % INPUT_BUF] \notin {"nl", "D"}
      BY <3>2, Zenon
    <3> QED
      BY <3>1, <3>3, Zenon DEF Edits, Ring, Minus
  <2>7. Len(Handed) + Len(Edited) < INPUT_BUF
    BY <1>2, <1>3, Zenon
  <2>8. c \in {"nl", "D"} \/ Len(Handed) + Len(Edited) + 1 = INPUT_BUF
    BY <1>2, <1>7, <1>13, Zenon
  <2>9. Line!Type(c)
    BY <1>9, <2>1, <2>5, <2>7, <2>8, ZenonT(40) DEF Line!Type, Line!Room, Edited, Handed, Got
  <2> QED
    BY <1>4, <1>9, <1>10, <2>6, <2>9, ZenonT(40) DEF LineInv
<1>14. CASE ~EndsLine(c) /\ w' = w
  <2>1. Edited' = Run(buf', w, n + 1)
    <3>1. Edited' = Run(buf', w, Minus(e', w))
      BY <1>14, Zenon DEF Edited, Cells, Run, Minus
    <3> QED
      BY <1>6, <3>1, Zenon
  <2>2. Edited' = Append(Edited, c)
    BY <1>2, <1>15, <2>1, Zenon
  <2>3. Handed' = Run(buf', r, m)
    BY <1>14, <1>18, Zenon DEF Handed, Cells, Run, Minus, m
  <2>4. UNCHANGED Handed
    BY <1>2, <1>16, <2>3, Zenon
  <2>5. Edits'
    <3>1. /\ buf' \in Ring /\ buf'[(w + n) % INPUT_BUF] = c
          /\ \A j \in 1..n : buf'[(w + j - 1) % INPUT_BUF] = buf[(w + j - 1) % INPUT_BUF]
      BY <1>16, <1>17, Zenon
    <3>2. c \notin {"nl", "D"}
      BY <1>7, <1>14, Zenon
    <3>3. ASSUME NEW j \in 0..n PROVE buf'[(w + j) % INPUT_BUF] \notin {"nl", "D"}
      <4>1. CASE j = n
        BY <3>1, <3>2, <4>1, Zenon
      <4>2. CASE j # n
        <5>1. j + 1 \in 1..n /\ w + (j + 1) - 1 = w + j /\ j \in 0..(n - 1)
          BY <1>2, <4>2 DEF Index
        <5>2. buf'[(w + j) % INPUT_BUF] = buf[(w + j) % INPUT_BUF]
          BY <3>1, <5>1, Zenon
        <5>3. buf[(w + j) % INPUT_BUF] \notin {"nl", "D"}
          BY <5>1, Zenon DEF LineInv, Edits, n
        <5> QED
          BY <5>2, <5>3, Zenon
      <4> QED
        BY <4>1, <4>2, Zenon
    <3>4. Minus(e', w') - 1 = n
      BY <1>2, <1>6, <1>14, SMTT(30)
    <3> QED
      BY <1>14, <3>1, <3>3, <3>4, Zenon DEF Edits, Ring, Minus
  <2>6. Len(Handed) + Len(Edited) < INPUT_BUF
    BY <1>2, <1>3, Zenon
  <2>7. c \notin {"nl", "D"} /\ Len(Handed) + Len(Edited) + 1 < INPUT_BUF
    BY <1>2, <1>3, <1>7, <1>14, Sizes
  <2>8. Line!Type(c)
    BY <1>9, <2>2, <2>4, <2>6, <2>7, Zenon DEF Line!Type, Line!Room, Edited, Handed, Got
  <2> QED
    BY <1>4, <1>9, <1>10, <2>5, <2>8, ZenonT(60) DEF LineInv
<1> QED
  BY <1>1, <1>13, <1>14, Zenon

LEMMA InitLine == Init => LineInv /\ Line!Init
<1> SUFFICES ASSUME Init PROVE LineInv /\ Line!Init
  BY Zenon
<1>1. /\ \A p \in Reader : pc[p] = "idle" /\ left[p] = 0 /\ target[p] = 0
      /\ left \in [Reader -> Nat] /\ target \in [Reader -> Nat] /\ pc[Intr] = "idle"
  BY Names, Zenon DEF Init, Actor
<1>2. r = 0 /\ w = 0 /\ e = 0 /\ buf \in Ring /\ 0 \in Index
  BY Sizes DEF Init, Ring, Cell, Index
<1>3. Minus(0, 0) = 0 /\ 0..(0 - 1) = {}
  BY <1>2, Advance
<1>4. LineInv
  BY <1>1, <1>2, <1>3 DEF LineInv, Reads, Typed, Edits
<1>5. Edited = <<>> /\ Handed = <<>>
  BY <1>2, <1>3 DEF Edited, Handed, Cells
<1>6. Got = [p \in Reader |-> 0]
  <2>1. \A p \in Reader : target[p] - left[p] = 0
    BY <1>1
  <2> QED
    BY <2>1, Zenon DEF Got
<1> QED
  BY <1>4, <1>5, <1>6, Zenon DEF Line!Init, Edited, Handed, Got

\* Every step of the console is a step of LineInput or one that it does not see.
LEMMA StepLine == IndInv /\ IndInv' /\ LineInv /\ [Next]_vars => LineInv' /\ [Line!Next]_(Line!vars)
<1> SUFFICES ASSUME IndInv, IndInv', LineInv, [Next]_vars PROVE LineInv' /\ [Line!Next]_(Line!vars)
  BY Zenon
<1>0. /\ load.procs \subseteq Proc /\ load.chars \subseteq Char /\ load.bytes \subseteq Byte /\ load.sizes \subseteq Nat
  BY LoadsAssumption, Zenon DEF IndInv, Types
<1>1. ASSUME UNCHANGED <<Edited, Handed, Got>> PROVE [Line!Next]_(Line!vars)
  BY <1>1, Zenon DEF Line!vars, Edited, Handed, Got
<1>2. ASSUME NEW p \in Reader, Line!Take(p) \/ Line!TakeEof(p) \/ Line!Finish(p) PROVE [Line!Next]_(Line!vars)
  BY <1>2, Zenon DEF Line!Next
<1>3. ASSUME Unseen PROVE LineInv' /\ [Line!Next]_(Line!vars)
  BY <1>1, <1>3, UnseenStep, Zenon
<1>4. CASE UNCHANGED vars
  <2>1. Unseen
    BY <1>4, Zenon DEF vars, cons, reading, Unseen, LineInv, Typed
  <2> QED
    BY <1>3, <2>1, Zenon
<1>5. CASE \E p \in Reader, n \in Nat : consoleread(p, n)
  BY <1>1, <1>5, ConsolereadLine, Zenon
<1>6. CASE \E p \in Reader : read_wait(p)
  BY <1>1, <1>2, <1>6, ReadWaitLine, Zenon
<1>7. CASE \E p \in Reader, copied \in BOOLEAN : read_char(p, copied)
  BY <1>2, <1>7, ReadCharLine, Zenon
<1>8. CASE \E p \in Reader : read_done(p)
  <2>1. PICK p \in Reader : read_done(p)
    BY <1>8, Zenon
  <2>2. ReadReturns(p) /\ UNCHANGED <<buf, r, w, e, char>>
    BY <2>1, Zenon DEF read_done
  <2>3. LineInv' /\ Line!Finish(p)
    BY <2>2, ReadEnds, Zenon
  <2> QED
    BY <1>2, <2>3, Zenon
<1>9. CASE \E p \in Proc : \/ p \in Reader /\ (read_acquire(p) \/ read_sleep(p))
                           \/ p \in Writer /\ (\/ uartputc(p) \/ printf(p) \/ sync_send(p) \/ panic(p)
                                               \/ \E b \in Byte : consolewrite(p, b))
                           \/ kill(p)
  BY <1>3, <1>9, ProcessUnseen, Zenon
<1>10. CASE \/ \E a \in Writer \cup {Intr} : uartstart(a) \/ start_send(a) \/ sync_wait(a)
            \/ uartintr \/ uartgetc \/ intr_start \/ intr_echo \/ transmit \/ \E c \in Char : receive(c)
  BY <1>3, <1>10, DeviceUnseen, Zenon
<1>11. CASE consoleintr
  <2>1. LineInv' /\ (Line!KillLine \/ Line!Rubout \/ UNCHANGED <<Edited, Handed, Got>>)
    BY <1>11, ConsoleintrLine, Zenon
  <2> QED
    BY <1>1, <2>1, Zenon DEF Line!Next
<1>12. CASE intr_store
  <2>1. LineInv' /\ \E c \in (Char \ (Special \cup {"cr"})) \cup {"nl"} : Line!Type(c)
    BY <1>12, IntrStoreLine, Zenon
  <2> QED
    BY <2>1, Zenon DEF Line!Next
<1>13. CASE Step
  <2>1. /\ \A p \in Reader \cap load.procs : p \in Reader /\ p \in Proc
        /\ \A p \in Writer \cap load.procs : p \in Writer /\ p \in Proc
        /\ \A p \in load.procs : p \in Proc
    BY <1>0, Names, Zenon
  <2> QED
    BY <1>0, <1>5, <1>6, <1>7, <1>8, <1>9, <1>10, <1>11, <1>12, <1>13, <2>1, ZenonT(40) DEF Step
<1> QED
  BY <1>4, <1>13, Zenon DEF Next

-----------------------------------------------------------------------------
(* The theorems                                                            *)
\* IndInv and LineInv hold in every reachable state.
THEOREM Inductive == Spec => [](IndInv /\ LineInv)
BY InitInv, InitLine, StepInv, StepLine, PTL DEF Spec

\* No wakeup and no interrupt of the console goes astray: consoleread and uartputc
\* sleep only while there is nothing to read and no room, and what lies in uart_tx_buf
\* or in the receiver has its interrupt ahead.
THEOREM NoLostWakeupHolds == Spec => []NoLostWakeup
<1>1. IndInv => NoLostWakeup
  <2> SUFFICES ASSUME IndInv PROVE NoLostWakeup
    BY Zenon
  <2>1. TypeOK
    BY Zenon DEF IndInv, Types, Rings, TypeOK
  <2> QED
    BY <2>1, Names, Zenon DEF IndInv, Sleepers, Ahead, NoLostWakeup, Idle
<1> QED
  BY <1>1, Inductive, PTL

\* The console's input is edited, handed over and read line by line as LineInput says,
\* for any number of readers, any size of the buffer and any width of the indices that
\* the size divides (consoleread, consoleintr): no character is lost, read twice, or
\* handed over before its line ends, and ^D ends a read without being swallowed by one
\* that already has something.
THEOREM ImplementsLines == Spec => InputIsLines
BY InitLine, StepLine, Inductive, PTL DEF Spec, InputIsLines, Line!Spec

=============================================================================
