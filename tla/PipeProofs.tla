----------------------------- MODULE PipeProofs -----------------------------
(***************************************************************************)
(* Proofs about module Pipe, for any number of processes, any size of the  *)
(* buffer and any width of the counters that the size divides.             *)
(*                                                                         *)
(* NoLostWakeup and NoUseAfterFree follow from the inductive invariant     *)
(* IndInv; the refinement needs in addition that at most PIPESIZE bytes    *)
(* lie between the counters (Fits), and that the bytes between them lie in *)
(* different cells although the counters wrap (CellsDiffer).               *)
(***************************************************************************)
EXTENDS Pipe, Integers, TLAPS

\* Where a process holds pi->lock.
Inside == {"w_check", "w_put", "r_check", "r_sleep", "r_copy"}
\* Where it is inside pipewrite, and inside piperead.
Writing == {"w_acquire", "w_check", "w_put"}
Reading == {"r_acquire", "r_check", "r_sleep", "r_copy"}

\* pi->lock is held by the process that is inside, and by no other.
LockHeld == \A p \in Proc : pc[p] \in Inside <=> lock = p

\* What a process found under the lock still holds while it keeps it, and a
\* process sleeps only where the code put it to sleep.
Under ==
  \A p \in Proc : /\ pc[p] = "w_put" => readopen = 1 /\ left[p] > 0
                  /\ pc[p] = "r_sleep" => Empty /\ writeopen = 1
                  /\ asleep[p] = "nwrite" => pc[p] = "w_acquire"
                  /\ asleep[p] = "nread" => pc[p] = "r_acquire"

\* A reader holds the read end, the last holder alone goes on to pipeclose, and
\* readopen says whether somebody may still do so.
ReadEnd ==
  /\ \A p \in Proc : /\ pc[p] \in Reading => p \in fdr
                     /\ pc[p] = "close_r" => fdr = {} /\ readopen = 1
  /\ \A p, q \in Proc : pc[p] = "close_r" /\ pc[q] = "close_r" => p = q
  /\ readopen = 1 <=> fdr # {} \/ \E q \in Proc : pc[q] = "close_r"

\* The same for the write end.
WriteEnd ==
  /\ \A p \in Proc : /\ pc[p] \in Writing => p \in fdw
                     /\ pc[p] = "close_w" => fdw = {} /\ writeopen = 1
  /\ \A p, q \in Proc : pc[p] = "close_w" /\ pc[q] = "close_w" => p = q
  /\ writeopen = 1 <=> fdw # {} \/ \E q \in Proc : pc[q] = "close_w"

\* A writer asleep has a full pipe, or one that a reader is still emptying under
\* the lock before its wakeup; a reader asleep has an empty one, or one whose bytes
\* a killed writer left unannounced.
Sleepers ==
  \A p \in Proc :
    /\ asleep[p] = "nwrite" => readopen = 1 /\ (Full \/ \E q \in Proc : pc[q] = "r_copy")
    /\ asleep[p] = "nread" => writeopen = 1 /\ (Empty \/ unannounced)

\* The inductive invariant.
IndInv ==
  /\ TypeOK /\ LockHeld /\ Under /\ ReadEnd /\ WriteEnd /\ Sleepers
  /\ freed <=> readopen = 0 /\ writeopen = 0

USE SMTT(30)

\* The counters stay counters, and point at a cell.
LEMMA Counters ==
  \A n \in 0..WRAP-1 : /\ (n + 1) % WRAP \in 0..WRAP-1
                      /\ n % PIPESIZE \in 0..PIPESIZE-1
  BY SizeAssumption

\* Where the head of the reader's loop goes.
LEMMA r_checkGoes ==
  ASSUME NEW p \in Proc, r_check(p)
  PROVE  \E to \in {"idle", "r_sleep", "r_copy"} : pc' = [pc EXCEPT ![p] = to]
  BY Zenon DEF r_check, Return, Goto

\* Where the head of the writer's loop goes.
LEMMA w_checkGoes ==
  ASSUME NEW p \in Proc, w_check(p)
  PROVE  \E to \in {"idle", "w_put"} : pc' = [pc EXCEPT ![p] = to]
  BY Zenon DEF w_check, Return, Goto

\* The sizes, without the arithmetic of %.
LEMMA Bounds ==
  MaxN \in Nat /\ PIPESIZE \in Nat /\ PIPESIZE > 0 /\ WRAP \in Nat /\ WRAP > PIPESIZE
  BY SizeAssumption

-----------------------------------------------------------------------------
(* Every step preserves the invariant                                      *)

\* Every step keeps the types.
LEMMA TypeOKNext == IndInv /\ [Next]_vars => TypeOK'
<1> SUFFICES ASSUME IndInv, [Next]_vars PROVE TypeOK'
  BY Zenon
<1> USE HolderAssumption, Bounds DEF IndInv, TypeOK
<1>1. ASSUME NEW p \in Proc, NEW k \in 0..MaxN, pipewrite(p, k) PROVE TypeOK'
  BY <1>1, Zenon DEF pipewrite, Call, Goto, pipeVars
<1>2. ASSUME NEW p \in Proc, NEW k \in 0..MaxN, piperead(p, k) PROVE TypeOK'
  BY <1>2, Zenon DEF piperead, Call, Goto, pipeVars
<1>3. ASSUME NEW p \in Proc, w_acquire(p) PROVE TypeOK'
  BY <1>3, Zenon DEF w_acquire, Acquire, Goto, pipeVars
<1>4. ASSUME NEW p \in Proc, r_acquire(p) PROVE TypeOK'
  BY <1>4, Zenon DEF r_acquire, Acquire, Goto, pipeVars
<1>5. ASSUME NEW p \in Proc, pipeclose(p) PROVE TypeOK'
  BY <1>5, Zenon DEF pipeclose, Wakeup, Goto
<1>6. ASSUME NEW p \in Proc, w_check(p) PROVE TypeOK'
  <2>1. left' = left \/ left' = [left EXCEPT ![p] = 0]
    BY <1>6, Zenon DEF w_check, Return, Goto, pipeVars
  <2>2. left' \in [Proc -> 0..MaxN]
    BY <1>6, <2>1
  <2>3. lock' \in Proc \cup {NoProc}
    BY <1>6, Zenon DEF w_check, Return, Goto, pipeVars
  <2> QED
    BY <1>6, <2>1, <2>2, <2>3 DEF w_check, Return, Goto, pipeVars
<1>7. ASSUME NEW p \in Proc, w_full(p) PROVE TypeOK'
  BY <1>7, Zenon DEF w_full, Wakeup, Goto, pipeVars
<1>8. ASSUME NEW p \in Proc, NEW b \in Byte, w_byte(p, b) PROVE TypeOK'
  <2>1. data' \in [0..PIPESIZE-1 -> Byte \cup {Junk}] /\ nwrite' \in 0..WRAP-1
    BY <1>8, Counters, Zenon DEF w_byte, Goto
  <2>2. left' \in [Proc -> 0..MaxN]
    BY <1>8 DEF w_byte, Goto, Under
  <2> QED
    BY <1>8, <2>1, <2>2, Zenon DEF w_byte, Goto
<1>9. ASSUME NEW p \in Proc, w_done(p) PROVE TypeOK'
  <2>1. left' \in [Proc -> 0..MaxN]
    BY <1>9 DEF w_done, Wakeup, Return, Goto, pipeVars
  <2>2. asleep' \in [Proc -> {"no", "nread", "nwrite"}]
    BY <1>9, Zenon DEF w_done, Wakeup, Return, Goto, pipeVars
  <2> QED
    BY <1>9, <2>1, <2>2, Zenon DEF w_done, Wakeup, Return, Goto, pipeVars
<1>10. ASSUME NEW p \in Proc, r_check(p) PROVE TypeOK'
  <2>1. left' = left \/ left' = [left EXCEPT ![p] = 0]
    BY <1>10, Zenon DEF r_check, Return, Goto, pipeVars
  <2>2. left' \in [Proc -> 0..MaxN]
    BY <1>10, <2>1
  <2>3. lock' \in Proc \cup {NoProc}
    BY <1>10, Zenon DEF r_check, Return, Goto, pipeVars
  <2> QED
    BY <1>10, <2>1, <2>2, <2>3 DEF r_check, Return, Goto, pipeVars
<1>11. ASSUME NEW p \in Proc, r_sleep(p) PROVE TypeOK'
  BY <1>11, Zenon DEF r_sleep, Goto, pipeVars
<1>12. ASSUME NEW p \in Proc, r_byte(p) PROVE TypeOK'
  <2>1. data' \in [0..PIPESIZE-1 -> Byte \cup {Junk}] /\ nread' \in 0..WRAP-1
    BY <1>12, Counters, Zenon DEF r_byte, Take
  <2>2. left' \in [Proc -> 0..MaxN]
    BY <1>12 DEF r_byte, Take
  <2> QED
    BY <1>12, <2>1, <2>2, Zenon DEF r_byte, Take
<1>13. ASSUME NEW p \in Proc, r_done(p) PROVE TypeOK'
  <2>1. data' \in [0..PIPESIZE-1 -> Byte \cup {Junk}] /\ nread' \in 0..WRAP-1
    BY <1>13, Counters, Zenon DEF r_done, Take, Wakeup, Return, Goto
  <2>2. left' \in [Proc -> 0..MaxN]
    BY <1>13 DEF r_done, Take, Wakeup, Return, Goto
  <2> QED
    BY <1>13, <2>1, <2>2, Zenon DEF r_done, Take, Wakeup, Return, Goto
<1>14. ASSUME NEW p \in Proc, close_read(p) PROVE TypeOK'
  BY <1>14, Zenon DEF close_read, Goto, pipeVars
<1>15. ASSUME NEW p \in Proc, close_write(p) PROVE TypeOK'
  BY <1>15, Zenon DEF close_write, Goto, pipeVars
<1>16. ASSUME NEW p \in Proc, kill(p) PROVE TypeOK'
  BY <1>16, Zenon DEF kill, pipeVars
<1>17. CASE UNCHANGED vars
  BY <1>17, Zenon DEF vars, pipeVars
<1> QED
  BY <1>1, <1>2, <1>3, <1>4, <1>5, <1>6, <1>7, <1>8, <1>9, <1>10,
     <1>11, <1>12, <1>13, <1>14, <1>15, <1>16, <1>17, Zenon
     DEF Next, Step, TakeLock, Close

\* Every step keeps the lock with whoever is inside.
LEMMA LockHeldNext == IndInv /\ [Next]_vars => LockHeld'
<1> SUFFICES ASSUME IndInv, [Next]_vars PROVE LockHeld'
  BY Zenon
<1> USE HolderAssumption, Bounds DEF IndInv, TypeOK, LockHeld, Inside
<1>1. ASSUME NEW p \in Proc, NEW k \in 0..MaxN, pipewrite(p, k) PROVE LockHeld'
  BY <1>1, Zenon DEF pipewrite, Call, Goto, pipeVars
<1>2. ASSUME NEW p \in Proc, NEW k \in 0..MaxN, piperead(p, k) PROVE LockHeld'
  BY <1>2, Zenon DEF piperead, Call, Goto, pipeVars
<1>3. ASSUME NEW p \in Proc, w_acquire(p) PROVE LockHeld'
  BY <1>3, Zenon DEF w_acquire, Acquire, Goto, pipeVars
<1>4. ASSUME NEW p \in Proc, r_acquire(p) PROVE LockHeld'
  BY <1>4, Zenon DEF r_acquire, Acquire, Goto, pipeVars
<1>5. ASSUME NEW p \in Proc, pipeclose(p) PROVE LockHeld'
  BY <1>5, Zenon DEF pipeclose, Wakeup, Goto
<1>6. ASSUME NEW p \in Proc, w_check(p) PROVE LockHeld'
  BY <1>6 DEF w_check, Return, Goto, pipeVars
<1>7. ASSUME NEW p \in Proc, w_full(p) PROVE LockHeld'
  BY <1>7, Zenon DEF w_full, Wakeup, Goto, pipeVars
<1>8. ASSUME NEW p \in Proc, NEW b \in Byte, w_byte(p, b) PROVE LockHeld'
  BY <1>8, Zenon DEF w_byte, Goto
<1>9. ASSUME NEW p \in Proc, w_done(p) PROVE LockHeld'
  BY <1>9, Zenon DEF w_done, Wakeup, Return, Goto, pipeVars
<1>10. ASSUME NEW p \in Proc, r_check(p) PROVE LockHeld'
  BY <1>10 DEF r_check, Return, Goto, pipeVars
<1>11. ASSUME NEW p \in Proc, r_sleep(p) PROVE LockHeld'
  BY <1>11, Zenon DEF r_sleep, Goto, pipeVars
<1>12. ASSUME NEW p \in Proc, r_byte(p) PROVE LockHeld'
  BY <1>12, Zenon DEF r_byte, Take
<1>13. ASSUME NEW p \in Proc, r_done(p) PROVE LockHeld'
  BY <1>13, Zenon DEF r_done, Take, Wakeup, Return, Goto
<1>14. ASSUME NEW p \in Proc, close_read(p) PROVE LockHeld'
  BY <1>14, Zenon DEF close_read, Goto, pipeVars
<1>15. ASSUME NEW p \in Proc, close_write(p) PROVE LockHeld'
  BY <1>15, Zenon DEF close_write, Goto, pipeVars
<1>16. ASSUME NEW p \in Proc, kill(p) PROVE LockHeld'
  BY <1>16, Zenon DEF kill, pipeVars
<1>17. CASE UNCHANGED vars
  BY <1>17, Zenon DEF vars, pipeVars
<1> QED
  BY <1>1, <1>2, <1>3, <1>4, <1>5, <1>6, <1>7, <1>8, <1>9, <1>10,
     <1>11, <1>12, <1>13, <1>14, <1>15, <1>16, <1>17, Zenon
     DEF Next, Step, TakeLock, Close

\* Nothing that a process found under the lock changes behind its back.
LEMMA UnderNext == IndInv /\ [Next]_vars => Under'
<1> SUFFICES ASSUME IndInv, [Next]_vars PROVE Under'
  BY Zenon
<1> USE HolderAssumption, Bounds DEF IndInv, TypeOK, Under, Empty, LockHeld, Inside
<1>1. ASSUME NEW p \in Proc, NEW k \in 0..MaxN, pipewrite(p, k) PROVE Under'
  BY <1>1, Zenon DEF pipewrite, Call, Goto, pipeVars
<1>2. ASSUME NEW p \in Proc, NEW k \in 0..MaxN, piperead(p, k) PROVE Under'
  BY <1>2, Zenon DEF piperead, Call, Goto, pipeVars
<1>3. ASSUME NEW p \in Proc, w_acquire(p) PROVE Under'
  BY <1>3, Zenon DEF w_acquire, Acquire, Goto, pipeVars
<1>4. ASSUME NEW p \in Proc, r_acquire(p) PROVE Under'
  BY <1>4, Zenon DEF r_acquire, Acquire, Goto, pipeVars
<1>5. ASSUME NEW p \in Proc, pipeclose(p) PROVE Under'
  <2>1. CASE pc[p] = "close_w"
    BY <1>5, <2>1 DEF pipeclose, Wakeup, Goto
  <2>2. CASE pc[p] = "close_r"
    BY <1>5, <2>2 DEF pipeclose, Wakeup, Goto
  <2> QED
    BY <1>5, <2>1, <2>2, Zenon DEF pipeclose
<1>6. ASSUME NEW p \in Proc, w_check(p) PROVE Under'
  BY <1>6 DEF w_check, Return, Goto, pipeVars
<1>7. ASSUME NEW p \in Proc, w_full(p) PROVE Under'
  BY <1>7 DEF w_full, Wakeup, Goto, pipeVars
<1>8. ASSUME NEW p \in Proc, NEW b \in Byte, w_byte(p, b) PROVE Under'
  BY <1>8, Zenon DEF w_byte, Goto
<1>9. ASSUME NEW p \in Proc, w_done(p) PROVE Under'
  BY <1>9, Zenon DEF w_done, Wakeup, Return, Goto, pipeVars
<1>10. ASSUME NEW p \in Proc, r_check(p) PROVE Under'
  BY <1>10 DEF r_check, Return, Goto, pipeVars
<1>11. ASSUME NEW p \in Proc, r_sleep(p) PROVE Under'
  BY <1>11, Zenon DEF r_sleep, Goto, pipeVars
<1>12. ASSUME NEW p \in Proc, r_byte(p) PROVE Under'
  BY <1>12, Zenon DEF r_byte, Take
<1>13. ASSUME NEW p \in Proc, r_done(p) PROVE Under'
  BY <1>13, Zenon DEF r_done, Take, Wakeup, Return, Goto
<1>14. ASSUME NEW p \in Proc, close_read(p) PROVE Under'
  BY <1>14, Zenon DEF close_read, Goto, pipeVars
<1>15. ASSUME NEW p \in Proc, close_write(p) PROVE Under'
  BY <1>15, Zenon DEF close_write, Goto, pipeVars
<1>16. ASSUME NEW p \in Proc, kill(p) PROVE Under'
  BY <1>16, Zenon DEF kill, pipeVars
<1>17. CASE UNCHANGED vars
  BY <1>17, Zenon DEF vars, pipeVars
<1> QED
  BY <1>1, <1>2, <1>3, <1>4, <1>5, <1>6, <1>7, <1>8, <1>9, <1>10,
     <1>11, <1>12, <1>13, <1>14, <1>15, <1>16, <1>17, Zenon
     DEF Next, Step, TakeLock, Close

\* Every step keeps the account of the read end.
LEMMA ReadEndNext == IndInv /\ [Next]_vars => ReadEnd'
<1> SUFFICES ASSUME IndInv, [Next]_vars PROVE ReadEnd'
  BY Zenon
<1> USE HolderAssumption, Bounds DEF IndInv, TypeOK, ReadEnd, Reading
<1>1. ASSUME NEW p \in Proc, NEW k \in 0..MaxN, pipewrite(p, k) PROVE ReadEnd'
  BY <1>1, Zenon DEF pipewrite, Call, Goto, pipeVars
<1>2. ASSUME NEW p \in Proc, NEW k \in 0..MaxN, piperead(p, k) PROVE ReadEnd'
  BY <1>2, Zenon DEF piperead, Call, Goto, pipeVars
<1>3. ASSUME NEW p \in Proc, w_acquire(p) PROVE ReadEnd'
  BY <1>3, Zenon DEF w_acquire, Acquire, Goto, pipeVars
<1>4. ASSUME NEW p \in Proc, r_acquire(p) PROVE ReadEnd'
  BY <1>4, Zenon DEF r_acquire, Acquire, Goto, pipeVars
<1>5. ASSUME NEW p \in Proc, pipeclose(p) PROVE ReadEnd'
  BY <1>5 DEF pipeclose, Wakeup, Goto
<1>6. ASSUME NEW p \in Proc, w_check(p) PROVE ReadEnd'
  <2>1. PICK to \in {"idle", "w_put"} : pc' = [pc EXCEPT ![p] = to]
    BY <1>6, w_checkGoes, Zenon
  <2> QED
    BY <1>6, <2>1, Zenon DEF w_check, pipeVars
<1>7. ASSUME NEW p \in Proc, w_full(p) PROVE ReadEnd'
  BY <1>7, Zenon DEF w_full, Wakeup, Goto, pipeVars
<1>8. ASSUME NEW p \in Proc, NEW b \in Byte, w_byte(p, b) PROVE ReadEnd'
  BY <1>8, Zenon DEF w_byte, Goto
<1>9. ASSUME NEW p \in Proc, w_done(p) PROVE ReadEnd'
  BY <1>9, Zenon DEF w_done, Wakeup, Return, Goto, pipeVars
<1>10. ASSUME NEW p \in Proc, r_check(p) PROVE ReadEnd'
  BY <1>10 DEF r_check, Return, Goto, pipeVars
<1>11. ASSUME NEW p \in Proc, r_sleep(p) PROVE ReadEnd'
  BY <1>11, Zenon DEF r_sleep, Goto, pipeVars
<1>12. ASSUME NEW p \in Proc, r_byte(p) PROVE ReadEnd'
  BY <1>12, Zenon DEF r_byte, Take
<1>13. ASSUME NEW p \in Proc, r_done(p) PROVE ReadEnd'
  BY <1>13, Zenon DEF r_done, Take, Wakeup, Return, Goto
<1>14. ASSUME NEW p \in Proc, close_read(p) PROVE ReadEnd'
  BY <1>14 DEF close_read, Goto, pipeVars
<1>15. ASSUME NEW p \in Proc, close_write(p) PROVE ReadEnd'
  BY <1>15, Zenon DEF close_write, Goto, pipeVars
<1>16. ASSUME NEW p \in Proc, kill(p) PROVE ReadEnd'
  BY <1>16, Zenon DEF kill, pipeVars
<1>17. CASE UNCHANGED vars
  BY <1>17, Zenon DEF vars, pipeVars
<1> QED
  BY <1>1, <1>2, <1>3, <1>4, <1>5, <1>6, <1>7, <1>8, <1>9, <1>10,
     <1>11, <1>12, <1>13, <1>14, <1>15, <1>16, <1>17, Zenon
     DEF Next, Step, TakeLock, Close

\* Every step keeps the account of the write end.
LEMMA WriteEndNext == IndInv /\ [Next]_vars => WriteEnd'
<1> SUFFICES ASSUME IndInv, [Next]_vars PROVE WriteEnd'
  BY Zenon
<1> USE HolderAssumption, Bounds DEF IndInv, TypeOK, WriteEnd, Writing
<1>1. ASSUME NEW p \in Proc, NEW k \in 0..MaxN, pipewrite(p, k) PROVE WriteEnd'
  BY <1>1, Zenon DEF pipewrite, Call, Goto, pipeVars
<1>2. ASSUME NEW p \in Proc, NEW k \in 0..MaxN, piperead(p, k) PROVE WriteEnd'
  BY <1>2, Zenon DEF piperead, Call, Goto, pipeVars
<1>3. ASSUME NEW p \in Proc, w_acquire(p) PROVE WriteEnd'
  BY <1>3, Zenon DEF w_acquire, Acquire, Goto, pipeVars
<1>4. ASSUME NEW p \in Proc, r_acquire(p) PROVE WriteEnd'
  BY <1>4, Zenon DEF r_acquire, Acquire, Goto, pipeVars
<1>5. ASSUME NEW p \in Proc, pipeclose(p) PROVE WriteEnd'
  BY <1>5 DEF pipeclose, Wakeup, Goto
<1>6. ASSUME NEW p \in Proc, w_check(p) PROVE WriteEnd'
  BY <1>6 DEF w_check, Return, Goto, pipeVars
<1>7. ASSUME NEW p \in Proc, w_full(p) PROVE WriteEnd'
  BY <1>7, Zenon DEF w_full, Wakeup, Goto, pipeVars
<1>8. ASSUME NEW p \in Proc, NEW b \in Byte, w_byte(p, b) PROVE WriteEnd'
  BY <1>8, Zenon DEF w_byte, Goto
<1>9. ASSUME NEW p \in Proc, w_done(p) PROVE WriteEnd'
  BY <1>9, Zenon DEF w_done, Wakeup, Return, Goto, pipeVars
<1>10. ASSUME NEW p \in Proc, r_check(p) PROVE WriteEnd'
  <2>1. PICK to \in {"idle", "r_sleep", "r_copy"} : pc' = [pc EXCEPT ![p] = to]
    BY <1>10, r_checkGoes, Zenon
  <2> QED
    BY <1>10, <2>1, Zenon DEF r_check, pipeVars
<1>11. ASSUME NEW p \in Proc, r_sleep(p) PROVE WriteEnd'
  BY <1>11, Zenon DEF r_sleep, Goto, pipeVars
<1>12. ASSUME NEW p \in Proc, r_byte(p) PROVE WriteEnd'
  BY <1>12, Zenon DEF r_byte, Take
<1>13. ASSUME NEW p \in Proc, r_done(p) PROVE WriteEnd'
  BY <1>13, Zenon DEF r_done, Take, Wakeup, Return, Goto
<1>14. ASSUME NEW p \in Proc, close_read(p) PROVE WriteEnd'
  BY <1>14, Zenon DEF close_read, Goto, pipeVars
<1>15. ASSUME NEW p \in Proc, close_write(p) PROVE WriteEnd'
  BY <1>15 DEF close_write, Goto, pipeVars
<1>16. ASSUME NEW p \in Proc, kill(p) PROVE WriteEnd'
  BY <1>16, Zenon DEF kill, pipeVars
<1>17. CASE UNCHANGED vars
  BY <1>17, Zenon DEF vars, pipeVars
<1> QED
  BY <1>1, <1>2, <1>3, <1>4, <1>5, <1>6, <1>7, <1>8, <1>9, <1>10,
     <1>11, <1>12, <1>13, <1>14, <1>15, <1>16, <1>17, Zenon
     DEF Next, Step, TakeLock, Close

\* No step leaves a sleeper behind without its reason to sleep.
LEMMA SleepersNext == IndInv /\ [Next]_vars => Sleepers'
<1> SUFFICES ASSUME IndInv, [Next]_vars PROVE Sleepers'
  BY Zenon
<1> USE HolderAssumption, Bounds DEF IndInv, TypeOK, Sleepers, Full, Empty, Reading, Writing,
                                     Under, LockHeld, Inside, ReadEnd, WriteEnd
<1>1. ASSUME NEW p \in Proc, NEW k \in 0..MaxN, pipewrite(p, k) PROVE Sleepers'
  BY <1>1, Zenon DEF pipewrite, Call, Goto, pipeVars
<1>2. ASSUME NEW p \in Proc, NEW k \in 0..MaxN, piperead(p, k) PROVE Sleepers'
  BY <1>2, Zenon DEF piperead, Call, Goto, pipeVars
<1>3. ASSUME NEW p \in Proc, w_acquire(p) PROVE Sleepers'
  BY <1>3, Zenon DEF w_acquire, Acquire, Goto, pipeVars
<1>4. ASSUME NEW p \in Proc, r_acquire(p) PROVE Sleepers'
  BY <1>4, ZenonT(40) DEF r_acquire, Acquire, Goto, pipeVars
<1>5. ASSUME NEW p \in Proc, pipeclose(p) PROVE Sleepers'
  BY <1>5 DEF pipeclose, Wakeup, Goto
<1>6. ASSUME NEW p \in Proc, w_check(p) PROVE Sleepers'
  BY <1>6, Zenon DEF w_check, Return, Goto, pipeVars
<1>7. ASSUME NEW p \in Proc, w_full(p) PROVE Sleepers'
  BY <1>7, Zenon DEF w_full, Wakeup, Goto, pipeVars
<1>8. ASSUME NEW p \in Proc, NEW b \in Byte, w_byte(p, b) PROVE Sleepers'
  BY <1>8, Zenon DEF w_byte, Goto
<1>9. ASSUME NEW p \in Proc, w_done(p) PROVE Sleepers'
  BY <1>9, Zenon DEF w_done, Wakeup, Return, Goto, pipeVars
<1>10. ASSUME NEW p \in Proc, r_check(p) PROVE Sleepers'
  BY <1>10 DEF r_check, Return, Goto, pipeVars
<1>11. ASSUME NEW p \in Proc, r_sleep(p) PROVE Sleepers'
  BY <1>11 DEF r_sleep, Goto, pipeVars
<1>12. ASSUME NEW p \in Proc, r_byte(p) PROVE Sleepers'
  BY <1>12, Zenon DEF r_byte, Take
<1>13. ASSUME NEW p \in Proc, r_done(p) PROVE Sleepers'
  BY <1>13, Zenon DEF r_done, Take, Wakeup, Return, Goto
<1>14. ASSUME NEW p \in Proc, close_read(p) PROVE Sleepers'
  BY <1>14, Zenon DEF close_read, Goto, pipeVars
<1>15. ASSUME NEW p \in Proc, close_write(p) PROVE Sleepers'
  BY <1>15, Zenon DEF close_write, Goto, pipeVars
<1>16. ASSUME NEW p \in Proc, kill(p) PROVE Sleepers'
  BY <1>16 DEF kill, pipeVars
<1>17. CASE UNCHANGED vars
  BY <1>17, Zenon DEF vars, pipeVars
<1> QED
  BY <1>1, <1>2, <1>3, <1>4, <1>5, <1>6, <1>7, <1>8, <1>9, <1>10,
     <1>11, <1>12, <1>13, <1>14, <1>15, <1>16, <1>17, Zenon
     DEF Next, Step, TakeLock, Close

\* The page is freed by the pipeclose that closes the second end.
LEMMA FreedNext == IndInv /\ [Next]_vars => (freed <=> readopen = 0 /\ writeopen = 0)'
<1> SUFFICES ASSUME IndInv, [Next]_vars PROVE (freed <=> readopen = 0 /\ writeopen = 0)'
  BY Zenon
<1>1. ASSUME NEW p \in Proc, pipeclose(p) PROVE (freed <=> readopen = 0 /\ writeopen = 0)'
  BY <1>1, Zenon DEF pipeclose
<1>2. (\E p \in Proc : pipeclose(p)) \/ UNCHANGED <<freed, readopen, writeopen>>
  BY DEF Next, Step, TakeLock, Close, w_acquire, r_acquire, Acquire, pipewrite, piperead, Call,
         w_check, w_full, w_byte, w_done, r_check, r_sleep, r_byte, r_done, close_read,
         close_write, kill, vars, pipeVars
<1> QED
  BY <1>1, <1>2 DEF IndInv

\* A pipe that pipealloc has just made satisfies the invariant.
LEMMA InitInv == Init => IndInv
<1> SUFFICES ASSUME Init PROVE IndInv
  BY Zenon
<1> USE HolderAssumption, Bounds DEF Init
<1>1. TypeOK
  <2>1. data \in [0..PIPESIZE-1 -> Byte \cup {Junk}] /\ 0 \in 0..WRAP-1
    OBVIOUS
  <2>2. left \in [Proc -> 0..MaxN] /\ killed \in [Proc -> BOOLEAN]
    OBVIOUS
  <2> QED
    BY <2>1, <2>2, Zenon DEF TypeOK
<1>2. LockHeld /\ Under
  BY Zenon DEF LockHeld, Under, Inside
<1>3. ReadEnd /\ WriteEnd
  BY Zenon DEF ReadEnd, WriteEnd, Reading, Writing
<1>4. Sleepers
  BY Zenon DEF Sleepers
<1> QED
  BY <1>1, <1>2, <1>3, <1>4 DEF IndInv

\* The invariant holds in every reachable state.
THEOREM Inductive == Spec => []IndInv
<1>1. IndInv /\ [Next]_vars => IndInv'
  BY TypeOKNext, LockHeldNext, UnderNext, ReadEndNext, WriteEndNext, SleepersNext, FreedNext, Zenon
     DEF IndInv
<1> QED
  BY <1>1, InitInv, PTL DEF Spec

\* No sleeper is forgotten (pipe.c): whenever pi->lock is free, a process asleep in
\* pipewrite or piperead still has the reason it went to sleep for, and somebody
\* can still close the other end.
THEOREM NoLostWakeupHolds == Spec => []NoLostWakeup
<1>1. IndInv => NoLostWakeup
  <2> SUFFICES ASSUME IndInv, lock = NoProc, NEW p \in Proc
               PROVE  /\ asleep[p] = "nwrite" =>
                           /\ Full /\ readopen = 1
                           /\ fdr # {} \/ \E q \in Proc : pc[q] = "close_r"
                      /\ asleep[p] = "nread" =>
                           /\ Empty \/ unannounced
                           /\ writeopen = 1
                           /\ fdw # {} \/ \E q \in Proc : pc[q] = "close_w"
    BY Zenon DEF NoLostWakeup
  <2>1. ~ \E q \in Proc : pc[q] = "r_copy"
    BY HolderAssumption, Zenon DEF IndInv, LockHeld, Inside
  <2> QED
    BY <2>1, Zenon DEF IndInv, Sleepers, ReadEnd, WriteEnd
<1> QED
  BY <1>1, Inductive, PTL

\* The page is freed only when nobody is in the pipe, waits for its lock, or still
\* holds one of its ends, and it is freed once (pipeclose).
THEOREM NoUseAfterFreeHolds == Spec => []NoUseAfterFree
<1>1. IndInv => NoUseAfterFree
  <2> SUFFICES ASSUME IndInv, freed
               PROVE  /\ \A p \in Proc : pc[p] = "idle" /\ asleep[p] = "no"
                      /\ fdr = {} /\ fdw = {} /\ lock = NoProc
    BY Zenon DEF NoUseAfterFree, IndInv
  <2>1. readopen = 0 /\ writeopen = 0
    BY Zenon DEF IndInv
  <2>2. fdr = {} /\ fdw = {}
    BY <2>1 DEF IndInv, ReadEnd, WriteEnd
  <2>3. \A p \in Proc : pc[p] = "idle"
    <3> TAKE p \in Proc
    <3>1. pc[p] \notin Reading /\ pc[p] # "close_r"
      BY <2>1, <2>2 DEF IndInv, ReadEnd
    <3>2. pc[p] \notin Writing /\ pc[p] # "close_w"
      BY <2>1, <2>2 DEF IndInv, WriteEnd
    <3> QED
      BY <3>1, <3>2, Zenon DEF IndInv, TypeOK, Reading, Writing
  <2>4. \A p \in Proc : asleep[p] = "no"
    BY <2>3, Zenon DEF IndInv, TypeOK, Under
  <2>5. lock = NoProc
    BY <2>3, Zenon DEF IndInv, TypeOK, LockHeld, Inside
  <2> QED
    BY <2>2, <2>3, <2>4, <2>5, Zenon
<1> QED
  BY <1>1, Inductive, PTL

-----------------------------------------------------------------------------
(* Counters that wrap around                                               *)

\* A number below twice the modulus is reduced by at most one subtraction.
LEMMA ModOnce ==
  ASSUME NEW m \in Nat, m > 0, NEW n \in 0..(2*m - 1)
  PROVE  n % m = IF n < m THEN n ELSE n - m
  OBVIOUS

\* Two multiples of m that are less than m apart are equal.
LEMMA NoMultiple ==
  ASSUME NEW m \in Nat, m > 0, NEW q \in Int, NEW r \in Int, m * q - m * r < m, m * r - m * q < m
  PROVE  q = r
  <1>1. m * (q - r) < m /\ m * (r - q) < m
    OBVIOUS
  <1>2. CASE q > r
    <2>1. q - r >= 1
      BY <1>2
    <2>2. m * (q - r) >= m
      BY <2>1
    <2> QED
      BY <2>2, <1>1
  <1>3. CASE q < r
    <2>1. r - q >= 1
      BY <1>3
    <2>2. m * (r - q) >= m
      BY <2>1
    <2> QED
      BY <2>2, <1>1
  <1> QED
    BY <1>2, <1>3

\* Division with remainder.
LEMMA Quotient ==
  ASSUME NEW m \in Nat, m > 0, NEW n \in Nat
  PROVE  n = m * (n \div m) + (n % m)
  OBVIOUS

\* Numbers less than m apart differ modulo m.
LEMMA ModApart ==
  ASSUME NEW m \in Nat, m > 0, NEW x \in Nat, NEW y \in Nat, x < y, y - x < m
  PROVE  x % m # y % m
  <1> SUFFICES ASSUME x % m = y % m PROVE FALSE
    BY Zenon
  <1>1. x = m * (x \div m) + (x % m) /\ y = m * (y \div m) + (y % m)
    BY Quotient, Zenon
  <1>2. x \div m \in Int /\ y \div m \in Int /\ x % m \in Int
    OBVIOUS
  <1> DEFINE q == x \div m   r == y \div m  t == x % m
  <1>3. x = m * q + t /\ y = m * r + t /\ q \in Int /\ r \in Int /\ t \in Int
    BY <1>1, <1>2, Zenon
  <1> HIDE DEF q, r, t
  <1>4. m * q - m * r < m /\ m * r - m * q < m
    BY <1>3
  <1>5. q = r
    BY <1>3, <1>4, NoMultiple, Zenon
  <1> QED
    BY <1>3, <1>5

\* Adding a multiple of m changes nothing modulo m.
LEMMA ModLess ==
  ASSUME NEW m \in Nat, m > 0, NEW k \in Nat, k % m = 0, NEW n \in Nat
  PROVE  (n + k) % m = n % m
  <1>1. /\ k = m * (k \div m) /\ n = m * (n \div m) + (n % m)
        /\ n + k = m * ((n + k) \div m) + ((n + k) % m)
    BY Quotient
  <1>2. /\ n \div m \in Int /\ k \div m \in Int /\ (n + k) \div m \in Int
        /\ n % m \in 0..m-1 /\ (n + k) % m \in 0..m-1
    OBVIOUS
  <1> DEFINE q == n \div m   r == k \div m  t == n % m  u == (n + k) % m  s == (n + k) \div m
  <1>3. /\ k = m * r /\ n = m * q + t /\ n + k = m * s + u
        /\ q \in Int /\ r \in Int /\ s \in Int /\ t \in 0..m-1 /\ u \in 0..m-1
    BY <1>1, <1>2, Zenon
  <1> HIDE DEF q, r, t, u, s
  <1>4. m * (q + r) = m * q + m * r
    BY <1>3
  <1>4a. m * (q + r) + t = m * s + u
    BY <1>3, <1>4
  <1>4b. m * (q + r) \in Int /\ m * s \in Int
    BY <1>3
  <1>4c. m * s - m * (q + r) < m /\ m * (q + r) - m * s < m
    BY <1>3, <1>4a, <1>4b
  <1>5. s = q + r
    BY <1>3, <1>4c, NoMultiple
  <1>6. u = t
    BY <1>3, <1>4a, <1>5
  <1> QED
    BY <1>6, Zenon DEF t, u

\* The cell of the byte that lies k places after counter value a.
CellAt(a, k) == ((a + k) % WRAP) % PIPESIZE
\* Fewer than PIPESIZE bytes apart, two bytes lie in different cells, also when the
\* counter wraps between them: this is where PIPESIZE must divide 2^32.
LEMMA CellsDiffer ==
  ASSUME NEW a \in 0..WRAP-1, NEW i \in Nat, NEW j \in Nat, i < j, j < PIPESIZE
  PROVE  CellAt(a, i) # CellAt(a, j)
  <1>1. \A k \in 0..PIPESIZE : CellAt(a, k) = (a + k) % PIPESIZE
    <2> SUFFICES ASSUME NEW k \in 0..PIPESIZE PROVE CellAt(a, k) = (a + k) % PIPESIZE
      BY Zenon
    <2>1. a + k \in 0..(2 * WRAP - 1)
      BY Bounds
    <2>2. (a + k) % WRAP = IF a + k < WRAP THEN a + k ELSE a + k - WRAP
      BY <2>1, ModOnce, SizeAssumption
    <2>3. CASE a + k < WRAP
      BY <2>2, <2>3, Zenon DEF CellAt
    <2>4. CASE a + k >= WRAP
      <3>1. a + k - WRAP \in Nat
        BY <2>1, <2>4, SizeAssumption
      <3> DEFINE n == a + k - WRAP
      <3>2. n + WRAP = a + k
        BY SizeAssumption
      <3>3. (n + WRAP) % PIPESIZE = n % PIPESIZE
        BY <3>1, ModLess, SizeAssumption
      <3> QED
        BY <2>2, <2>4, <3>2, <3>3, SizeAssumption, Zenon DEF CellAt
    <2> QED
      BY <2>1, <2>3, <2>4, Bounds
  <1>2. (a + i) % PIPESIZE # (a + j) % PIPESIZE
    <2>1. a + i \in Nat /\ a + j \in Nat /\ a + i < a + j /\ (a + j) - (a + i) < PIPESIZE
      BY Bounds
    <2> QED
      BY <2>1, ModApart, Bounds, Zenon
  <1> QED
    BY <1>1, <1>2, SizeAssumption

\* The bytes between counter values r and w.
CountOf(r, w) == (w + WRAP - r) % WRAP

\* What the wrapping counters compute, without %.
LEMMA CountFacts ==
  ASSUME NEW r \in 0..WRAP-1, NEW w \in 0..WRAP-1
  PROVE  /\ CountOf(r, w) = IF w >= r THEN w - r ELSE w + WRAP - r
         /\ (r + 1) % WRAP = IF r + 1 < WRAP THEN r + 1 ELSE 0
         /\ (r + PIPESIZE) % WRAP = IF r + PIPESIZE < WRAP THEN r + PIPESIZE ELSE r + PIPESIZE - WRAP
  <1>1. /\ w + WRAP - r \in 0..(2 * WRAP - 1)
        /\ r + 1 \in 0..(2 * WRAP - 1) /\ r + PIPESIZE \in 0..(2 * WRAP - 1)
    BY Bounds
  <1>2. /\ CountOf(r, w) = IF w + WRAP - r < WRAP THEN w + WRAP - r ELSE w + WRAP - r - WRAP
        /\ (r + 1) % WRAP = IF r + 1 < WRAP THEN r + 1 ELSE r + 1 - WRAP
        /\ (r + PIPESIZE) % WRAP = IF r + PIPESIZE < WRAP THEN r + PIPESIZE ELSE r + PIPESIZE - WRAP
    BY <1>1, ModOnce, Bounds DEF CountOf
  <1> HIDE DEF CountOf
  <1> QED
    BY <1>2, Bounds

\* The n bytes from counter value r on, in the buffer d.
Bytes(d, r, n) == [k \in 1..n |-> d[CellAt(r, k - 1)]]

\* A cell is an index of the buffer.
LEMMA CellRange ==
  ASSUME NEW r \in 0..WRAP-1, NEW k \in Nat
  PROVE  CellAt(r, k) \in 0..PIPESIZE-1
  BY Bounds DEF CellAt

\* The bytes form a sequence of the length asked for.
LEMMA BytesSeq ==
  ASSUME NEW S, NEW d \in [0..PIPESIZE-1 -> S], NEW r \in 0..WRAP-1, NEW n \in Nat
  PROVE  /\ Bytes(d, r, n) \in Seq(S)
         /\ Len(Bytes(d, r, n)) = n
  <1>1. \A k \in 1..n : CellAt(r, k - 1) \in 0..PIPESIZE-1
    BY CellRange
  <1>2. Bytes(d, r, n) \in [1..n -> S]
    BY <1>1, Zenon DEF Bytes
  <1>3. Bytes(d, r, n) \in Seq(S)
    BY <1>2
  <1> QED
    BY <1>2, <1>3 DEF Bytes

INSTANCE SequenceTheorems

\* Storing a byte in the cell after the last one appends it.
LEMMA PutBytes ==
  ASSUME NEW S, NEW d \in [0..PIPESIZE-1 -> S], NEW b \in S,
         NEW r \in 0..WRAP-1, NEW n \in 0..PIPESIZE-1
  PROVE  Bytes([d EXCEPT ![CellAt(r, n)] = b], r, n + 1) = Append(Bytes(d, r, n), b)
  <1> DEFINE e == [d EXCEPT ![CellAt(r, n)] = b]
             old == Bytes(d, r, n)
             new == Bytes(e, r, n + 1)
  <1>0. n \in Nat /\ n + 1 \in Nat
    BY Bounds
  <1>1. CellAt(r, n) \in 0..PIPESIZE-1
    BY <1>0, CellRange, Zenon
  <1>2. e \in [0..PIPESIZE-1 -> S] /\ e[CellAt(r, n)] = b
    BY <1>1, Zenon
  <1>3. /\ old \in Seq(S) /\ Len(old) = n
        /\ \A k \in 1..n : old[k] = d[CellAt(r, k - 1)]
    <2>1. old \in Seq(S) /\ Len(old) = n
      BY <1>0, BytesSeq, Zenon
    <2>2. \A k \in 1..n : old[k] = d[CellAt(r, k - 1)]
      BY Zenon DEF Bytes
    <2> QED
      BY <2>1, <2>2, Zenon
  <1>4. /\ new \in Seq(S) /\ Len(new) = n + 1
        /\ \A k \in 1..(n + 1) : new[k] = e[CellAt(r, k - 1)]
    <2> HIDE DEF e
    <2>1. Bytes(e, r, n + 1) \in Seq(S)
      BY <1>0, <1>2, BytesSeq, Zenon
    <2>2. Len(Bytes(e, r, n + 1)) = n + 1
      BY <1>0, <1>2, BytesSeq, Zenon
    <2> QED
      BY <2>1, <2>2, Zenon DEF Bytes
  <1>5. \A k \in 1..n : e[CellAt(r, k - 1)] = d[CellAt(r, k - 1)]
    <2> TAKE k \in 1..n
    <2>1. CellAt(r, k - 1) # CellAt(r, n)
      BY CellsDiffer, Bounds
    <2>2. CellAt(r, k - 1) \in 0..PIPESIZE-1
      BY CellRange, Bounds
    <2> QED
      BY <2>1, <2>2, Zenon
  <1> HIDE DEF e, old, new
  <1>6. /\ Append(old, b) \in Seq(S) /\ Len(Append(old, b)) = n + 1
        /\ \A k \in 1..n : Append(old, b)[k] = old[k]
        /\ Append(old, b)[n + 1] = b
    BY <1>3, AppendProperties
  <1>7. \A k \in 1..Len(new) : new[k] = Append(old, b)[k]
    <2> SUFFICES ASSUME NEW k \in 1..Len(new) PROVE new[k] = Append(old, b)[k]
      BY Zenon
    <2>1. CASE k \in 1..n
      BY <2>1, <1>3, <1>4, <1>5, <1>6, Zenon
    <2>2. CASE k = n + 1
      <3>1. k - 1 = n
        BY <2>2, <1>0
      <3>2. new[k] = e[CellAt(r, n)]
        BY <3>1, <1>4, Zenon
      <3> QED
        BY <2>2, <3>2, <1>2, <1>6, Zenon
    <2>3. k \in 1..(n + 1)
      BY <1>4, Zenon
    <2>4. k \in 1..n \/ k = n + 1
      BY <2>3, <1>0
    <2> QED
      BY <2>1, <2>2, <2>4, Zenon
  <1>8. new = Append(old, b)
    BY <1>4, <1>6, <1>7, SeqEqual, Zenon
  <1> QED
    BY <1>8, Zenon DEF e, old, new

\* Moving the read counter on takes the first byte off, whatever is left in its cell.
LEMMA GetBytes ==
  ASSUME NEW S, NEW d \in [0..PIPESIZE-1 -> S], NEW x \in S,
         NEW r \in 0..WRAP-1, NEW n \in 1..PIPESIZE
  PROVE  Bytes([d EXCEPT ![CellAt(r, 0)] = x], (r + 1) % WRAP, n - 1) = Tail(Bytes(d, r, n))
  <1> DEFINE e == [d EXCEPT ![CellAt(r, 0)] = x]
             nxt == (r + 1) % WRAP
             old == Bytes(d, r, n)
             new == Bytes(e, nxt, n - 1)
  <1>1. nxt \in 0..WRAP-1 /\ n - 1 \in Nat /\ n \in Nat
    BY Bounds
  <1>2. e \in [0..PIPESIZE-1 -> S]
    BY Zenon
  <1>3. /\ old \in Seq(S) /\ Len(old) = n
        /\ \A k \in 1..n : old[k] = d[CellAt(r, k - 1)]
    <2>1. old \in Seq(S) /\ Len(old) = n
      BY <1>1, BytesSeq, Zenon
    <2>2. \A k \in 1..n : old[k] = d[CellAt(r, k - 1)]
      BY Zenon DEF Bytes
    <2> QED
      BY <2>1, <2>2, Zenon
  <1>4. /\ new \in Seq(S) /\ Len(new) = n - 1
        /\ \A k \in 1..(n - 1) : new[k] = e[CellAt(nxt, k - 1)]
    <2> DEFINE m == n - 1
    <2>1. m \in Nat
      BY <1>1, Zenon
    <2>3. nxt \in 0..WRAP-1
      BY <1>1, Zenon
    <2> HIDE DEF e, nxt, m, old, new
    <2>4. Bytes(e, nxt, m) \in Seq(S)
      BY <2>1, <2>3, <1>2, BytesSeq, Zenon
    <2>5. Len(Bytes(e, nxt, m)) = m
      BY <2>1, <2>3, <1>2, BytesSeq, Zenon
    <2>2. \A k \in 1..m : Bytes(e, nxt, m)[k] = e[CellAt(nxt, k - 1)]
      BY Zenon DEF Bytes
    <2> QED
      BY <2>2, <2>4, <2>5, Zenon DEF m, new
  <1>5. \A k \in 1..(n - 1) : e[CellAt(nxt, k - 1)] = d[CellAt(r, k)]
    <2> TAKE k \in 1..(n - 1)
    <2>1. CellAt(nxt, k - 1) = CellAt(r, k)
      <3>1. nxt = IF r + 1 < WRAP THEN r + 1 ELSE 0
        BY CountFacts, Zenon
      <3>2. r + 1 >= WRAP => r + 1 = WRAP
        BY Bounds
      <3> HIDE DEF nxt
      <3>3. CASE r + 1 < WRAP
        BY <3>1, <3>3, Bounds DEF CellAt
      <3>4. CASE r + 1 = WRAP
        <4>1. /\ r + k \in 0..(2 * WRAP - 1) /\ r + k >= WRAP /\ r + k - WRAP = k - 1
              /\ k - 1 \in 0..(2 * WRAP - 1) /\ k - 1 < WRAP
          BY <3>4, Bounds
        <4>2. (r + k) % WRAP = k - 1 /\ (k - 1) % WRAP = k - 1
          BY <4>1, ModOnce, Bounds
        <4> QED
          BY <3>1, <3>4, <4>1, <4>2, Bounds DEF CellAt
      <3> QED
        BY <3>2, <3>3, <3>4, Bounds
    <2>2. CellAt(r, 0) # CellAt(r, k)
      BY CellsDiffer, Bounds
    <2>3. CellAt(r, k) \in 0..PIPESIZE-1
      BY CellRange, Bounds
    <2> QED
      BY <2>1, <2>2, <2>3, Zenon
  <1> HIDE DEF e, nxt, old, new
  <1>6. /\ Tail(old) \in Seq(S) /\ Len(Tail(old)) = n - 1
        /\ \A k \in 1..(n - 1) : Tail(old)[k] = old[k + 1]
    <2>1. old # <<>>
      BY <1>3
    <2> QED
      BY <2>1, <1>3, HeadTailProperties, Zenon
  <1>7. \A k \in 1..Len(new) : new[k] = Tail(old)[k]
    <2> SUFFICES ASSUME NEW k \in 1..Len(new) PROVE new[k] = Tail(old)[k]
      BY Zenon
    <2>1. k \in 1..(n - 1) /\ k + 1 \in 1..n /\ (k + 1) - 1 = k
      BY <1>1, <1>4
    <2> QED
      BY <2>1, <1>3, <1>4, <1>5, <1>6
  <1>8. new = Tail(old)
    BY <1>4, <1>6, <1>7, SeqEqual, Zenon
  <1> QED
    BY <1>8, Zenon DEF e, nxt, old, new

-----------------------------------------------------------------------------
(* The pipe implements the queue                                           *)

\* At most PIPESIZE bytes lie between the counters.
Fits == CountOf(nread, nwrite) <= PIPESIZE

\* The tests for a full and an empty pipe count the bytes.
LEMMA Counted ==
  ASSUME TypeOK
  PROVE  /\ Full <=> CountOf(nread, nwrite) = PIPESIZE
         /\ Empty <=> CountOf(nread, nwrite) = 0
         /\ CountOf(nread, nwrite) \in Nat
<1>1. nread \in 0..WRAP-1 /\ nwrite \in 0..WRAP-1
  BY Zenon DEF TypeOK
<1>2. /\ CountOf(nread, nwrite) = IF nwrite >= nread THEN nwrite - nread ELSE nwrite + WRAP - nread
      /\ (nread + PIPESIZE) % WRAP = IF nread + PIPESIZE < WRAP THEN nread + PIPESIZE
                                     ELSE nread + PIPESIZE - WRAP
  BY <1>1, CountFacts, Zenon
<1>3. CountOf(nread, nwrite) \in Nat
  BY <1>1, <1>2, Bounds
<1>4. Empty <=> CountOf(nread, nwrite) = 0
  BY <1>1, <1>2, Bounds DEF Empty
<1>5. Full <=> CountOf(nread, nwrite) = PIPESIZE
  <2> DEFINE c == CountOf(nread, nwrite)   f == (nread + PIPESIZE) % WRAP
  <2>1. /\ c = IF nwrite >= nread THEN nwrite - nread ELSE nwrite + WRAP - nread
        /\ f = IF nread + PIPESIZE < WRAP THEN nread + PIPESIZE ELSE nread + PIPESIZE - WRAP
    BY <1>2, Zenon
  <2> HIDE DEF c, f
  <2>2. nwrite = f <=> c = PIPESIZE
    BY <2>1, <1>1, Bounds
  <2> QED
    BY <2>2, Zenon DEF c, f, Full
<1> QED
  BY <1>3, <1>4, <1>5, Zenon

\* The refinement mapping, in terms of Bytes.
LEMMA ContentsBytes ==
  ASSUME NEW d, NEW r \in 0..WRAP-1, NEW w \in 0..WRAP-1
  PROVE  [k \in 1..((w + WRAP - r) % WRAP) |-> d[((r + k - 1) % WRAP) % PIPESIZE]]
           = Bytes(d, r, CountOf(r, w))
<1>1. CountOf(r, w) \in Nat /\ r \in Nat
  BY CountFacts, Bounds
<1>2. [k \in 1..((w + WRAP - r) % WRAP) |-> d[((r + k - 1) % WRAP) % PIPESIZE]]
        = [k \in 1..CountOf(r, w) |-> d[((r + k - 1) % WRAP) % PIPESIZE]]
  BY Zenon DEF CountOf
<1>3. \A k \in 1..CountOf(r, w) : r + k - 1 = r + (k - 1)
  BY <1>1, Zenon
<1> QED
  BY <1>2, <1>3, Zenon DEF Bytes, CellAt

\* pipewrite's store is the queue's Append.
LEMMA PutStep ==
  ASSUME TypeOK, TypeOK', Fits, NEW p \in Proc, NEW b \in Byte, w_byte(p, b)
  PROVE  /\ CountOf(nread, nwrite)' = CountOf(nread, nwrite) + 1
         /\ CountOf(nread, nwrite) < PIPESIZE
         /\ Contents' = Append(Contents, b)
<1> DEFINE n == CountOf(nread, nwrite)
<1>1. nread \in 0..WRAP-1 /\ nwrite \in 0..WRAP-1 /\ nread' = nread /\ nwrite' \in 0..WRAP-1
  BY Zenon DEF TypeOK, w_byte
<1>1a. nread' \in 0..WRAP-1 /\ nwrite' \in 0..WRAP-1
  BY Zenon DEF TypeOK
<1>2. n \in Nat /\ n # PIPESIZE /\ n <= PIPESIZE
  BY Counted, Zenon DEF w_byte, Fits
<1>3. /\ n = IF nwrite >= nread THEN nwrite - nread ELSE nwrite + WRAP - nread
      /\ nwrite' = IF nwrite + 1 < WRAP THEN nwrite + 1 ELSE 0
      /\ n' = IF nwrite' >= nread' THEN nwrite' - nread' ELSE nwrite' + WRAP - nread'
  BY <1>1, CountFacts, Zenon DEF w_byte, CountOf
<1>4. n < PIPESIZE
  BY <1>2, Bounds
<1>5. n' = n + 1
  <2> HIDE DEF n
  <2> QED
    BY <1>1, <1>2, <1>3, <1>4, Bounds
<1>6. nwrite % PIPESIZE = CellAt(nread, n)
  <2>1. nread + n \in 0..(2 * WRAP - 1)
    <3> HIDE DEF n
    <3> QED
      BY <1>1, <1>2, <1>4, Bounds
  <2>2. (nread + n) % WRAP = IF nread + n < WRAP THEN nread + n ELSE nread + n - WRAP
    <3> HIDE DEF n
    <3> QED
      BY <1>1, <1>2, <2>1, ModOnce, Bounds
  <2> DEFINE f == (nread + n) % WRAP
  <2>3. f = IF nread + n < WRAP THEN nread + n ELSE nread + n - WRAP
    BY <2>2, Zenon
  <2> HIDE DEF n, f
  <2>4. f = nwrite
    BY <2>3, <1>1, <1>2, <1>3, Bounds
  <2> QED
    BY <2>4, Zenon DEF f, CellAt
<1>7. Contents = Bytes(data, nread, n)
  BY <1>1, ContentsBytes, Zenon DEF Contents
<1>8. Contents' = Bytes(data', nread, n + 1)
  <2>1. Contents' = Bytes(data', nread', n')
    BY <1>1, <1>1a, ContentsBytes, ZenonT(60) DEF Contents, CountOf
  <2> QED
    BY <2>1, <1>1, <1>5, Zenon
<1>9. /\ data \in [0..PIPESIZE-1 -> Byte \cup {Junk}]
      /\ data' = [data EXCEPT ![CellAt(nread, n)] = b]
  BY <1>6, Zenon DEF TypeOK, w_byte
<1> HIDE DEF n
<1>10. n \in 0..PIPESIZE-1 /\ b \in Byte \cup {Junk}
  BY <1>2, <1>4, Bounds
<1>11. Bytes(data', nread, n + 1) = Append(Bytes(data, nread, n), b)
  BY <1>1, <1>9, <1>10, PutBytes, ZenonT(40)
<1> QED
  BY <1>4, <1>5, <1>7, <1>8, <1>11, Zenon DEF n

\* piperead's load is the queue's Tail.
LEMMA TakeStep ==
  ASSUME TypeOK, TypeOK', Fits, ~Empty, Take, nwrite' = nwrite
  PROVE  /\ CountOf(nread, nwrite)' = CountOf(nread, nwrite) - 1
         /\ Contents # <<>>
         /\ Contents' = Tail(Contents)
<1> DEFINE n == CountOf(nread, nwrite)
<1>1. nread \in 0..WRAP-1 /\ nwrite \in 0..WRAP-1 /\ nread' \in 0..WRAP-1
  BY Zenon DEF TypeOK
<1>1a. nread' \in 0..WRAP-1 /\ nwrite' \in 0..WRAP-1
  BY Zenon DEF TypeOK
<1>2. n \in Nat /\ n # 0 /\ n <= PIPESIZE
  BY Counted, Zenon DEF Fits
<1>3. /\ n = IF nwrite >= nread THEN nwrite - nread ELSE nwrite + WRAP - nread
      /\ nread' = IF nread + 1 < WRAP THEN nread + 1 ELSE 0
      /\ n' = IF nwrite' >= nread' THEN nwrite' - nread' ELSE nwrite' + WRAP - nread'
  BY <1>1, CountFacts, Zenon DEF Take, CountOf
<1>5. n' = n - 1
  <2> HIDE DEF n
  <2> QED
    BY <1>1, <1>2, <1>3, Bounds
<1>6. nread % PIPESIZE = CellAt(nread, 0)
  <2>1. nread + 0 = nread /\ nread % WRAP = nread
    BY <1>1, Bounds
  <2> QED
    BY <2>1, Zenon DEF CellAt
<1>7. Contents = Bytes(data, nread, n)
  BY <1>1, ContentsBytes, Zenon DEF Contents
<1>8. Contents' = Bytes(data', (nread + 1) % WRAP, n - 1)
  <2>1. Contents' = Bytes(data', nread', n')
    BY <1>1, <1>1a, ContentsBytes, ZenonT(60) DEF Contents, CountOf
  <2> QED
    BY <2>1, <1>5, Zenon DEF Take
<1>9. /\ data \in [0..PIPESIZE-1 -> Byte \cup {Junk}]
      /\ data' = [data EXCEPT ![CellAt(nread, 0)] = Junk]
  BY <1>6, Zenon DEF TypeOK, Take
<1> HIDE DEF n
<1>10. n \in 1..PIPESIZE /\ Junk \in Byte \cup {Junk}
  BY <1>2, Bounds
<1>11. Bytes(data', (nread + 1) % WRAP, n - 1) = Tail(Bytes(data, nread, n))
  BY <1>1, <1>9, <1>10, GetBytes, Zenon
<1>12. Bytes(data, nread, n) # <<>>
  <2>1. Len(Bytes(data, nread, n)) = n
    BY <1>1, <1>2, <1>9, BytesSeq, ZenonT(40)
  <2> QED
    BY <2>1, <1>2, Zenon
<1> QED
  BY <1>5, <1>7, <1>8, <1>11, <1>12, Zenon DEF n

\* Only a store, a load and pipeclose touch what the mapping looks at.
LEMMA StepKinds ==
  ASSUME [Next]_vars
  PROVE  \/ \E p \in Proc, b \in Byte : w_byte(p, b)
         \/ \E p \in Proc : /\ pc[p] = "r_copy" /\ ~Empty /\ Take
                            /\ UNCHANGED <<nwrite, readopen, writeopen>>
         \/ \E p \in Proc : pipeclose(p)
         \/ UNCHANGED <<data, nread, nwrite, readopen, writeopen>>
<1> DEFINE Same == UNCHANGED <<data, nread, nwrite, readopen, writeopen>>
           Taken(p) == /\ pc[p] = "r_copy" /\ ~Empty /\ Take
                       /\ UNCHANGED <<nwrite, readopen, writeopen>>
<1>1. ASSUME NEW p, w_check(p) \/ w_full(p) \/ w_done(p) \/ r_check(p) \/ r_sleep(p) PROVE Same
  BY <1>1, Zenon DEF w_check, w_full, w_done, r_check, r_sleep, pipeVars
<1>2. ASSUME NEW p, r_byte(p) \/ r_done(p) PROVE Same \/ Taken(p)
  BY <1>2, Zenon DEF r_byte, r_done
<1>3. ASSUME NEW p, w_acquire(p) \/ r_acquire(p) \/ Close(p) \/ kill(p) PROVE Same
  BY <1>3, Zenon DEF w_acquire, r_acquire, Acquire, Close, close_read, close_write, kill, pipeVars
<1>4. ASSUME NEW p, NEW k, pipewrite(p, k) \/ piperead(p, k) PROVE Same
  BY <1>4, Zenon DEF pipewrite, piperead, Call, pipeVars
<1>5. ASSUME UNCHANGED vars PROVE Same
  BY <1>5, Zenon DEF vars, pipeVars
<1> HIDE DEF Same, Taken
<1>6. \/ \E p \in Proc, b \in Byte : w_byte(p, b)
      \/ \E p \in Proc : Taken(p)
      \/ \E p \in Proc : pipeclose(p)
      \/ Same
  BY <1>1, <1>2, <1>3, <1>4, <1>5, Zenon DEF Next, Step, TakeLock
<1> QED
  BY <1>6, Zenon DEF Same, Taken

\* No step makes the pipe overfull.
LEMMA FitsNext == IndInv /\ IndInv' /\ Fits /\ [Next]_vars => Fits'
<1> SUFFICES ASSUME IndInv, IndInv', Fits, [Next]_vars PROVE Fits'
  BY Zenon
<1>1. TypeOK /\ TypeOK' /\ CountOf(nread, nwrite) \in Nat
  BY Counted, Zenon DEF IndInv
<1>2. ASSUME NEW p \in Proc, NEW b \in Byte, w_byte(p, b) PROVE Fits'
  BY <1>1, <1>2, PutStep, Bounds DEF Fits
<1>3. ASSUME ~Empty, Take, nwrite' = nwrite PROVE Fits'
  BY <1>1, <1>3, TakeStep, Bounds DEF Fits
<1>4. ASSUME UNCHANGED <<nread, nwrite>> PROVE Fits'
  BY <1>4, Zenon DEF Fits, CountOf
<1> QED
  BY <1>2, <1>3, <1>4, StepKinds, Zenon DEF pipeclose

\* Every step of the pipe is a step of the queue or leaves it alone.
LEMMA Refines == IndInv /\ IndInv' /\ Fits /\ [Next]_vars => [Fifo!Next]_(Fifo!vars)
<1> SUFFICES ASSUME IndInv, IndInv', Fits, [Next]_vars PROVE [Fifo!Next]_(Fifo!vars)
  BY Zenon
<1>1. TypeOK /\ TypeOK'
  BY Zenon DEF IndInv
<1>2. ASSUME NEW p \in Proc, NEW b \in Byte, w_byte(p, b) PROVE Fifo!Put(b)
  <2>1. readopen = 1 /\ writeopen = 1
    BY <1>2, Zenon DEF w_byte, IndInv, Under, WriteEnd, Writing
  <2>2. Len(Contents) < PIPESIZE /\ Contents' = Append(Contents, b)
    <3>1. CountOf(nread, nwrite) < PIPESIZE /\ Contents' = Append(Contents, b)
      BY <1>1, <1>2, PutStep, Zenon
    <3>2. Len(Contents) = CountOf(nread, nwrite)
      <4>1. Contents = Bytes(data, nread, CountOf(nread, nwrite))
        BY <1>1, ContentsBytes, Zenon DEF Contents, TypeOK
      <4>2. /\ data \in [0..PIPESIZE-1 -> Byte \cup {Junk}] /\ nread \in 0..WRAP-1
            /\ CountOf(nread, nwrite) \in Nat
        BY <1>1, Counted, Zenon DEF TypeOK
      <4>3. Len(Bytes(data, nread, CountOf(nread, nwrite))) = CountOf(nread, nwrite)
        BY <4>2, BytesSeq, ZenonT(40)
      <4> QED
        BY <4>1, <4>3, Zenon
    <3> QED
      BY <3>1, <3>2, Zenon
  <2> QED
    BY <1>2, <2>1, <2>2, Zenon DEF w_byte, Fifo!Put
<1>3. ASSUME NEW p \in Proc, pc[p] = "r_copy", ~Empty, Take,
             UNCHANGED <<nwrite, readopen, writeopen>>
      PROVE  Fifo!Get
  <2>1. readopen = 1
    BY <1>3, Zenon DEF IndInv, ReadEnd, Reading
  <2>2. Contents # <<>> /\ Contents' = Tail(Contents)
    BY <1>1, <1>3, TakeStep, Zenon
  <2> QED
    BY <1>3, <2>1, <2>2, Zenon DEF Fifo!Get
<1>4. ASSUME NEW p \in Proc, pipeclose(p) PROVE Fifo!CloseRead \/ Fifo!CloseWrite
  <2>1. Contents' = Contents
    BY <1>4, Zenon DEF pipeclose, Contents
  <2>2. CASE pc[p] = "close_w"
    BY <1>4, <2>1, <2>2, Zenon DEF pipeclose, Fifo!CloseWrite, IndInv, WriteEnd
  <2>3. CASE pc[p] = "close_r"
    BY <1>4, <2>1, <2>3, Zenon DEF pipeclose, Fifo!CloseRead, IndInv, ReadEnd
  <2> QED
    BY <1>4, <2>2, <2>3, Zenon DEF pipeclose
<1>5. CASE UNCHANGED <<data, nread, nwrite, readopen, writeopen>>
  BY <1>5, Zenon DEF Fifo!vars, Contents
<1> QED
  BY <1>2, <1>3, <1>4, <1>5, StepKinds, Zenon DEF Fifo!Next

\* A new pipe is an empty queue.
LEMMA InitRefines == Init => Fits /\ Fifo!Init
<1> SUFFICES ASSUME Init PROVE Fits /\ Fifo!Init
  BY Zenon
<1>1. CountOf(nread, nwrite) = 0
  BY InitInv, Counted, Zenon DEF Init, IndInv, Empty
<1>2. nread \in 0..WRAP-1 /\ nwrite \in 0..WRAP-1
  BY InitInv, Zenon DEF IndInv, TypeOK
<1>3. Contents = Bytes(data, nread, CountOf(nread, nwrite))
  BY <1>2, ContentsBytes, Zenon DEF Contents
<1>4. Bytes(data, nread, 0) = <<>>
  BY DEF Bytes
<1> QED
  BY <1>1, <1>3, <1>4, Bounds DEF Fits, Fifo!Init, Init

\* A pipe is a bounded first-in first-out queue of bytes for all its writers and
\* readers together, for any size and any counter width the size divides (pipewrite,
\* piperead, pipeclose).
THEOREM ImplementsFifo == Spec => PipeIsFifo
<1>1. Spec => []IndInv /\ []Fits
  BY InitRefines, FitsNext, Inductive, PTL DEF Spec
<1> QED
  BY <1>1, InitRefines, Refines, PTL DEF Spec, PipeIsFifo, Fifo!Spec

=============================================================================
