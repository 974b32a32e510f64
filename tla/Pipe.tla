-------------------------------- MODULE Pipe --------------------------------
(***************************************************************************)
(* A pipe (kernel/pipe.c) shared by several processes: writers and readers *)
(* that go to sleep and are woken, are killed, and close their ends.       *)
(*                                                                         *)
(* pi->lock is held over many steps, since kill() needs only p->lock and   *)
(* falls between any two of them; sleep() and wakeup() are part of a step  *)
(* (module SleepLock).  The counters are C uints: they wrap at WRAP (2^32  *)
(* in the code).  Which files refer to the pipe is kept as the processes   *)
(* that hold an end; the last one to close an end calls pipeclose.  A byte *)
(* that has been read is forgotten: it is overwritten before its place is  *)
(* read again.                                                             *)
(***************************************************************************)
EXTENDS Naturals, Sequences

CONSTANTS Proc,
          NoProc,            \* nobody: a free lock's holder
          Readers, Writers,  \* processes that inherit the read, the write end
          Byte,
          Junk,              \* what kalloc leaves in the page
          PIPESIZE, WRAP,
          MaxN               \* bound: bytes asked for in a call

ASSUME HolderAssumption ==
  NoProc \notin Proc /\ Readers \subseteq Proc /\ Readers # {} /\ Writers \subseteq Proc /\ Writers # {}
ASSUME SizeAssumption ==
  /\ PIPESIZE \in Nat \ {0} /\ MaxN \in Nat
  /\ WRAP \in Nat /\ WRAP > PIPESIZE /\ WRAP % PIPESIZE = 0
ASSUME JunkAssumption == Junk \notin Byte

VARIABLES data, nread, nwrite, readopen, writeopen,  \* struct pipe
          freed,        \* the page went back to kfree
          lock,         \* holder of pi->lock
          fdr, fdw,     \* processes with the read, the write end open
          pc,           \* where each process is
          left,         \* n - i, of the locals of pipewrite and piperead
          asleep,       \* the channel a process sleeps on, or "no"
          killed,       \* p->killed
          unannounced   \* history: bytes were put since the last wakeup(&nread)

pipeVars == <<data, nread, nwrite, readopen, writeopen, freed>>
vars == <<pipeVars, lock, fdr, fdw, pc, left, asleep, killed, unannounced>>

TypeOK ==
  /\ data \in [0..PIPESIZE-1 -> Byte \cup {Junk}]
  /\ nread \in 0..WRAP-1 /\ nwrite \in 0..WRAP-1
  /\ readopen \in {0, 1} /\ writeopen \in {0, 1}
  /\ freed \in BOOLEAN
  /\ lock \in Proc \cup {NoProc}
  /\ fdr \subseteq Readers /\ fdw \subseteq Writers
  /\ pc \in [Proc -> {"idle", "w_acquire", "w_check", "w_put", "r_acquire", "r_check",
                      "r_sleep", "r_copy", "close_r", "close_w"}]
  /\ left \in [Proc -> 0..MaxN]
  /\ asleep \in [Proc -> {"no", "nread", "nwrite"}]
  /\ killed \in [Proc -> BOOLEAN]
  /\ unannounced \in BOOLEAN

\* pipealloc() has succeeded and the ends have been handed on by fork.
Init ==
  /\ data = [k \in 0..PIPESIZE-1 |-> Junk]
  /\ nread = 0 /\ nwrite = 0
  /\ readopen = 1 /\ writeopen = 1
  /\ freed = FALSE
  /\ lock = NoProc
  /\ fdr = Readers /\ fdw = Writers
  /\ pc = [p \in Proc |-> "idle"]
  /\ left = [p \in Proc |-> 0]
  /\ asleep = [p \in Proc |-> "no"]
  /\ killed = [p \in Proc |-> FALSE]
  /\ unannounced = FALSE

Goto(p, to) == pc' = [pc EXCEPT ![p] = to]
Empty == nread = nwrite
FullOffByOne == nwrite = (nread + PIPESIZE + 1) % WRAP   \* (mutant)
Full == nwrite = (nread + PIPESIZE) % WRAP

\* wakeup(chan).
Wakeup(chan) == [p \in Proc |-> IF asleep[p] = chan THEN "no" ELSE asleep[p]]

\* A call of size k begins; a killed process makes no more calls.
Call(p, k, to) ==
  /\ pc[p] = "idle"
  /\ ~killed[p]
  /\ left' = [left EXCEPT ![p] = k]
  /\ Goto(p, to)
  /\ UNCHANGED <<pipeVars, lock, fdr, fdw, asleep, killed, unannounced>>

\* A call ends: release(&pi->lock) and return.
Return(p) ==
  /\ lock' = NoProc
  /\ left' = [left EXCEPT ![p] = 0]
  /\ Goto(p, "idle")

\* acquire(&pi->lock), at the start of the call or after sleep().
Acquire(p, from, to) ==
  /\ pc[p] = from
  /\ asleep[p] = "no"
  /\ lock = NoProc
  /\ lock' = p
  /\ Goto(p, to)
  /\ UNCHANGED <<pipeVars, fdr, fdw, left, asleep, killed, unannounced>>

-----------------------------------------------------------------------------
(* pipewrite                                                               *)

pipewrite(p, k) == p \in fdw /\ Call(p, k, "w_acquire")
w_acquire(p) == Acquire(p, "w_acquire", "w_check")

\* The head of the loop: return -1 if nobody can read or p was killed.
w_check(p) ==
  /\ pc[p] = "w_check"
  /\ left[p] > 0
  /\ IF readopen = 0 \/ killed[p]
     THEN Return(p)
     ELSE Goto(p, "w_put") /\ UNCHANGED <<lock, left>>
  /\ UNCHANGED <<pipeVars, fdr, fdw, asleep, killed, unannounced>>

\* The pipe is full: wake the readers and sleep.
w_full(p) ==
  /\ pc[p] = "w_put"
  /\ Full
  /\ asleep' = [Wakeup("nread") EXCEPT ![p] = "nwrite"]
  /\ unannounced' = FALSE
  /\ lock' = NoProc
  /\ Goto(p, "w_acquire")
  /\ UNCHANGED <<pipeVars, fdr, fdw, left, killed>>

\* copyin of the next byte succeeds and it is stored.
w_byte(p, b) ==
  /\ pc[p] = "w_put"
  /\ ~Full
  /\ data' = [data EXCEPT ![nwrite % PIPESIZE] = b]
  /\ nwrite' = (nwrite + 1) % WRAP
  /\ left' = [left EXCEPT ![p] = @ - 1]
  /\ unannounced' = TRUE
  /\ Goto(p, "w_check")
  /\ UNCHANGED <<nread, readopen, writeopen, freed, lock, fdr, fdw, asleep, killed>>

\* The loop ends, at n bytes or because copyin fails: wakeup(&pi->nread).
w_done(p) ==
  /\ \/ pc[p] = "w_check" /\ left[p] = 0
     \/ pc[p] = "w_put" /\ ~Full
  /\ asleep' = Wakeup("nread")
  /\ unannounced' = FALSE
  /\ Return(p)
  /\ UNCHANGED <<pipeVars, fdr, fdw, killed>>

-----------------------------------------------------------------------------
(* piperead                                                                *)

piperead(p, k) == p \in fdr /\ Call(p, k, "r_acquire")
r_acquire(p) == Acquire(p, "r_acquire", "r_check")

\* The while loop's condition, and its look at p->killed.
r_check(p) ==
  /\ pc[p] = "r_check"
  /\ IF Empty /\ writeopen = 1
     THEN IF killed[p]
          THEN Return(p)
          ELSE Goto(p, "r_sleep") /\ UNCHANGED <<lock, left>>
     ELSE Goto(p, "r_copy") /\ UNCHANGED <<lock, left>>
  /\ UNCHANGED <<pipeVars, fdr, fdw, asleep, killed, unannounced>>

r_sleep(p) ==
  /\ pc[p] = "r_sleep"
  /\ asleep' = [asleep EXCEPT ![p] = "nread"]
  /\ lock' = NoProc
  /\ Goto(p, "r_acquire")
  /\ UNCHANGED <<pipeVars, fdr, fdw, left, killed, unannounced>>

\* pi->data[pi->nread++ % PIPESIZE].
Take ==
  /\ nread' = (nread + 1) % WRAP
  /\ data' = [data EXCEPT ![nread % PIPESIZE] = Junk]

\* The next byte is taken and copied out.
r_byte(p) ==
  /\ pc[p] = "r_copy"
  /\ left[p] > 0
  /\ ~Empty
  /\ Take
  /\ left' = [left EXCEPT ![p] = @ - 1]
  /\ UNCHANGED <<nwrite, readopen, writeopen, freed, lock, fdr, fdw, pc, asleep,
                 killed, unannounced>>

\* The loop ends: n bytes, an empty pipe, or a byte whose copyout failed and
\* which is gone.
r_done(p) ==
  /\ pc[p] = "r_copy"
  /\ \/ (left[p] = 0 \/ Empty) /\ UNCHANGED <<nread, data>>
     \/ left[p] > 0 /\ ~Empty /\ Take
  /\ asleep' = Wakeup("nwrite")
  /\ Return(p)
  /\ UNCHANGED <<nwrite, readopen, writeopen, freed, fdr, fdw, killed, unannounced>>

-----------------------------------------------------------------------------
(* Closing and killing                                                     *)

\* (mutant) the last reference to the read end is dropped without pipeclose.
close_readDropped(p) ==
  /\ pc[p] = "idle"
  /\ p \in fdr
  /\ fdr' = fdr \ {p}
  /\ UNCHANGED <<pipeVars, lock, fdw, pc, left, asleep, killed, unannounced>>

\* fileclose() of one end; the last reference goes on to pipeclose().
close_read(p) ==
  /\ pc[p] = "idle"
  /\ p \in fdr
  /\ fdr' = fdr \ {p}
  /\ Goto(p, IF fdr = {p} THEN "close_r" ELSE "idle")
  /\ UNCHANGED <<pipeVars, lock, fdw, left, asleep, killed, unannounced>>

close_write(p) ==
  /\ pc[p] = "idle"
  /\ p \in fdw
  /\ fdw' = fdw \ {p}
  /\ Goto(p, IF fdw = {p} THEN "close_w" ELSE "idle")
  /\ UNCHANGED <<pipeVars, lock, fdr, left, asleep, killed, unannounced>>

\* (mutant) pipeclose frees the page when either end is closed.
pipecloseEither(p) ==
  /\ lock = NoProc
  /\ \/ /\ pc[p] = "close_w"
        /\ writeopen' = 0
        /\ asleep' = Wakeup("nread")
        /\ UNCHANGED readopen
     \/ /\ pc[p] = "close_r"
        /\ readopen' = 0
        /\ asleep' = Wakeup("nwrite")
        /\ UNCHANGED writeopen
  /\ freed' = (readopen' = 0 \/ writeopen' = 0)
  /\ Goto(p, "idle")
  /\ UNCHANGED <<data, nread, nwrite, lock, fdr, fdw, left, killed, unannounced>>

\* pipeclose(pi, writable).
pipeclose(p) ==
  /\ lock = NoProc
  /\ \/ /\ pc[p] = "close_w"
        /\ writeopen' = 0
        /\ asleep' = Wakeup("nread")
        /\ unannounced' = FALSE
        /\ UNCHANGED readopen
     \/ /\ pc[p] = "close_r"
        /\ readopen' = 0
        /\ asleep' = Wakeup("nwrite")
        /\ UNCHANGED <<writeopen, unannounced>>
  /\ freed' = (readopen' = 0 /\ writeopen' = 0)
  /\ Goto(p, "idle")
  /\ UNCHANGED <<data, nread, nwrite, lock, fdr, fdw, left, killed>>

\* kill(): the flag, and out of sleep.
kill(p) ==
  /\ ~killed[p]
  /\ killed' = [killed EXCEPT ![p] = TRUE]
  /\ asleep' = [asleep EXCEPT ![p] = "no"]
  /\ UNCHANGED <<pipeVars, lock, fdr, fdw, pc, left, unannounced>>

-----------------------------------------------------------------------------
TakeLock(p) == w_acquire(p) \/ r_acquire(p) \/ pipeclose(p)
Step(p) ==
  \/ w_check(p) \/ w_full(p) \/ (\E b \in Byte : w_byte(p, b)) \/ w_done(p)
  \/ r_check(p) \/ r_sleep(p) \/ r_byte(p) \/ r_done(p)
Close(p) == close_read(p) \/ close_write(p)

Next ==
  \E p \in Proc :
     \/ Step(p) \/ TakeLock(p) \/ Close(p) \/ kill(p)
     \/ \E k \in 0..MaxN : pipewrite(p, k) \/ piperead(p, k)

Spec == Init /\ [][Next]_vars

-----------------------------------------------------------------------------
(* Properties                                                              *)

\* No sleeper is forgotten: once pi->lock is free, a writer sleeps only on a
\* full pipe that is still read, and a reader only on an empty one that is
\* still written to, and there is a process that can still close the other
\* end if it does nothing else.  The exception is a writer that was killed between two
\* bytes, which leaves without a wakeup (pipe.c:84-87): its bytes lie there
\* until the next write or close.
NoLostWakeup ==
  lock = NoProc => \A p \in Proc :
     /\ asleep[p] = "nwrite" =>
          /\ Full /\ readopen = 1
          /\ fdr # {} \/ \E q \in Proc : pc[q] = "close_r"
     /\ asleep[p] = "nread" =>
          /\ Empty \/ unannounced
          /\ writeopen = 1
          /\ fdw # {} \/ \E q \in Proc : pc[q] = "close_w"

\* The page is freed once both ends are closed, and then nobody is inside the
\* pipe, waits for its lock or will close it again.
NoUseAfterFree ==
  /\ TypeOK
  /\ freed => /\ \A p \in Proc : pc[p] = "idle" /\ asleep[p] = "no"
              /\ fdr = {} /\ fdw = {} /\ lock = NoProc

\* The bytes in the pipe, oldest first.
Contents ==
  [k \in 1..((nwrite + WRAP - nread) % WRAP) |-> data[((nread + k - 1) % WRAP) % PIPESIZE]]

Fifo == INSTANCE ByteFifo WITH Size <- PIPESIZE, queue <- Contents,
                               reading <- readopen, writing <- writeopen

\* A pipe is a bounded first-in first-out queue of bytes for all its writers
\* and readers together, also after nread and nwrite have wrapped around.
PipeIsFifo == Fifo!Spec

=============================================================================
