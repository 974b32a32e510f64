-------------------------------- MODULE Log ---------------------------------
(***************************************************************************)
(* The write-ahead log of kernel/log.c over the buffer cache and the disk, *)
(* with crashes.                                                           *)
(*                                                                         *)
(* Kernel threads run file-system calls: begin_op, log_writes, end_op; the *)
(* last end_op of a group commits it.  A critical section of log.lock is   *)
(* one step; sleep(&log, &log.lock) releases the lock and sleeps in that   *)
(* step (module SleepLock shows why it may be taken so).  Every bwrite of  *)
(* the commit and of the recovery is a step of its own, so that a crash    *)
(* falls between any two of them, and one that falls into the middle of a  *)
(* data block leaves it Torn.  The header's used part fits a 512-byte      *)
(* sector and is written whole.                                            *)
(*                                                                         *)
(* Buffers of log blocks and of the header are always written through and  *)
(* need no cached copy here.  The buffer of a home block may be recycled   *)
(* whenever its reference count is zero, as bget does.                     *)
(***************************************************************************)
EXTENDS Naturals, Sequences, FiniteSets, Functions

CONSTANTS Proc,         \* kernel threads that run file-system calls
          Block,        \* home blocks of the file system
          Val,          \* contents of a block
          Zero,         \* the contents mkfs gives to the log's blocks
          Torn,         \* a block whose write a crash cut short
          Absent,       \* no buffer caches the block
          MAXOPBLOCKS,  \* blocks a call may write, as begin_op reserves them
          LOGSIZE,      \* data blocks of the log, as begin_op counts them
          Nlog,         \* sb.nlog: blocks of the on-disk log, header included
          OpBlocks      \* distinct blocks a call really writes

ASSUME SizesAssumption ==
  /\ MAXOPBLOCKS \in Nat /\ LOGSIZE \in Nat /\ OpBlocks \in Nat
  /\ Nlog \in Nat \ {0}
\* param.h and mkfs: LOGSIZE is 3 * MAXOPBLOCKS, nlog is LOGSIZE; and a call writes
\* fewer blocks than it reserves.
ASSUME ReservationAssumption ==
  OpBlocks < MAXOPBLOCKS /\ MAXOPBLOCKS < LOGSIZE /\ LOGSIZE <= Nlog
ASSUME FiniteAssumption == IsFiniteSet(Proc)
ASSUME ValuesAssumption ==
  /\ Zero \in Val
  /\ Torn \notin Val /\ Absent \notin Val /\ Torn # Absent

VARIABLES disk,         \* home blocks on the disk
          hdr,          \* block numbers of the on-disk header, n of them
          dlog,         \* the on-disk log's data blocks
          cache,        \* contents of the cached home blocks, or Absent
          pin,          \* references that bpin added to a block's buffer
          lh,           \* log.lh: the blocks of the current transaction
          outstanding,  \* log.outstanding
          committing,   \* log.committing
          pc,           \* where each thread is
          wrote,        \* the blocks a thread's current call has written
          tail,         \* the loop index of write_log / install_trans
          boot,         \* where the recovery is, or "up"
          panicked      \* a panic() of log.c was reached

diskVars == <<disk, hdr, dlog>>
memVars == <<cache, pin, lh, outstanding, committing, pc, wrote, tail, boot>>
vars == <<diskVars, memVars, panicked>>

CommitPC == {"write_log", "write_head", "install_trans", "clear_head", "committed"}
PC == {"off", "idle", "begin", "sleep", "op"} \cup CommitPC

TypeOK ==
  /\ disk \in [Block -> Val \cup {Torn}]
  /\ hdr \in Seq(Block)
  /\ dlog \in [1..Nlog-1 -> Val \cup {Torn}]
  /\ cache \in [Block -> Val \cup {Torn, Absent}]
  /\ pin \in [Block -> Nat]
  /\ lh \in Seq(Block)
  /\ outstanding \in Nat
  /\ committing \in BOOLEAN
  /\ pc \in [Proc -> PC]
  /\ wrote \in [Proc -> SUBSET Block]
  /\ tail \in Nat
  /\ boot \in {"read_head", "install_trans", "clear_head", "up"}
  /\ panicked \in BOOLEAN

\* What bread(b) yields: the cached copy, else the disk's block.
Bread(b) == IF cache[b] = Absent THEN disk[b] ELSE cache[b]

\* The memory of a machine that has just started.
Init ==
  /\ disk \in [Block -> Val]
  /\ hdr = <<>>
  /\ dlog = [i \in 1..Nlog-1 |-> Zero]
  /\ cache = [b \in Block |-> Absent]
  /\ pin = [b \in Block |-> 0]
  /\ lh = <<>>
  /\ outstanding = 0
  /\ committing = FALSE
  /\ pc = [p \in Proc |-> "off"]
  /\ wrote = [p \in Proc |-> {}]
  /\ tail = 0
  /\ boot = "read_head"
  /\ panicked = FALSE

-----------------------------------------------------------------------------
(* File-system calls                                                       *)

\* wakeup(&log): every thread asleep in begin_op runs its loop again.
Wakeup(f) == [p \in Proc |-> IF f[p] = "sleep" THEN "begin" ELSE f[p]]

\* (mutant) begin_op forgets the call it admits.
MustWaitOffByOne == committing \/ Len(lh) + outstanding * MAXOPBLOCKS > LOGSIZE

\* The two conditions under which begin_op sleeps.
MustWait ==
  \/ committing
  \/ Len(lh) + (outstanding + 1) * MAXOPBLOCKS > LOGSIZE

begin_op(p) ==
  /\ pc[p] \in {"idle", "begin"}
  /\ IF MustWait
     THEN /\ pc' = [pc EXCEPT ![p] = "sleep"]
          /\ UNCHANGED outstanding
     ELSE /\ pc' = [pc EXCEPT ![p] = "op"]
          /\ outstanding' = outstanding + 1
  /\ UNCHANGED <<diskVars, cache, pin, lh, committing, wrote, tail, boot, panicked>>

\* The panics at the head of log_write.
TooBig == Len(lh) >= LOGSIZE \/ Len(lh) >= Nlog - 1 \/ outstanding < 1

\* (mutant) log_write without bpin.
log_writeUnpinned(p, b, v) ==
  /\ pc[p] = "op"
  /\ Cardinality(wrote[p] \cup {b}) <= OpBlocks
  /\ wrote' = [wrote EXCEPT ![p] = @ \cup {b}]
  /\ cache' = [cache EXCEPT ![b] = v]
  /\ panicked' = TooBig
  /\ lh' = IF TooBig \/ b \in Range(lh) THEN lh ELSE Append(lh, b)
  /\ UNCHANGED <<diskVars, pin, outstanding, committing, pc, tail, boot>>

\* The caller has read the block, changed its data to v and calls log_write.
log_write(p, b, v) ==
  /\ pc[p] = "op"
  /\ Cardinality(wrote[p] \cup {b}) <= OpBlocks
  /\ wrote' = [wrote EXCEPT ![p] = @ \cup {b}]
  /\ cache' = [cache EXCEPT ![b] = v]
  /\ panicked' = TooBig
  /\ IF TooBig \/ b \in Range(lh)
     THEN UNCHANGED <<lh, pin>>
     ELSE /\ lh' = Append(lh, b)
          /\ pin' = [pin EXCEPT ![b] = @ + 1]
  /\ UNCHANGED <<diskVars, outstanding, committing, pc, tail, boot>>

end_op(p) ==
  /\ pc[p] = "op"
  /\ outstanding' = outstanding - 1
  /\ panicked' = committing
  /\ tail' = 1
  /\ wrote' = [wrote EXCEPT ![p] = {}]
  /\ IF outstanding = 1
     THEN /\ committing' = TRUE
          /\ pc' = [pc EXCEPT ![p] = IF lh = <<>> THEN "committed" ELSE "write_log"]
     ELSE /\ pc' = Wakeup([pc EXCEPT ![p] = "idle"])
          /\ UNCHANGED committing
  /\ UNCHANGED <<diskVars, cache, pin, lh, boot>>

-----------------------------------------------------------------------------
(* The commit, run by the thread whose end_op was the last                 *)

\* (mutant) commit writes the header before the log's blocks.
write_logHeaderFirst(p) ==
  /\ pc[p] = "write_log"
  /\ hdr' = lh
  /\ cache' = [cache EXCEPT ![lh[tail]] = Bread(lh[tail])]
  /\ dlog' = [dlog EXCEPT ![tail] = Bread(lh[tail])]
  /\ IF tail < Len(lh)
     THEN tail' = tail + 1 /\ UNCHANGED pc
     ELSE tail' = 1 /\ pc' = [pc EXCEPT ![p] = "write_head"]
  /\ UNCHANGED <<disk, pin, lh, outstanding, committing, wrote, boot, panicked>>

write_log(p) ==
  /\ pc[p] = "write_log"
  /\ cache' = [cache EXCEPT ![lh[tail]] = Bread(lh[tail])]
  /\ dlog' = [dlog EXCEPT ![tail] = Bread(lh[tail])]
  /\ IF tail < Len(lh)
     THEN tail' = tail + 1 /\ UNCHANGED pc
     ELSE tail' = 1 /\ pc' = [pc EXCEPT ![p] = "write_head"]
  /\ UNCHANGED <<disk, hdr, pin, lh, outstanding, committing, wrote, boot, panicked>>

\* write_head: the real commit.
write_head(p) ==
  /\ pc[p] = "write_head"
  /\ hdr' = lh
  /\ pc' = [pc EXCEPT ![p] = "install_trans"]
  /\ UNCHANGED <<disk, dlog, cache, pin, lh, outstanding, committing, wrote,
                 tail, boot, panicked>>

\* One turn of install_trans' loop, without the unpinning.
InstallBlock ==
  /\ disk' = [disk EXCEPT ![lh[tail]] = dlog[tail]]
  /\ cache' = [cache EXCEPT ![lh[tail]] = dlog[tail]]

install_trans(p) ==
  /\ pc[p] = "install_trans"
  /\ InstallBlock
  /\ pin' = [pin EXCEPT ![lh[tail]] = @ - 1]
  /\ IF tail < Len(lh)
     THEN tail' = tail + 1 /\ UNCHANGED pc
     ELSE tail' = 1 /\ pc' = [pc EXCEPT ![p] = "clear_head"]
  /\ UNCHANGED <<hdr, dlog, lh, outstanding, committing, wrote, boot, panicked>>

\* log.lh.n = 0; write_head(): erase the transaction from the log.
clear_head(p) ==
  /\ pc[p] = "clear_head"
  /\ lh' = <<>>
  /\ hdr' = <<>>
  /\ pc' = [pc EXCEPT ![p] = "committed"]
  /\ UNCHANGED <<disk, dlog, cache, pin, outstanding, committing, wrote, tail,
                 boot, panicked>>

\* (mutant) end_op without its wakeup after the commit.
end_commitSilent(p) ==
  /\ pc[p] = "committed"
  /\ committing' = FALSE
  /\ pc' = [pc EXCEPT ![p] = "idle"]
  /\ UNCHANGED <<diskVars, cache, pin, lh, outstanding, wrote, tail, boot, panicked>>

\* The second critical section of end_op, after commit().
end_commit(p) ==
  /\ pc[p] = "committed"
  /\ committing' = FALSE
  /\ pc' = Wakeup([pc EXCEPT ![p] = "idle"])
  /\ UNCHANGED <<diskVars, cache, pin, lh, outstanding, wrote, tail, boot, panicked>>

-----------------------------------------------------------------------------
(* The buffer cache                                                        *)

\* Another thread reads the block (readi outside of a transaction).
Fetch(b) ==
  /\ boot = "up"
  /\ cache[b] = Absent
  /\ cache' = [cache EXCEPT ![b] = disk[b]]
  /\ UNCHANGED <<diskVars, pin, lh, outstanding, committing, pc, wrote, tail,
                 boot, panicked>>

\* bget recycles an unreferenced buffer for another block.
Recycle(b) ==
  /\ pin[b] = 0
  /\ cache[b] # Absent
  /\ cache' = [cache EXCEPT ![b] = Absent]
  /\ UNCHANGED <<diskVars, pin, lh, outstanding, committing, pc, wrote, tail,
                 boot, panicked>>

-----------------------------------------------------------------------------
(* Crash and recovery                                                      *)

\* The data block whose write is under way may be torn by the crash.
TornWrites ==
  \/ UNCHANGED <<disk, dlog>>
  \/ /\ \E p \in Proc : pc[p] = "write_log"
     /\ dlog' = [dlog EXCEPT ![tail] = Torn]
     /\ UNCHANGED disk
  \/ /\ boot = "install_trans" \/ \E p \in Proc : pc[p] = "install_trans"
     /\ disk' = [disk EXCEPT ![lh[tail]] = Torn]
     /\ UNCHANGED dlog

Crash ==
  /\ TornWrites
  /\ UNCHANGED hdr
  /\ cache' = [b \in Block |-> Absent]
  /\ pin' = [b \in Block |-> 0]
  /\ lh' = <<>>
  /\ outstanding' = 0
  /\ committing' = FALSE
  /\ pc' = [p \in Proc |-> "off"]
  /\ wrote' = [p \in Proc |-> {}]
  /\ tail' = 0
  /\ boot' = "read_head"
  /\ panicked' = FALSE

\* initlog, up to recover_from_log's read_head.
read_head ==
  /\ boot = "read_head"
  /\ lh' = hdr
  /\ tail' = 1
  /\ boot' = IF hdr = <<>> THEN "clear_head" ELSE "install_trans"
  /\ UNCHANGED <<diskVars, cache, pin, outstanding, committing, pc, wrote, panicked>>

recover_install ==
  /\ boot = "install_trans"
  /\ InstallBlock
  /\ IF tail < Len(lh)
     THEN tail' = tail + 1 /\ UNCHANGED boot
     ELSE tail' = 1 /\ boot' = "clear_head"
  /\ UNCHANGED <<hdr, dlog, pin, lh, outstanding, committing, pc, wrote, panicked>>

\* The log is cleared, fsinit returns and processes may run.
recover_clear ==
  /\ boot = "clear_head"
  /\ lh' = <<>>
  /\ hdr' = <<>>
  /\ boot' = "up"
  /\ pc' = [p \in Proc |-> "idle"]
  /\ UNCHANGED <<disk, dlog, cache, pin, outstanding, committing, wrote, tail, panicked>>

-----------------------------------------------------------------------------
Commit(p) ==
  \/ write_log(p) \/ write_head(p) \/ install_trans(p) \/ clear_head(p)
  \/ end_commit(p)

Recovery == read_head \/ recover_install \/ recover_clear

Next ==
  \/ Crash
  \/ /\ ~panicked
     /\ \/ \E p \in Proc : begin_op(p) \/ end_op(p) \/ Commit(p)
        \/ \E p \in Proc, b \in Block, v \in Val : log_write(p, b, v)
        \/ \E b \in Block : Fetch(b) \/ Recycle(b)
        \/ Recovery

Spec == Init /\ [][Next]_vars

\* A call that has begun runs to its end_op and through the commit, and a
\* woken thread runs its loop again: the scheduler runs every runnable thread
\* and every disk write completes.  Nobody is made to start a call or to write.
Fairness ==
  /\ WF_vars(~panicked /\ Recovery)
  /\ \A p \in Proc :
        /\ WF_vars(~panicked /\ pc[p] = "begin" /\ begin_op(p))
        /\ WF_vars(~panicked /\ (end_op(p) \/ Commit(p)))

FairSpec == Spec /\ Fairness

-----------------------------------------------------------------------------
(* Properties                                                              *)

\* log.c:12-16: a commit runs only while no file-system call is active, and
\* only one thread runs it; so the loops of write_log and install_trans see
\* neither a half-done call nor a changing log.lh.
CommitAlone ==
  \A p \in Proc : pc[p] \in CommitPC =>
     /\ committing /\ outstanding = 0
     /\ \A q \in Proc \ {p} : pc[q] \in {"idle", "begin", "sleep"}

\* log_write's bpin keeps the only copy of a logged block in the cache until
\* install_trans has written it home: a buffer that may be recycled holds what
\* the disk holds (a kernel that panicked in log_write stops with its buffer
\* referenced, and recycles nothing).
RecyclableIsClean ==
  \A b \in Block : ~panicked /\ pin[b] = 0 /\ cache[b] # Absent => cache[b] = disk[b]

\* None of log.c's panics is reached: begin_op's reservation keeps every
\* log_write of the admitted calls below log_write's limits.  Nor does the cache
\* run out of buffers: bpin and bunpin balance over begin_op ... commit, so that
\* outside of a commit only the blocks of the transaction are pinned.
NoPanic ==
  /\ ~panicked
  /\ (boot = "up" /\ \A p \in Proc : pc[p] \notin CommitPC) =>
        \A b \in Block : pin[b] = IF b \in Range(lh) THEN 1 ELSE 0

\* What recovery would make of the disk as it is now: the home blocks, with
\* the logged copies over them when the header holds a transaction.
Recovered ==
  [b \in Block |-> IF b \in Range(hdr)
                   THEN dlog[CHOOSE i \in DOMAIN hdr : hdr[i] = b]
                   ELSE disk[b]]

\* What a running call sees; before the file system is up nobody looks.
Memory == IF boot = "up" THEN [b \in Block |-> Bread(b)] ELSE Recovered

\* The calls between begin_op and end_op.
Active == {p \in Proc : pc[p] = "op"}

Abstract == INSTANCE AtomicDisk WITH
  durable <- Recovered, memory <- Memory, active <- Active, up <- (boot = "up")

\* The file system sees an atomic disk: a crash at any point, in the middle of
\* the commit, of a block's write or of an earlier recovery, leaves the state
\* after the last committed group of calls, whole.
CrashAtomicity == Abstract!Spec

\* begin_op's sleepers are not forgotten: end_op's and the commit's wakeup
\* reach every thread asleep on &log, whoever ends last.
SleepersWoken == \A p \in Proc : (pc[p] = "sleep") ~> (pc[p] # "sleep")

=============================================================================
