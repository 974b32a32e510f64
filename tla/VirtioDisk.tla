----------------------------- MODULE VirtioDisk -----------------------------
(***************************************************************************)
(* The disk driver, kernel/virtio_disk.c, and the device it shares its     *)
(* rings with.                                                             *)
(*                                                                         *)
(* Threads call virtio_disk_rw, each for the buffer it has locked; the     *)
(* device takes requests off the avail ring, serves them in any order and  *)
(* reports them on the used ring while driver code runs; its interrupt     *)
(* runs virtio_disk_intr.  A stretch of driver code under vdisk_lock is    *)
(* one step, except where the device may come between: after the avail     *)
(* ring's entry is written and before its index is, and between the turns  *)
(* of the interrupt handler's loop.  The ring indices are uint16s: they    *)
(* wrap at IDX.  An entry of a ring, or of disk.ops, that has been read    *)
(* and will be written before it is read again is forgotten.  The device's *)
(* actions follow the virtio specification the code quotes, as far as the  *)
(* code relies on it.                                                      *)
(*                                                                         *)
(* This is the lower half of the disk; its callers, and the properties of  *)
(* the whole, are in Bio.                                                  *)
(***************************************************************************)
EXTENDS Integers, FiniteSets, FiniteSetsExt

CONSTANTS Thread, Nobody,  \* Nobody holds no lock
          Block, NoBlock,  \* dev and blockno; NoBlock is what binit leaves
          Val,             \* contents of a block
          NBUF,            \* buffers in the cache
          Intr,            \* the interrupt handler, as holder of vdisk_lock
          Nums,            \* what NUM may be: descriptors, and entries of each ring
          IDX              \* where ring indices wrap

ASSUME NbufAssumption == NBUF \in Nat \ {0}
ASSUME NumAssumption == Nums \subseteq Nat \ {0} /\ IDX \in Nat \ {0} /\ \A n \in Nums : IDX % n = 0
ASSUME NameAssumption == NoBlock \notin Block /\ {Nobody, Intr} \cap Thread = {}

Buf == 1..NBUF
NoBuf == 0
Null == -1          \* no VRING_DESC_F_NEXT, or an entry that holds nothing
NoOp == [write |-> FALSE, sector |-> NoBlock]

VARIABLES NUM,        \* the constant NUM
          free,       \* disk.free
          next,       \* desc[d].next if its NEXT flag is set
          addr,       \* the buffer desc[d].addr points to
          op,         \* disk.ops: type and sector
          infob,      \* disk.info[d].b
          status,     \* disk.info[d].status
          ring,       \* avail->ring
          availIdx,   \* avail->idx
          usedRing,   \* used->ring
          usedIdx,    \* used->idx, the device's
          used_idx,   \* disk.used_idx, the driver's
          seen,       \* how far the device has read the avail ring
          inflight,   \* requests the device works on
          isr,        \* the device's interrupt status
          vdisk_lock, \* its holder
          rw,         \* where each thread is in virtio_disk_rw
          arg, write, \* the arguments of virtio_disk_rw
          head,       \* idx[0], a local of virtio_disk_rw
          asleep,     \* the channel a thread sleeps on, or "no"
          bdisk,      \* b->disk
          blockno,    \* b->blockno
          data,       \* b->data
          platter,    \* the disk's blocks
          panicked

Desc == 0..NUM-1
descVars == <<NUM, free, next, addr, op, infob>>
devVars == <<usedRing, usedIdx, seen, inflight, platter>>
driverVars == <<descVars, status, ring, availIdx, devVars, used_idx, isr, vdisk_lock, rw, arg, write,
                head, asleep, bdisk>>

DriverTypeOK ==
  /\ NUM \in Nums
  /\ free \in [Desc -> {0, 1}]
  /\ next \in [Desc -> Desc \cup {Null}]
  /\ addr \in [Desc -> Buf \cup {NoBuf}]
  /\ op \in [Desc -> [write : BOOLEAN, sector : Block \cup {NoBlock}]]
  /\ infob \in [Desc -> Buf \cup {NoBuf}]
  /\ status \in [Desc -> {0, 255}]
  /\ ring \in [Desc -> Desc \cup {Null}]
  /\ usedRing \in [Desc -> Desc \cup {Null}]
  /\ {availIdx, usedIdx, used_idx, seen} \subseteq 0..IDX-1
  /\ inflight \subseteq Desc
  /\ isr \in BOOLEAN
  /\ vdisk_lock \in Thread \cup {Nobody, Intr}
  /\ rw \in [Thread -> {"idle", "alloc", "publish", "wait"}]
  /\ arg \in [Thread -> Buf \cup {NoBuf}]
  /\ write \in [Thread -> BOOLEAN]
  /\ head \in [Thread -> Desc \cup {Null}]
  /\ asleep \in [Thread -> {"no", "free", "buf"}]
  /\ bdisk \in [Buf -> {0, 1}]
  /\ platter \in [Block -> Val]

\* virtio_disk_init(): the pages are zeroed, all descriptors are free.
virtio_disk_init ==
  /\ NUM \in Nums
  /\ free = [d \in Desc |-> 1]
  /\ next = [d \in Desc |-> Null]
  /\ addr = [d \in Desc |-> NoBuf]
  /\ op = [d \in Desc |-> NoOp]
  /\ infob = [d \in Desc |-> NoBuf]
  /\ status = [d \in Desc |-> 0]
  /\ ring = [d \in Desc |-> Null] /\ availIdx = 0
  /\ usedRing = [d \in Desc |-> Null] /\ usedIdx = 0 /\ used_idx = 0
  /\ seen = 0 /\ inflight = {} /\ isr = FALSE
  /\ vdisk_lock = Nobody
  /\ rw = [t \in Thread |-> "idle"]
  /\ arg = [t \in Thread |-> NoBuf]
  /\ write = [t \in Thread |-> FALSE]
  /\ head = [t \in Thread |-> Null]
  /\ asleep = [t \in Thread |-> "no"]
  /\ bdisk = [c \in Buf |-> 0]
  /\ platter \in [Block -> Val]

\* (mutant) free_desc without its wakeup.
WakeupNobody == asleep

\* wakeup(&disk.free[0]).
WakeupFree == [t \in Thread |-> IF asleep[t] = "free" THEN "no" ELSE asleep[t]]

-----------------------------------------------------------------------------
(* virtio_disk_rw                                                          *)

\* The call, for thread t's buffer c: what is left of the step is the caller's.
virtio_disk_rw(t, c, w) ==
  /\ rw' = [rw EXCEPT ![t] = "alloc"]
  /\ arg' = [arg EXCEPT ![t] = c]
  /\ write' = [write EXCEPT ![t] = w]
  /\ UNCHANGED <<descVars, status, ring, availIdx, devVars, used_idx, isr, vdisk_lock, head,
                 asleep, bdisk>>

Free == {d \in Desc : free[d] = 1}
\* The three descriptors alloc3_desc takes: the lowest free ones, in order.
Idx0 == Min(Free)
Idx1 == Min(Free \ {Idx0})
Idx2 == Min(Free \ {Idx0, Idx1})

\* alloc3_desc fails: the descriptors it took go back one by one, each with a
\* wakeup of the other waiters; then sleep.
alloc_fails(t) ==
  /\ rw[t] = "alloc"
  /\ asleep[t] = "no"
  /\ vdisk_lock = Nobody
  /\ Cardinality(Free) < 3
  /\ asleep' = [IF Free = {} THEN asleep ELSE WakeupFree EXCEPT ![t] = "free"]
  /\ UNCHANGED <<descVars, status, ring, availIdx, devVars, used_idx, isr, vdisk_lock, rw,
                 arg, write, head, bdisk, data, panicked>>

\* alloc3_desc succeeds: format the descriptors, record the buffer, and put
\* the chain's head into the avail ring, at an index the device has not yet
\* been told.
submit(t) ==
  /\ rw[t] = "alloc"
  /\ asleep[t] = "no"
  /\ vdisk_lock = Nobody
  /\ Cardinality(Free) >= 3
  /\ free' = [free EXCEPT ![Idx0] = 0, ![Idx1] = 0, ![Idx2] = 0]
  /\ op' = [op EXCEPT ![Idx0] = [write |-> write[t], sector |-> blockno[arg[t]]]]
  /\ next' = [next EXCEPT ![Idx0] = Idx1, ![Idx1] = Idx2, ![Idx2] = Null]
  /\ addr' = [addr EXCEPT ![Idx1] = arg[t]]
  /\ status' = [status EXCEPT ![Idx0] = 255]
  /\ bdisk' = [bdisk EXCEPT ![arg[t]] = 1]
  /\ infob' = [infob EXCEPT ![Idx0] = arg[t]]
  /\ ring' = [ring EXCEPT ![availIdx % NUM] = Idx0]
  /\ head' = [head EXCEPT ![t] = Idx0]
  /\ vdisk_lock' = t
  /\ rw' = [rw EXCEPT ![t] = "publish"]
  /\ UNCHANGED <<NUM, availIdx, devVars, used_idx, isr, arg, write, asleep, data, panicked>>

\* avail->idx += 1; notify the device; sleep until b->disk is 0.
publish(t) ==
  /\ rw[t] = "publish"
  /\ availIdx' = (availIdx + 1) % IDX
  /\ asleep' = [asleep EXCEPT ![t] = "buf"]
  /\ vdisk_lock' = Nobody
  /\ rw' = [rw EXCEPT ![t] = "wait"]
  /\ UNCHANGED <<descVars, status, ring, devVars, used_idx, isr, arg, write, head, bdisk,
                 data, panicked>>

\* The condition of the loop around sleep.
DoneAnyway(t) == TRUE                                     \* (mutant) "if" for "while"
Done(t) == bdisk[arg[t]] = 0

\* Woken, but the request is not done: sleep again.
wait_more(t) ==
  /\ rw[t] = "wait"
  /\ asleep[t] = "no"
  /\ vdisk_lock = Nobody
  /\ ~Done(t)
  /\ asleep' = [asleep EXCEPT ![t] = "buf"]
  /\ UNCHANGED <<descVars, status, ring, availIdx, devVars, used_idx, isr, vdisk_lock, rw,
                 arg, write, head, bdisk, data, panicked>>

\* The descriptors that free_chain(i) visits.
Chain(i) ==
  {i} \cup (IF next[i] = Null THEN {} ELSE
            {next[i]} \cup (IF next[next[i]] = Null THEN {} ELSE {next[next[i]]}))

\* The request is done: free_chain, and return.
finish(t) ==
  LET chain == Chain(head[t]) IN
  /\ rw[t] = "wait"
  /\ asleep[t] = "no"
  /\ vdisk_lock = Nobody
  /\ Done(t)
  /\ infob' = [infob EXCEPT ![head[t]] = NoBuf]
  /\ panicked' = \E d \in chain : free[d] = 1
  /\ free' = [d \in Desc |-> IF d \in chain THEN 1 ELSE free[d]]
  /\ next' = [d \in Desc |-> IF d \in chain THEN Null ELSE next[d]]
  /\ addr' = [d \in Desc |-> IF d \in chain THEN NoBuf ELSE addr[d]]
  /\ asleep' = WakeupFree
  /\ op' = [op EXCEPT ![head[t]] = NoOp]
  /\ head' = [head EXCEPT ![t] = Null]
  /\ rw' = [rw EXCEPT ![t] = "idle"]
  /\ write' = [write EXCEPT ![t] = FALSE]
  /\ arg' = [arg EXCEPT ![t] = NoBuf]
  /\ UNCHANGED <<NUM, status, ring, availIdx, devVars, used_idx, isr, vdisk_lock, bdisk, data>>

\* kill() takes a thread out of any sleep.
kill(t) ==
  /\ asleep[t] # "no"
  /\ asleep' = [asleep EXCEPT ![t] = "no"]
  /\ UNCHANGED <<descVars, status, ring, availIdx, devVars, used_idx, isr, vdisk_lock, rw,
                 arg, write, head, bdisk, data, panicked>>

-----------------------------------------------------------------------------
(* The device                                                              *)

dev_take ==
  /\ seen # availIdx
  /\ inflight' = inflight \cup {ring[seen % NUM]}
  /\ seen' = (seen + 1) % IDX
  /\ ring' = [ring EXCEPT ![seen % NUM] = Null]
  /\ UNCHANGED <<descVars, status, availIdx, usedRing, usedIdx, platter, used_idx,
                 isr, vdisk_lock, rw, arg, write, head, asleep, bdisk, data, panicked>>

\* Transfer the data, write the status, add to the used ring, interrupt.
dev_complete(h) ==
  LET c == addr[next[h]] IN
  /\ h \in inflight
  /\ inflight' = inflight \ {h}
  /\ IF op[h].write
     THEN platter' = [platter EXCEPT ![op[h].sector] = data[c]] /\ UNCHANGED data
     ELSE data' = [data EXCEPT ![c] = platter[op[h].sector]] /\ UNCHANGED platter
  /\ status' = [status EXCEPT ![h] = 0]
  /\ usedRing' = [usedRing EXCEPT ![usedIdx % NUM] = h]
  /\ usedIdx' = (usedIdx + 1) % IDX
  /\ isr' = TRUE
  /\ UNCHANGED <<descVars, ring, availIdx, seen, used_idx, vdisk_lock, rw, arg, write, head, asleep,
                 bdisk, panicked>>

-----------------------------------------------------------------------------
(* virtio_disk_intr                                                        *)

\* Take vdisk_lock and acknowledge the interrupt.
intr_begin ==
  /\ isr
  /\ vdisk_lock = Nobody
  /\ vdisk_lock' = Intr
  /\ isr' = FALSE
  /\ UNCHANGED <<descVars, status, ring, availIdx, devVars, used_idx, rw, arg, write, head,
                 asleep, bdisk, data, panicked>>

\* The request in the used ring's next entry.
Id == usedRing[used_idx % NUM]

\* wakeup(b).
WakeupBuf(c) == [t \in Thread |-> IF asleep[t] = "buf" /\ arg[t] = c THEN "no" ELSE asleep[t]]

\* One turn of the loop: a finished request, and wakeup(b).
intr_entry ==
  LET c == infob[Id] IN
  /\ vdisk_lock = Intr
  /\ used_idx # usedIdx
  /\ panicked' = (status[Id] # 0)
  /\ bdisk' = [bdisk EXCEPT ![c] = 0]
  /\ asleep' = WakeupBuf(c)
  /\ used_idx' = (used_idx + 1) % IDX
  /\ usedRing' = [usedRing EXCEPT ![used_idx % NUM] = Null]
  /\ UNCHANGED <<descVars, status, ring, availIdx, usedIdx, seen, inflight, platter, isr,
                 vdisk_lock, rw, arg, write, head, data>>

\* The condition of the handler's loop.
DrainedAfterOne == TRUE                                   \* (mutant) "if" for "while"
Drained == used_idx = usedIdx

intr_end ==
  /\ vdisk_lock = Intr
  /\ Drained
  /\ vdisk_lock' = Nobody
  /\ UNCHANGED <<descVars, status, ring, availIdx, devVars, used_idx, isr, rw, arg, write, head,
                 asleep, bdisk, data, panicked>>

-----------------------------------------------------------------------------
Driver(t) ==
  \/ alloc_fails(t) \/ submit(t) \/ publish(t) \/ wait_more(t) \/ finish(t) \/ kill(t)
Device == dev_take \/ \E h \in inflight : dev_complete(h)
virtio_disk_intr == intr_begin \/ intr_entry \/ intr_end
=============================================================================
