-------------------------------- MODULE Bio ---------------------------------
(***************************************************************************)
(* The buffer cache, kernel/bio.c, used by several threads at once, over   *)
(* the disk driver of VirtioDisk.                                          *)
(*                                                                         *)
(* A section under bcache.lock is one step; a buffer's sleep-lock is taken *)
(* in a later one, and given back in one before the reference count goes   *)
(* down.  The list of buffers is kept with its two link fields, as the     *)
(* code does.  While it has a buffer locked a thread may write through it  *)
(* (bwrite), or change it, pin it and leave it to a later bwrite and       *)
(* bunpin, as log_write and install_trans do.  A read or a write is a call *)
(* of virtio_disk_rw, which returns when the driver's rw is "idle" again.  *)
(***************************************************************************)
EXTENDS VirtioDisk

CONSTANT MaxPins       \* bound: buffers pinned at a time, for each NUM

ASSUME PinsAssumption == MaxPins \in [Nums -> Nat]

Head == 0              \* &bcache.head

VARIABLES nxt, prv,    \* the list's links
          valid, refcnt,   \* fields of struct buf; blockno and data are the driver's too
          lock,        \* holder of b->lock
          pc,          \* where each thread is
          want,        \* the block it called bread for
          mine,        \* the buffer it has from bget, or 0
          pinned,      \* buffers that log_write has pinned
          last         \* history: the value last given to each block

bufVars == <<nxt, prv, blockno, valid, refcnt>>
bioVars == <<bufVars, lock, pc, want, mine, pinned, last>>
vars == <<bioVars, driverVars, data, panicked>>

TypeOK ==
  /\ DriverTypeOK
  /\ nxt \in [Buf \cup {Head} -> Buf \cup {Head}]
  /\ prv \in [Buf \cup {Head} -> Buf \cup {Head}]
  /\ blockno \in [Buf -> Block \cup {NoBlock}]
  /\ valid \in [Buf -> {0, 1}]
  /\ refcnt \in [Buf -> Nat]
  /\ data \in [Buf -> Val]
  /\ lock \in [Buf -> Thread \cup {Nobody}]
  /\ pc \in [Thread -> {"idle", "acquiresleep", "reading", "has", "installing", "brelse"}]
  /\ want \in [Thread -> Block \cup {NoBlock}]
  /\ mine \in [Thread -> Buf \cup {Head}]
  /\ pinned \subseteq Buf
  /\ last \in [Block -> Val]
  /\ panicked \in BOOLEAN

\* binit(): each buffer was put at the front, so the last one is first.
Init ==
  /\ virtio_disk_init
  /\ nxt = [b \in Buf \cup {Head} |-> IF b = Head THEN NBUF ELSE b - 1]
  /\ prv = [b \in Buf \cup {Head} |-> IF b = NBUF THEN Head ELSE b + 1]
  /\ blockno = [b \in Buf |-> NoBlock]
  /\ valid = [b \in Buf |-> 0]
  /\ refcnt = [b \in Buf |-> 0]
  /\ last = platter
  /\ data \in {[b \in Buf |-> v] : v \in Val}
  /\ lock = [b \in Buf |-> Nobody]
  /\ pc = [t \in Thread |-> "idle"]
  /\ want = [t \in Thread |-> NoBlock]
  /\ mine = [t \in Thread |-> Head]
  /\ pinned = {}
  /\ panicked = FALSE

\* The k-th buffer from the front, and from the back, along the links.
Front[k \in 0..NBUF] == IF k = 0 THEN Head ELSE nxt[Front[k-1]]
Back[k \in 0..NBUF] == IF k = 0 THEN Head ELSE prv[Back[k-1]]

-----------------------------------------------------------------------------
Goto(t, to) == pc' = [pc EXCEPT ![t] = to]
\* bread has returned, and so has bwrite if it was called.
Has(t) == pc[t] = "has" /\ rw[t] = "idle"

NoInc(b) == refcnt                                        \* (mutant)
\* b->refcnt++, b->refcnt--, and the condition acquiresleep waits for.
Inc(b) == [refcnt EXCEPT ![b] = @ + 1]

Dec(b) == [refcnt EXCEPT ![b] = @ - 1]
Unlocked(b) == lock[b] = Nobody

\* bget's two loops: the buffer of block n, or else the least recently used
\* buffer nobody refers to, or else none.
CachedAt(n) == {k \in 1..NBUF : blockno[Front[k]] = n}
UnusedAt == {k \in 1..NBUF : refcnt[Back[k]] = 0}
First(S) == CHOOSE k \in S : \A j \in S : k <= j

bget(t, n) ==
  /\ pc[t] = "idle"
  /\ want' = [want EXCEPT ![t] = n]
  /\ IF CachedAt(n) # {}
     THEN LET b == Front[First(CachedAt(n))] IN
          /\ refcnt' = Inc(b)
          /\ mine' = [mine EXCEPT ![t] = b]
          /\ Goto(t, "acquiresleep")
          /\ UNCHANGED <<blockno, valid, panicked>>
     ELSE IF UnusedAt # {}
     THEN LET b == Back[First(UnusedAt)] IN
          /\ blockno' = [blockno EXCEPT ![b] = n]
          /\ valid' = [valid EXCEPT ![b] = 0]
          /\ refcnt' = [refcnt EXCEPT ![b] = 1]
          /\ mine' = [mine EXCEPT ![t] = b]
          /\ Goto(t, "acquiresleep")
          /\ UNCHANGED panicked
     ELSE /\ panicked' = TRUE
          /\ UNCHANGED <<blockno, valid, refcnt, mine, pc>>
  /\ UNCHANGED <<nxt, prv, data, lock, driverVars, pinned, last>>

\* acquiresleep(&b->lock), the end of bget; then bread reads the block if the
\* buffer does not have it ...
bread(t) ==
  /\ pc[t] = "acquiresleep"
  /\ Unlocked(mine[t])
  /\ lock' = [lock EXCEPT ![mine[t]] = t]
  /\ IF valid[mine[t]] = 1 THEN Goto(t, "has") /\ UNCHANGED driverVars
     ELSE Goto(t, "reading") /\ virtio_disk_rw(t, mine[t], FALSE)
  /\ UNCHANGED <<bufVars, data, want, mine, pinned, last, panicked>>
\* ... after which it does.
bread_end(t) ==
  /\ pc[t] = "reading" /\ rw[t] = "idle"
  /\ valid' = [valid EXCEPT ![mine[t]] = 1]
  /\ Goto(t, "has")
  /\ UNCHANGED <<nxt, prv, blockno, refcnt, data, lock, driverVars, want, mine, pinned, last, panicked>>

\* The caller changes the block and writes it through: bwrite.
bwrite(t, v) ==
  LET b == mine[t] IN
  /\ Has(t)
  /\ b \notin pinned
  /\ panicked' = (lock[b] # t)
  /\ data' = [data EXCEPT ![b] = v]
  /\ last' = [last EXCEPT ![want[t]] = v]
  /\ virtio_disk_rw(t, b, TRUE)
  /\ UNCHANGED <<bufVars, lock, pc, want, mine, pinned>>
\* The caller changes the block and pins it, once: log_write's bpin.
bpin(t, v) ==
  LET b == mine[t] IN
  /\ Has(t)
  /\ Cardinality(pinned \cup {b}) <= MaxPins[NUM]
  /\ data' = [data EXCEPT ![b] = v]
  /\ last' = [last EXCEPT ![want[t]] = v]
  /\ refcnt' = IF b \in pinned THEN refcnt ELSE Inc(b)
  /\ pinned' = pinned \cup {b}
  /\ UNCHANGED <<nxt, prv, blockno, valid, lock, driverVars, pc, want, mine, panicked>>

\* The pinned block is written home: install_trans' bwrite and bunpin.
install(t) ==
  /\ Has(t)
  /\ mine[t] \in pinned
  /\ panicked' = (lock[mine[t]] # t)
  /\ virtio_disk_rw(t, mine[t], TRUE)
  /\ Goto(t, "installing")
  /\ UNCHANGED <<bufVars, data, lock, want, mine, pinned, last>>
bunpin(t) ==
  /\ pc[t] = "installing" /\ rw[t] = "idle"
  /\ refcnt' = Dec(mine[t])
  /\ pinned' = pinned \ {mine[t]}
  /\ Goto(t, "has")
  /\ UNCHANGED <<nxt, prv, blockno, valid, data, lock, driverVars, want, mine, last, panicked>>

\* brelse: releasesleep ...
releasesleep(t) ==
  /\ Has(t)
  /\ panicked' = (lock[mine[t]] # t)
  /\ lock' = [lock EXCEPT ![mine[t]] = Nobody]
  /\ Goto(t, "brelse")
  /\ UNCHANGED <<bufVars, data, driverVars, want, mine, pinned, last>>

\* The list after b is unlinked and put behind head, assignment by assignment.
MoveNext(b) ==
  LET out == [nxt EXCEPT ![prv[b]] = nxt[b]] IN
  [out EXCEPT ![b] = out[Head], ![Head] = b]
MovePrev(b) ==
  LET outn == [nxt EXCEPT ![prv[b]] = nxt[b]]
      outp == [prv EXCEPT ![nxt[b]] = prv[b]]
  IN  [outp EXCEPT ![b] = Head, ![outn[Head]] = b]

\* ... and the reference is dropped; an unused buffer goes to the front.
brelse(t) ==
  LET b == mine[t] IN
  /\ pc[t] = "brelse"
  /\ refcnt' = Dec(b)
  /\ IF refcnt[b] = 1
     THEN nxt' = MoveNext(b) /\ prv' = MovePrev(b)
     ELSE UNCHANGED <<nxt, prv>>
  /\ mine' = [mine EXCEPT ![t] = Head]
  /\ want' = [want EXCEPT ![t] = NoBlock]
  /\ Goto(t, "idle")
  /\ UNCHANGED <<blockno, valid, data, lock, driverVars, pinned, last, panicked>>

-----------------------------------------------------------------------------
Next ==
  /\ ~panicked
  /\ \/ \E t \in Thread :
          \/ \E n \in Block : bget(t, n)
          \/ bread(t) \/ bread_end(t) \/ install(t) \/ bunpin(t) \/ releasesleep(t) \/ brelse(t)
          \/ \E v \in Val : bwrite(t, v) \/ bpin(t, v)
     \/ UNCHANGED bioVars /\ (Device \/ virtio_disk_intr \/ \E t \in Thread : Driver(t))

Spec == Init /\ [][Next]_vars

-----------------------------------------------------------------------------
(* Properties                                                              *)

\* A block has at most one buffer, so that its sleep-lock is the block's lock.
\* A thread that bread has given a buffer sees the value last given to the
\* block it asked for, by whichever thread and however often the block was
\* evicted meanwhile; nobody else is in the buffer.  What it has written is on
\* the disk when bwrite returns, whatever other requests are in flight.
Coherent ==
  /\ \A b, c \in Buf : blockno[b] = blockno[c] /\ blockno[b] # NoBlock => b = c
  /\ \A t \in Thread : Has(t) =>
       /\ blockno[mine[t]] = want[t] /\ valid[mine[t]] = 1
       /\ data[mine[t]] = last[want[t]]
       /\ mine[t] \notin pinned => platter[want[t]] = last[want[t]]
       /\ \A u \in Thread \ {t} : Has(u) => mine[u] # mine[t]

\* refcnt counts the threads between bget and brelse and the pin of the log:
\* no buffer is recycled under a thread that sleeps on its lock, none leaks,
\* and bget panics only when every buffer is in use; nothing else does.  The two
\* links describe one ring through head and every buffer.
RefsCounted ==
  /\ TypeOK
  /\ panicked => \A b \in Buf : refcnt[b] > 0
  /\ \A b \in Buf :
       refcnt[b] = Cardinality({t \in Thread : mine[t] = b}) + (IF b \in pinned THEN 1 ELSE 0)
  /\ \A b \in Buf \cup {Head} : nxt[prv[b]] = b /\ prv[nxt[b]] = b
  /\ {Front[k] : k \in 1..NBUF} = Buf

\* No sleeper is forgotten: a thread sleeps for descriptors only while fewer
\* than three are free, and for its request only while that is not done.
NoLostWakeup ==
  \A t \in Thread :
     /\ asleep[t] = "free" => Cardinality(Free) < 3
     /\ asleep[t] = "buf" => bdisk[arg[t]] = 1

\* The entries from one ring index up to another.
Between(r, from, to) == {r[(from + k) % NUM] : k \in 0..((to - from + IDX) % IDX) - 1}

\* A request a thread waits for is in exactly one place: on the avail ring,
\* with the device, or on the used ring.  It cannot get lost on the way, and
\* neither ring overruns, also after the indices have wrapped.  While there
\* is something on the used ring that the driver has not seen, an interrupt
\* is pending or its handler is running, whenever the acknowledgement comes
\* (the race that virtio_disk.c:289 calls harmless).  A descriptor is in use
\* exactly while it is part of the chain of one such request: none leaks, none
\* is shared, none is freed twice.
RequestTracked ==
  LET waiting == {t \in Thread : rw[t] \in {"publish", "wait"}} IN
  /\ \A t \in waiting : Cardinality(Chain(head[t])) = 3 /\ infob[head[t]] = arg[t]
  /\ \A t, u \in waiting : t # u => Chain(head[t]) \cap Chain(head[u]) = {}
  /\ Desc \ Free = UNION {Chain(head[t]) : t \in waiting}
  /\ used_idx # usedIdx => isr \/ vdisk_lock = Intr
  /\ \A t \in Thread : rw[t] = "wait" /\ bdisk[arg[t]] = 1 =>
     Cardinality({s \in {Between(ring, seen, availIdx), inflight,
                         Between(usedRing, used_idx, usedIdx)} : head[t] \in s}) = 1
=============================================================================
