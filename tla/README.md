# A TLA+ model of the xv6-riscv kernel

This directory holds a specification of the parts of the kernel in `src/kernel`
where several actors meet: CPUs, processes, interrupt handlers, devices and
crashes; and of the two user programs the system stands on, `mkfs` and the shell.
Each module is translated from the C source, TLC checks it on small
instances, and for seven of the modules (`Log`, `SleepLock`, `Spinlock`,
`ProcTable`, `Pipe`, `Trap`, `Console`) TLAPS proofs show the properties for every
instance (section 4). `PROJECT.json` maps each definition to the lines it models and lists
the components, runs, hazards and theorems.

    tlc -config MCLog.cfg MCLog         # check one instance
    tlapm LogProofs.tla                 # check the proofs of one module

## 1. The system and its parts

| Part (source) | State | Operations | What makes it hard | What must hold |
|---|---|---|---|---|
| Spinlocks (`spinlock.c`) | `locked`, `cpu`; per CPU `noff`, `intena`, SIE | acquire, release, push_off, pop_off, traps | interrupts between any two instructions, locks handed over in `swtch` | exclusion, no self-deadlock, interrupts restored |
| Scheduler, sleep, wakeup (`proc.c`, `sleeplock.c`) | `state`, `chan`, `p->lock`, contexts | scheduler, yield, sleep, wakeup, acquiresleep, releasesleep | wakeup between test and sleep, a stack in use on two CPUs | no lost wakeup, exclusion, one CPU per stack |
| Process life cycle (`proc.c`, `sysproc.c`) | the table, parents, `wait_lock` | fork, exit, wait, kill, reparent | loops over the table that others change, reuse of slots | no lost exit, orphans reaped, killed processes exit |
| Memory (`kalloc.c`, `vm.c`, `exec.c`) | free list, page tables in memory, `p->sz` | kalloc, kfree, fork, exec, sbrk, exit, copyin, copyout | allocation fails anywhere, arithmetic at the edges | no page lost or shared, one address space each |
| Pipes (`pipe.c`) | ring, free-running counters, open ends | write, read, close, kill | sleepers on both ends, wrap-around, last close | bounded FIFO, no lost wakeup, no use after free |
| Console, UART (`console.c`, `uart.c`) | line buffer, transmit ring | read, write, printf, interrupts | handler against processes, two ways to the transmitter | line discipline, FIFO, nothing forgotten |
| Disk driver (`virtio_disk.c`) | descriptors, two rings, `used_idx` | request, interrupt | completion in any order, full tables, wrapping indices | requests tracked, descriptors conserved |
| Buffer cache (`bio.c`) | buffers, LRU list, reference counts | bread, bwrite, brelse, pin, unpin | eviction between the list's lock and the buffer's lock | coherence, one buffer per block |
| Log (`log.c`) | header, log blocks, pins, counters | begin_op, log_write, end_op, commit, recovery | a crash at every disk write, also in recovery | crash atomicity |
| Names and inodes (`fs.c`, `file.c`, `sysfile.c`) | inodes on disk and in memory, directories, open files, current directories | path lookup, open, create, link, unlink, chdir, dup, close, fork, exit | inodes freed and reused under other calls, two locks at a time | counts exact, no entry dangles, no deadlock |
| Blocks of files (`fs.c`, `file.c`, `mkfs.c`) | bitmap, block contents in the cache and on disk, addresses, offsets | mkfs, balloc, bmap, itrunc, read, write in rounds | a write stops in the middle, reads and truncation between its rounds, recycling, restarts | one owner per block, a file is its bytes, rounds fit the log |
| Traps, timer, system call entry (`trap.c`, `*.S`, `sysproc.c`) | control registers of each CPU, trapframes, `ticks` | uservec, usertrap, usertrapret, userret, kerneltrap, clockintr, sleep | traps in traps' handlers, migration between trap and return, wrap-around | return to where it came from, the right vector, sleepers on time |
| Shell and init (`sh.c`, `init.c`) | the line, processes, descriptors, pipes | parsecmd, runcmd, fork1, wait, redirection | processes of a pipeline in any order, fork or pipe fails half way | parse tree right, programs wired as written, prompt comes back |
| Other user programs | | | sequential | not modelled (section 8) |

How they interact: a file-system call runs between begin_op and end_op; it walks
inodes (names), whose blocks are in buffers (cache), which log_write pins until a
commit has written them (log) through requests to the driver, whose threads sleep
for an interrupt. `Bio` is composed with the driver: a `bread` is a request of
`VirtioDisk`. All sleeping rests on sleep and wakeup, and those on spinlocks.
Every module takes what lies below it as an atomic step of its own, justified by
the module below: `Spinlock` shows that a critical section excludes others and
its own interrupt handlers; `SleepLock` that sleep releases the lock and sleeps
in one step as seen by wakeup; so `Log`, `Pipe`, `VirtioDisk`,
`Trap` and `Console` take "release the lock and sleep" and "wakeup" as parts of a step.

## 2. The modules

**Log** models `log.c` with the cached home blocks (`cache`, `pin`),
the disk (`disk`, `dlog`, `hdr`) and a boot sequence. `begin_op`, `log_write`,
`end_op` are actions; `write_log`, `write_head`, `install_trans`, `clear_head`
are the disk writes of `commit()`, each a step. `Crash` may happen at any point,
with the write in progress torn; `read_head`, `recover_install`, `recover_clear`
are `recover_from_log`. **AtomicDisk** is the promise: groups of calls become
durable at once and a crash loses exactly what is not durable.

**SleepLock** models `scheduler`, `sched`, `swtch`, `yield`, `sleep`, `wakeup`,
`acquiresleep` and `releasesleep` on several CPUs, with `ctx` for where a
process's kernel stack is. **Spinlock** goes down to single instructions of
`acquire` and `release`, with a device interrupt whose handler takes a lock of
its own, and threads that move between CPUs: out of `sched`, which restores its
`intena`, or for the first time into `forkret`, which has none to restore.

**ProcTable** models the process table. The loops of `allocproc`, `reparent`,
`wait`, `wakeup` and `kill` advance one slot per step, so that others act
between two slots.

**Memory** keeps page tables as pages of memory, two levels of five entries.
`kalloc` takes the least free page (no step depends on which one); every allocation
of every call can be the one that fails. `copyin`, `copyout`, `copyinstr`, `uvmalloc`, `uvmcopy` and `exec` are
operators on the memory. **AddressSpaces** is the promise: a size and bytes for
each process.

**Pipe** and **Console** share **ByteFifo** as the promise of their queues;
**LineInput** is the promise of the console's input. In `Console` the interrupt
handler is an actor that claims the interrupt, reads characters, edits, echoes
byte by byte through `uartputc_sync` with `cons.lock` held, and ends in
`uartstart`. Reading the transmitter's state and writing a byte to it are two
steps, since `uartputc_sync` does not take `uart_tx_lock`.

**VirtioDisk** models descriptors, the avail and used rings and the interrupt
handler's loop; the device takes and completes requests in any order. It has no
behaviour of its own: **Bio** extends it, and its threads are the callers of
`virtio_disk_rw`. Bio models `bget`'s two scans, the sleep-lock of each buffer and
both link fields of the list; `data`, `blockno` and `b->disk` are shared with the
driver.

**Fs** models inodes on disk (`dinode`), in memory (`inode`), directory entries
(`dir`), the file table, descriptors and current directories. A step is what a
call does under one lock, up to the next lock it may wait for. A call that must
`iput` inodes lists them in `put` and does so before anything else, in the three
steps of `iput`: the test under `itable.lock`, the freeing under the inode's
lock, and the dropping of the reference after that lock is released. Two history
variables, which no action reads, remember the removed directories whose `..` is
gone (`stale`) and whether a path has led through one (`strayed`).

**FileData** models what is in the files. `Init` and `iappend` are `mkfs`, block
by block, with the image it can be given; then the kernel runs on that image.
`balloc`, `bmap` and `itrunc` are operators on the bitmap, the blocks and an inode;
`writei` is a step for each turn of its loop, `filewrite` begins a round, `end_op`
ends it and commits when no other call is open. `Recycle` drops a buffer that is
not pinned, and `Reboot` starts the kernel again on what is on the disk.
**ByteFile** is the promise: a file is a sequence of bytes, with the bytes of a
write that failed half way marked as `loose`: they may go away again.

**Trap** has the control registers of each CPU (`stvec`, `sepc`, `sstatus`,
`scause`, `tp`) and what is saved of them in the trapframe and on the stack of
`kerneltrap`. A step is as much code as runs between two points where an interrupt
or another CPU can matter. `sys_sleep`, `sys_uptime` and `sys_kill` are the system
calls, so that processes sleep, are killed and move to other CPUs in between.
`goal` remembers where the interrupted code was to go on.

**Shell** has the parser as operators on the line, next to a grammar stated on its
tokens (`Meaning`), and `runcmd` as processes with descriptors; the kernel's `fork`,
`pipe`, `dup`, `close`, `wait` and `exit` are external here. A program that runs
may end at any time.

Modules whose name begins with `MC` give constants their values.

## 3. The runs

| Run | Instance | Checks |
|---|---|---|
| `log` | 2 threads, 3 blocks, 2 contents, log of 4 | RecyclableIsClean, NoPanic, CrashAtomicity (refinement), SleepersWoken (liveness) |
| `sleeplock` | 3 processes, 2 CPUs | MutualExclusion, StackExclusive, NoLostWakeup, SleepersWoken (liveness) |
| `spinlock` | 2 threads, each old or new, 2 CPUs, a device | MutualExclusion, IntrRestored |
| `trap` | 2 processes, 2 CPUs, ticks modulo 3 | TrapResumes (with an action property), VectorRight, SleepOnTime |
| `proctable` | 3 slots, 4 pids | NoLostExit, FreeSlotIdle, KilledExits, InitReaps (liveness) |
| `pipe` | 2 writers, 1 reader, ring of 2, counters modulo 4 | NoLostWakeup, NoUseAfterFree, PipeIsFifo (refinement) |
| `disk` | 2 threads, 3 blocks, 2 buffers, 1 pin, 4 or 8 descriptors, indices modulo 8 | Coherent, RefsCounted, NoLostWakeup, RequestTracked |
| `memory` | 2 processes, 16 pages of 2 bytes, 9 programs | PagesConserved, OwnAddressSpace (refinement) |
| `fs` | 2 processes, 3 inodes, 1 open file, 2 descriptors, 7 calls | RefsCounted, NoPanic, NoDeadlock, HeldStays (action) |
| `files` | 2 processes, 14 blocks of 2 bytes, 2 direct blocks, 2 images | BlocksOwned, TransactionFits, FileIsBytes (refinement) |
| `console` | 2 readers, 2 writers, rings of 2, indices modulo 4 | NoLostWakeup, InputIsLines, OutputIsFifo (refinements) |
| `shell` | 5 lines, 6 processes, 2 pipes; the parser on all 32,768 lines of 5 of 8 characters | ParseRight, WiredRight, ForegroundDone, PromptReturns (liveness) |

Each property is stated in words where it is defined. For each property of a
passing run PROJECT.json names a mutant: the definition as a plausible slip would
have left it (a guard dropped, a test off by one, a wakeup forgotten), for which
TLC finds the property violated.

### Why the bounds are enough

- Rings have two cells and their counters wrap at twice that, so that empty,
  partly full, full and wrapped around all occur, with every offset.
- `disk`: a request needs three descriptors. With four, the second thread finds
  too few, also when it has taken one already; with eight, as in the code, two
  requests are in flight and complete in either order. The code's indices wrap at
  2^16, a multiple of NUM, as 8 is of both. Three blocks share two buffers, so that
  `bget` recycles; with four descriptors one buffer may also be pinned, so that
  `bget` sometimes finds none.
- `log`: two calls that reserve two blocks each fill the log of four by their
  reservations. A call writes one block (`OpBlocks`), so that groups form,
  blocks are absorbed, and a commit has several blocks.
- `memory`: two processes after a fork leave so few of the 16 pages that the
  next fork, exec or sbrk fails in the middle; sizes are modulo 128 where the
  code has 32 bits, and modulo 256 where it has 64, larger than the address
  space as there.
- `fs`: with three inodes a removed directory's inode is reused at once, and the
  disk runs out (panic in `ialloc`, which the model allows); with one open file
  `filealloc` fails; with two descriptors `dup` both succeeds and fails. The paths
  go down, from the root (`/a/a`), up (`../a`), to the directory itself (`a/.`) and
  into a file that is no directory; with `chdir` they start in directories that are
  removed, above and below them too.
- `files`: with two direct addresses and an indirect block of two, the eight bytes
  of the first write use every kind of block, in four rounds of two bytes. Its last
  byte is not mapped. The bytes written are also numbers of data blocks, so that an
  indirect block that holds stale data is seen. One image leaves blocks free; in the
  other the root directory fills its block and the disk runs full.
- `trap`: ticks wraps after three, with sleeps of one and two ticks, so that
  `ticks0 + n` wraps as well. Two CPUs and two processes let a process return on
  another CPU while the first is in a trap of its own; only CPU 0 counts ticks.
- `shell`: the lines make every type of command run. The pipeline of three needs
  all five processes and both pipes; with a program in the background every fork of
  it can be the one that fails. Shorter lines for the parser are those that end in
  blanks; `<` is parsed like `>` and occurs in the lines that are run.
- `console`: a behaviour has one of four loads (`Loads`): one reader with every
  kind of character, two readers with characters and `^D`, one writer that
  prints while the handler prints, two writers. Reading and writing share only
  the transmitter, through the echo.
- Symmetry is over sets of model values that the modules only compare
  (`spinlock`, `pipe`, `disk`), never in a run with a
  liveness property. `memory` uses a VIEW that unfolds page tables to what they
  map, since no step depends on the number of a page; `console` one that hides
  the cells outside the rings' indices, `files` one that hides the contents of
  free blocks, and `trap` one that hides registers, all of which are overwritten
  before they are read.

### Fairness

- `Log`: recovery, commits and calls that have begun go on (the scheduler runs
  every runnable thread and every disk write completes); nobody has to begin a
  call.
- `SleepLock`: the scheduler's scan reaches every runnable process again and
  again (strong fairness, since other CPUs may take it first), and a process
  that waits for a spinlock gets it in the end. The hardware does not promise
  the latter; the code relies on it everywhere.
- `ProcTable`: kernel code runs on; `wait_lock` is obtained in the end; a killed
  process traps, because the timer interrupts it, and exits; and init calls
  `wait` for ever (`user/init.c`). `KilledExits` leaves out one case that the
  code has: a kill between wait's look at `killed` and its sleep takes effect
  only when a child exits or a second kill comes.
- `Shell`: every process goes on, and a program ends once its input is at its end
  and its output is being read, or has no reader. Nobody has to type a line.

The other modules state progress as invariants (nobody sleeps for what is there),
which need no fairness.

`CHECK_DEADLOCK FALSE` is set where the system may come to rest: all processes
killed or done (`pipe`, `console`, `memory`) or a kernel that panicked (`fs`,
`files`, and `disk`, where `bget` finds no buffer).

## 4. What is proved

The theorems hold for every value of the constants that satisfies the named
assumptions (`ASSUME`) of the modules, which TLC evaluates in every run: constants
that stand for nobody or nothing are not names of processes, sizes are positive,
and what is said below. Each theorem rests on an inductive invariant `IndInv`: it
holds initially, every action preserves it (one lemma per action or group of
actions), and it implies the property.

**Log: `LogRefinesAtomicDisk`**, for any number of threads, blocks, contents and
any size of the log. CrashAtomicity is a step property that needs

- `Calls`: `outstanding` counts the calls in progress and no call overlaps a
  commit;
- `Distinct`: no block is logged twice and the log has room for the rest;
- `Buffers`: a buffer that is not pinned is absent or equal to the disk. This is
  what makes eviction harmless;
- `Committing`: at each step of the commit, which log blocks are written, which
  home blocks are installed and which buffers are still pinned;
- `Recovering`: the same for recovery, where a torn home block is always one that
  the header still names.

The frame lemmas `CommitFrame` and `CacheFrame` carry the commit's conjuncts over
steps that do not touch them. For the refinement, `write_head` maps to the abstract
Commit, `Crash` to the abstract Crash, the end of recovery to Recover, and the other
disk writes to no step at all, because what recovery would yield (`Recovered`) stays
the same. `TypeCorrect`, `CommitsAlone` and `CleanRecycling` follow from the same
invariant.

**Log: `LogNeverPanics`** (NoPanic) needs a second invariant, `Room`, that counts.
`Notes` is the set of pairs of an active call and a block it has written; what the
log holds and what the active calls may still add, `Len(lh) + outstanding *
OpBlocks - Cardinality(Notes)`, leaves two blocks of LOGSIZE. begin_op establishes
this for the call it admits, and a log_write adds a pair whenever it adds a block.
It rests on `ReservationAssumption`: a call writes fewer blocks than the
MAXOPBLOCKS it reserves (which the calls of `sysfile.c` and the rounds of
`filewrite` do), and the log on disk has LOGSIZE blocks. Without the first the
property is false (section 5).

**Sleeping and waking: `SleepLockMutex`, `WakeupNotLost`, `StacksExclusive`,
`SchedNeverPanics`, `TypeCorrect`**, for any number of processes and any set of
CPUs. `IndInv` relates who holds `p->lock` to where p's stack is (`ProcLocks`),
each running process to one CPU (`Placement`), the sleep-lock's inner spinlock to
the process in its critical section (`InnerLock`, `InnerFree`), and `p->state` to
the program counter (`States`). NoLostWakeup is not inductive without
`ProcLocks`: it holds because p->lock is taken before the inner lock is released.

**Spinlocks: `MutualExclusionHolds`, `IntrRestoredHolds`**, for any number of
threads and CPUs. The heart is `Flags`: `c->noff` counts the locks of whatever runs
on c, with those it is taking or giving back (`Depth`), and while it is positive
`c->intena` says whether the thread was in a trap handler. A trap keeps this
because it finds no lock held (`Frames`), `sched` and `swtch` because each hands
over exactly `p->lock` (`Hands`, `Parked`). A new process brings no `intena`, so
that its interrupts may be on or off when `forkret` has released `p->lock`;
IntrRestored excepts it up to `usertrapret`, and `Fresh` says that it holds
nothing but `p->lock` and takes no trap until it has released it. `Owned` and `Claimed` tie `locked` and
`lk->cpu` to the owner.

**Process life cycle: `NoLostExitHolds`, `FreeSlotIdleHolds`**, for a table of any
size. `Slots` relates the state of a slot to where its process is, `Family` says
that a parent is alive until `reparent` has been through the table, `Forks` that a
slot in the making is in one fork's hands, `Loops` what each loop under `wait_lock`
has established for the slots behind it. `NotLost` weakens NoLostExit for the one
moment at which a sleeper has a ZOMBIE to reap: `reparent` has given the ZOMBIE to
init and is about to wake it.

**Pipes: `NoLostWakeupHolds`, `NoUseAfterFreeHolds`, `ImplementsFifo`**, for any
number of readers and writers, any size and any width of the counters that the size
divides, as 512 does 2^32. `ReadEnd` and `WriteEnd` say that the last holder of an
end alone closes it; `Sleepers` is what a sleeper may find. The refinement needs
that at most PIPESIZE bytes lie between the counters (`Fits`) and that these lie in
different cells although the counters wrap (`CellsDiffer`); then a step of
`pipewrite` appends to the sequence of bytes and one of `piperead` takes its head.

**Traps: `VectorRightHolds`, `SleepOnTimeHolds`, `TrapResumesHolds`**, for any
number of CPUs and processes, any wrap of `ticks` and any system calls. `Regs` says
what a CPU's registers hold, by where the context on it is; `Frames` and `States`
what `kerneltrap`'s stack frame and the trapframe hold; `Apart` that a context is on
one CPU; `Locked` and `Sleeper` that between its test of `ticks` and `sleep` a
process holds `tickslock`, so that no tick comes between. TrapResumes also has an
action property: `SretStep` proves it for every step.

**Console: `NoLostWakeupHolds`, `ImplementsLines`**, for any number of readers and
writers, any sizes of the two buffers and any width of the indices that both
divide. `ConsoleSteps` has the invariants and that every step keeps them,
`ConsoleProofs` the theorems. `Locks` says where `cons.lock` and `uart_tx_lock` are
held, `Found` what was found under them and still holds, `Ahead` that an interrupt
will come for what waits. For the refinement, `r`, `w` and `e` cut two sequences out
of one ring (`Rings`), and `LineInv` adds that the edited line has no line end in
it, so that `^U`, which looks for one, erases exactly the line (`ErasesLine`).

### What is only model-checked

- Liveness: SleepersWoken, KilledExits, InitReaps, ForegroundDone and PromptReturns
  need fairness and ENABLED, which are outside this prover.
- `Shell` and `Memory` (ParseRight, WiredRight, PagesConserved, OwnAddressSpace)
  have recursive operators, with which the prover has no SMT backend.
- Some properties rest on what a function defined by recursion computes, which takes
  induction over data that the installed provers cannot instantiate: OutputIsFifo
  (the bytes of one writer among those of all), Coherent and RefsCounted of `Bio`
  (the scans of `bget` find every buffer of the ring), RefsCounted, NoPanic and
  HeldStays of `Fs` (a sum over all processes), FileIsBytes of `FileData`.
- NoLostWakeup and RequestTracked of the disk driver, NoDeadlock of `Fs`, and
  BlocksOwned and TransactionFits of `FileData` have not been attempted.

## 5. Where the code falls short of what it promises

The passing runs leave these out, or except them, as said here; the notes of the
hazards give the same places.

- `log.c:133`, `log.c:220`: begin_op reserves against LOGSIZE, and log_write panics
  one block earlier, at `log.size - 1`. Calls that use all they reserved panic
  instead of waiting. No call of this kernel does; `ReservationAssumption` says so, and
  without it `Log` with `OpBlocks = MAXOPBLOCKS` and LOGSIZE blocks violates NoPanic.
- `sysfile.c:222`: removing a directory takes back the link its `..` holds on the
  parent, but the entry stays while the directory is some process's current one.
  When the parent is removed and freed too, the next path through `..` panics with
  "ilock: no type", or reaches whatever file has the inode by then. The run `fs`
  gets there; NoPanic says that no other way leads to a panic, and RefsCounted that
  links are exact until a path has gone that way.
- `mkfs.c:166`: when the entries of the root directory fill its last block exactly,
  its size is rounded up by one block more, which does not exist. Reading the
  directory makes bmap allocate: a panic ("log_write outside of trans"), or, while
  another call is in a transaction, a block that is marked in the bitmap and that
  the inode on the disk never gets. BlocksOwned excepts this image.
- `fs.c:500`: when either_copyin fails, the bytes it copied stay in a buffer that is
  not logged. Readers see them until the buffer is recycled (`loose` in ByteFile).

Also met on the way:
a new process runs `forkret` with interrupts off when the process before it on that
CPU yielded in a trap (`proc.c:513`; harmless, as it goes to user space at once);
`kill(0)` marks a free slot, whose next process is born killed (`proc.c:585`); a
killed pipe writer leaves without waking readers (`pipe.c:84`); a kill between
the test of `killed` and sleep waits for the next event (`console.c:92`); `iput`
can leave an inode without links allocated when it is reused in its window
(`fs.c:353`); `create` and `link` may put an entry into a directory that has just
been removed, and the inode is lost (`sysfile.c:278`); `uartintr` goes on sending
after a panic (`uart.c:192`); `sleep` with a negative argument sleeps for a large
unsigned number of ticks (`sysproc.c:65`); when the second fork of a pipeline fails,
its left side runs on after the prompt is back (`sh.c:118`).

## 6. What the models leave out

- `Fs`: the contents of files, which are in `FileData`; the splitting of path names
  by `skipelem`. `Fs` assumes that a call's writes are atomic and durable, which
  `Log` shows.
- `FileData`: a crash inside of a transaction, which is in `Log`: `Reboot` happens
  between transactions. `bread` of a block and the copying of its bytes are one
  step, under the inode's lock. `itrunc` is one step, although the inode's lock does
  not protect the bitmap: that another call allocates the first blocks before the
  last are free is not covered. The bitmap has one block, as in this configuration.
- `Trap`: of the general registers only `tp`; the PLIC's claim and complete; the
  address spaces (`satp`). Machine mode only passes the timer interrupt on.
- `Shell`: `malloc` does not fail; init always finds a process for a new shell
  (otherwise init exits and the kernel panics); what the programs do with their data.
- `Pipe`: `pipealloc` and `sys_pipe` with their failure paths.
- `Spinlock`: `fsinit`, which the very first process calls in `forkret`.
- `Memory`: the file system calls of `exec` (a file that is no ELF file changes
  nothing) and its limit MAXARG. A call is one step. A process changes only its own page table, and
  `kmem.lock` makes kalloc and kfree atomic, but two calls that compete for the
  last pages interleave only as a whole. The kernel's page table is not modelled.
- `VirtioDisk`, `Console`: the devices are modelled as the drivers rely on them.
  Memory barriers are taken to work.
- Weak memory: shared variables are sequentially consistent under their locks.

## 7. Order of work

Built in this order: Log and its proofs, SleepLock and its proofs, Spinlock,
ProcTable, Pipe, VirtioDisk, Bio, Memory, Fs, Console, Trap, FileData, the
composition of Bio with VirtioDisk, Shell; then the proofs about Pipe, Spinlock,
ProcTable, Trap, the log's room, and Console.

Next would be `malloc` and `free` of the user library, `skipelem` and `namex` against
a reference definition of path names, and `sys_pipe` with `pipealloc`.

## 8. Not modelled

Boot (`entry.S`, `start.c`, `main.c`), the PLIC's registers and the dispatch of
system calls with its fetching of arguments are straight-line code; `printf.c` and
`string.c` are formatting and byte loops; `ramdisk.c` is not linked. The user
programs other than init and the shell are sequential clients of the system calls,
`usertests` and `grind` are tests, and the user library is string handling,
formatting and a sequential allocator.
