------------------------------ MODULE Spinlock ------------------------------
(***************************************************************************)
(* Spinlocks and interrupts: acquire, release, push_off and pop_off of     *)
(* kernel/spinlock.c, the interrupts that may come between their           *)
(* instructions (kerneltrap), and sched(), scheduler() and forkret(),      *)
(* which carry a held lock and c->intena from one kernel thread to         *)
(* another.                                                                *)
(*                                                                         *)
(* A context is a kernel thread or the scheduler of a CPU; a CPU runs one  *)
(* at a time.  Threads do what the kernel does with locks: take a device's *)
(* lock; yield() (p->lock, then sched()); sleep() under the device's lock  *)
(* (p->lock too, then let go of the first, then sched()); and all of it    *)
(* again inside a trap, where the device's handler takes its lock and the  *)
(* timer may yield().  A thread that is in user space takes traps just as  *)
(* one in a system call does: sret has set the flag there too.             *)
(***************************************************************************)
EXTENDS Integers

CONSTANTS Thread, Cpu,
          Dev,       \* a lock shared with an interrupt handler
          None       \* lk->cpu = 0, or no lock

ASSUME NameAssumption == None \notin Cpu /\ None \notin Thread /\ Cpu \cap Thread = {}
                         /\ Dev \notin Thread \cup {None}

Ctx == Thread \cup Cpu        \* c itself stands for c's scheduler
Lock == {Dev} \cup Thread     \* t itself stands for t's p->lock

VARIABLES locked, lcpu,          \* lk->locked, lk->cpu
          sie, noff, intena,     \* of each CPU: interrupts enabled, c->noff, c->intena
          on,                    \* the context each CPU runs
          pc, arg, old,          \* of each context: place, lock in hand, push_off's old
          held,                  \* the locks whose acquire has returned to it
          trap,                  \* it is inside kerneltrap
          saved,                 \* pc, arg and old of the code kerneltrap interrupted
          phase,                 \* "runs"; "saved" in sched(); "leaves" after its swtch;
                                 \* of a new process: "new", and "forkret" after it
          sintena,               \* sched()'s local intena
          panicked

lockVars == <<locked, lcpu>>
cpuVars == <<sie, noff, intena, on>>
vars == <<lockVars, cpuVars, pc, arg, old, held, trap, saved, phase, sintena, panicked>>

PC == {"run", "off", "spin", "setcpu", "unlock", "pop", "forkret"}
Phase == {"runs", "leaves", "saved", "new", "forkret"}
NoFrame == [pc |-> "run", arg |-> None, old |-> 0]

TypeOK ==
  /\ locked \in [Lock -> {0, 1}] /\ lcpu \in [Lock -> Cpu \cup {None}]
  /\ sie \in [Cpu -> {0, 1}] /\ intena \in [Cpu -> {0, 1}]
  /\ noff \in [Cpu -> Nat]
  /\ on \in [Cpu -> Ctx]
  /\ pc \in [Ctx -> PC] /\ arg \in [Ctx -> Lock \cup {None}] /\ old \in [Ctx -> {0, 1}]
  /\ held \in [Ctx -> SUBSET Lock]
  /\ trap \in [Ctx -> {0, 1}]
  /\ saved \in [Ctx -> [pc : PC, arg : Lock \cup {None}, old : {0, 1}]]
  /\ phase \in [Ctx -> Phase]
  /\ sintena \in [Thread -> {0, 1}]
  /\ panicked \in BOOLEAN

initlock == locked = [l \in Lock |-> 0] /\ lcpu = [l \in Lock |-> None]

\* Every CPU is in its scheduler.  Every thread has called sleep() in a system
\* call, or is new: allocproc has made it a context that begins in forkret.
Contexts ==
  /\ on = [c \in Cpu |-> c]
  /\ pc = [x \in Ctx |-> "run"] /\ arg = [x \in Ctx |-> None] /\ old = [x \in Ctx |-> 0]
  /\ held = [x \in Ctx |-> {}]
  /\ trap = [x \in Ctx |-> 0] /\ saved = [x \in Ctx |-> NoFrame]
  /\ phase \in [Ctx -> {"runs", "saved", "new"}] /\ \A x \in Ctx : phase[x] = "runs" <=> x \in Cpu
  /\ sintena = [t \in Thread |-> 1]

\* The schedulers have done intr_on().
Init ==
  /\ initlock
  /\ Contexts
  /\ sie = [c \in Cpu |-> 1] /\ noff = [c \in Cpu |-> 0] /\ intena = [c \in Cpu |-> 0]
  /\ panicked = FALSE

\* holding(lk), on c.
holding(c, l) == locked[l] = 1 /\ lcpu[l] = c

-----------------------------------------------------------------------------
(* acquire and release, by the context x = on[c]                           *)

\* What the kernel's code asks for next: a lock in its hands.
MayAcquire(c, x, l) ==
  \/ x \in Thread /\ phase[x] = "runs" /\ held[x] = {} /\ l \in {Dev, x}
  \/ x \in Thread /\ phase[x] = "runs" /\ held[x] = {Dev} /\ trap[x] = 0 /\ l = x
  \/ x = c /\ held[x] = {} /\ trap[x] = 0 /\ l \in Thread
  \/ x = c /\ held[x] = {} /\ trap[x] = 1 /\ l = Dev

\* acquire(l): push_off reads the interrupt flag ...
acquire(c, l) ==
  LET x == on[c] IN
  /\ pc[x] = "run"
  /\ MayAcquire(c, x, l)
  /\ arg' = [arg EXCEPT ![x] = l]
  /\ old' = [old EXCEPT ![x] = sie[c]]
  /\ pc' = [pc EXCEPT ![x] = "off"]
  /\ UNCHANGED <<lockVars, cpuVars, held, trap, saved, phase, sintena, panicked>>

\* c->intena after push_off: the flag as it was before the outermost one.
Intena(c) == IF noff[c] = 0 THEN old[on[c]] ELSE intena[c]

\* ... clears it and counts; acquire checks that it does not have the lock.
push_off(c) ==
  LET x == on[c] IN
  /\ pc[x] = "off"
  /\ sie' = [sie EXCEPT ![c] = 0]
  /\ intena' = [intena EXCEPT ![c] = Intena(c)]
  /\ noff' = [noff EXCEPT ![c] = @ + 1]
  /\ panicked' = holding(c, arg[x])
  /\ pc' = [pc EXCEPT ![x] = "spin"]
  /\ UNCHANGED <<lockVars, on, arg, old, held, trap, saved, phase, sintena>>

\* The loop ends when the test-and-set finds the lock free.
test_and_set(c) ==
  LET x == on[c] IN
  /\ pc[x] = "spin"
  /\ locked[arg[x]] = 0
  /\ locked' = [locked EXCEPT ![arg[x]] = 1]
  /\ pc' = [pc EXCEPT ![x] = "setcpu"]
  /\ UNCHANGED <<lcpu, cpuVars, arg, old, held, trap, saved, phase, sintena, panicked>>

\* lk->cpu = mycpu(), and acquire returns.
set_cpu(c) ==
  LET x == on[c] IN
  /\ pc[x] = "setcpu"
  /\ lcpu' = [lcpu EXCEPT ![arg[x]] = c]
  /\ held' = [held EXCEPT ![x] = @ \cup {arg[x]}]
  /\ arg' = [arg EXCEPT ![x] = None]
  /\ old' = [old EXCEPT ![x] = 0]
  /\ pc' = [pc EXCEPT ![x] = "run"]
  /\ UNCHANGED <<locked, cpuVars, trap, saved, phase, sintena, panicked>>

\* A thread lets go of the device's lock first, of p->lock only after sched()
\* or in forkret(); the scheduler of a lock whose thread is not RUNNABLE or has
\* just switched to it.
MayRelease(x, l) ==
  /\ l \in held[x]
  /\ l = x => phase[x] \in {"leaves", "forkret"}

\* Mutant of CpuCleared: the last owner is left in lk->cpu.
CpuStays(l) == lcpu

\* lk->cpu = 0.
CpuCleared(l) == [lcpu EXCEPT ![l] = None]

release(c, l) ==
  LET x == on[c] IN
  /\ pc[x] = "run"
  /\ MayRelease(x, l)
  /\ panicked' = ~holding(c, l)
  /\ lcpu' = CpuCleared(l)
  /\ arg' = [arg EXCEPT ![x] = l]
  /\ pc' = [pc EXCEPT ![x] = "unlock"]
  /\ UNCHANGED <<locked, cpuVars, old, held, trap, saved, phase, sintena>>

lock_release(c) ==
  LET x == on[c] IN
  /\ pc[x] = "unlock"
  /\ locked' = [locked EXCEPT ![arg[x]] = 0]
  /\ held' = [held EXCEPT ![x] = @ \ {arg[x]}]
  /\ pc' = [pc EXCEPT ![x] = "pop"]
  /\ UNCHANGED <<lcpu, cpuVars, arg, old, trap, saved, phase, sintena, panicked>>

\* The end of release; after that of p->lock, the thread is back from sched() or
\* goes on in forkret(), and the scheduler goes on to the next process.
pop_off(c) ==
  LET x == on[c] IN
  /\ pc[x] = "pop"
  /\ panicked' = (sie[c] = 1 \/ noff[c] < 1)
  /\ noff' = [noff EXCEPT ![c] = @ - 1]
  /\ sie' = IF noff[c] = 1 /\ intena[c] = 1 THEN [sie EXCEPT ![c] = 1] ELSE sie
  /\ phase' = IF arg[x] # Dev THEN [phase EXCEPT ![x] = "runs"] ELSE phase
  /\ arg' = [arg EXCEPT ![x] = None]
  /\ pc' = [pc EXCEPT ![x] = IF phase[x] = "forkret" THEN "forkret" ELSE "run"]
  /\ UNCHANGED <<lockVars, intena, on, old, held, trap, saved, sintena>>

-----------------------------------------------------------------------------
(* Traps and switches                                                      *)

\* An interrupt, between any two instructions while they are enabled.
kerneltrap(c) ==
  LET x == on[c] IN
  /\ sie[c] = 1
  /\ trap[x] = 0
  /\ sie' = [sie EXCEPT ![c] = 0]
  /\ trap' = [trap EXCEPT ![x] = 1]
  /\ saved' = [saved EXCEPT ![x] = [pc |-> pc[x], arg |-> arg[x], old |-> old[x]]]
  /\ pc' = [pc EXCEPT ![x] = "run"]
  /\ arg' = [arg EXCEPT ![x] = None]
  /\ old' = [old EXCEPT ![x] = 0]
  /\ UNCHANGED <<lockVars, noff, intena, on, held, phase, sintena, panicked>>

\* The handler is done; sret gives the flag back to the interrupted code.
\* kerneltrap panics when interrupts are enabled.
trap_return(c) ==
  LET x == on[c] IN
  /\ pc[x] = "run"
  /\ trap[x] = 1
  /\ held[x] = {}
  /\ sie' = [sie EXCEPT ![c] = 1]
  /\ trap' = [trap EXCEPT ![x] = 0]
  /\ pc' = [pc EXCEPT ![x] = saved[x].pc]
  /\ arg' = [arg EXCEPT ![x] = saved[x].arg]
  /\ old' = [old EXCEPT ![x] = saved[x].old]
  /\ saved' = [saved EXCEPT ![x] = NoFrame]
  /\ UNCHANGED <<lockVars, noff, intena, on, held, phase, sintena, panicked>>

\* sched(), with p->lock alone: its checks, then swtch to the scheduler, which
\* now has the lock.
sched(c) ==
  LET t == on[c] IN
  /\ t \in Thread
  /\ pc[t] = "run"
  /\ held[t] = {t}
  /\ phase[t] = "runs"
  /\ panicked' = (~holding(c, t) \/ noff[c] # 1 \/ sie[c] = 1)
  /\ sintena' = [sintena EXCEPT ![t] = intena[c]]
  /\ on' = [on EXCEPT ![c] = c]
  /\ held' = [held EXCEPT ![t] = {}, ![c] = {t}]
  /\ phase' = [phase EXCEPT ![t] = "saved", ![c] = "leaves"]
  /\ UNCHANGED <<lockVars, sie, noff, intena, pc, arg, old, trap, saved>>

\* Mutant of SwtchIntena: sched() does not restore intena either.
CpusIntena(c, t) == intena[c]

\* c->intena after the swtch: sched() restores its own, forkret() has none and
\* keeps the one of the CPU.
SwtchIntena(c, t) == IF phase[t] = "new" THEN intena[c] ELSE sintena[t]

\* scheduler(): swtch to the thread whose lock it has just taken, which returns
\* from its own swtch in sched(), or begins in forkret().
swtch(c, t) ==
  /\ on[c] = c
  /\ pc[c] = "run"
  /\ t \in held[c]
  /\ phase[t] \in {"saved", "new"}
  /\ phase[c] = "runs"
  /\ on' = [on EXCEPT ![c] = t]
  /\ held' = [held EXCEPT ![c] = {}, ![t] = {t}]
  /\ phase' = [phase EXCEPT ![t] = IF phase[t] = "new" THEN "forkret" ELSE "leaves"]
  /\ intena' = [intena EXCEPT ![c] = SwtchIntena(c, t)]
  /\ sintena' = [sintena EXCEPT ![t] = 1]
  /\ UNCHANGED <<lockVars, sie, noff, pc, arg, old, trap, saved, panicked>>

\* The end of forkret(): usertrapret() turns interrupts off, and sret on, for
\* user space.  (What the very first process does before, fsinit(), is left out.)
usertrapret(c) ==
  LET t == on[c] IN
  /\ pc[t] = "forkret"
  /\ sie' = [sie EXCEPT ![c] = 1]
  /\ pc' = [pc EXCEPT ![t] = "run"]
  /\ UNCHANGED <<lockVars, noff, intena, on, arg, old, held, trap, saved, phase, sintena, panicked>>

\* scheduler()'s outer loop: intr_on().
intr_on(c) ==
  /\ on[c] = c
  /\ pc[c] = "run"
  /\ held[c] = {}
  /\ trap[c] = 0
  /\ sie' = [sie EXCEPT ![c] = 1]
  /\ UNCHANGED <<lockVars, noff, intena, on, pc, arg, old, held, trap, saved, phase,
                 sintena, panicked>>

-----------------------------------------------------------------------------
Next ==
  /\ ~panicked
  /\ \E c \in Cpu :
       \/ \E l \in Lock : acquire(c, l) \/ release(c, l)
       \/ push_off(c) \/ test_and_set(c) \/ set_cpu(c) \/ lock_release(c) \/ pop_off(c)
       \/ kerneltrap(c) \/ trap_return(c) \/ sched(c) \/ usertrapret(c) \/ intr_on(c)
       \/ \E t \in Thread : swtch(c, t)

Spec == Init /\ [][Next]_vars

-----------------------------------------------------------------------------
(* Properties                                                              *)

\* A lock is in the hands of one context; holding() tells its CPU from every
\* other, at every instruction of an acquire or release on another CPU.
MutualExclusion ==
  /\ TypeOK
  /\ \A l \in Lock :
     /\ \A x, y \in Ctx : l \in held[x] /\ l \in held[y] => x = y
     /\ \A c \in Cpu : holding(c, l) => l \in held[on[c]]

\* push_off/pop_off "are matched", and intena "is a property of this kernel
\* thread, not this CPU": a thread without locks has interrupts on, unless it
\* is in a trap handler, whichever CPU it woke up on.  The exception is a new
\* process between forkret's release and usertrapret (pc "forkret"), which no
\* sched() has given an intena: it has the CPU's, and interrupts stay off when
\* the process before it yielded in a trap; no longer, once it has been in user
\* space.  None of the checks of acquire, release, pop_off and sched() fails:
\* no CPU spins on a lock it has itself, in an interrupt handler in particular.
IntrRestored ==
  ~panicked /\ \A c \in Cpu : on[c] \in Thread =>
     LET t == on[c] IN
     pc[t] = "run" /\ held[t] = {} => (sie[c] = 1 <=> trap[t] = 0)
=============================================================================
