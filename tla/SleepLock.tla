----------------------------- MODULE SleepLock ------------------------------
(***************************************************************************)
(* Sleeping and waking: scheduler(), sched(), yield(), sleep(), wakeup()   *)
(* and kill() of kernel/proc.c, driven by kernel/sleeplock.c, the plainest *)
(* client of sleep and wakeup, on several CPUs.                            *)
(*                                                                         *)
(* A spinlock is held by a CPU (struct spinlock's cpu field), so p->lock   *)
(* passes through swtch() from the process to the scheduler of the same    *)
(* CPU and back without changing hands in the code.  Acquiring a spinlock  *)
(* is a step that is possible while nobody holds it.  A section under one  *)
(* lock, in which nothing else is acquired, is one step.                   *)
(***************************************************************************)
EXTENDS Naturals, FiniteSets

CONSTANTS NPROC,   \* size of the process table
          Cpu,     \* the CPUs
          NoCpu    \* a free spinlock's holder

ASSUME ProcAssumption == NPROC \in Nat \ {0}
ASSUME CpuAssumption == NoCpu \notin Cpu

Proc == 1..NPROC
NoProc == 0       \* c->proc = 0: the CPU runs its scheduler

VARIABLES state,   \* p->state
          chan,    \* p->chan: 0, or "slk", the sleep-lock's address
          plock,   \* p->lock's holder
          onCpu,   \* c->proc
          ctx,     \* p's kernel stack: "running" on a CPU, inside "sched" before
                   \* swtch, "saved" by swtch, or "resumed" by the scheduler's swtch
          pc,      \* where p is in acquiresleep / releasesleep
          lk,      \* holder of the sleep-lock's inner spinlock lk->lk
          locked,  \* lk->locked
          owner,   \* lk->pid
          scan     \* loop index of wakeup(); only the holder of lk->lk uses it

vars == <<state, chan, plock, onCpu, ctx, pc, lk, locked, owner, scan>>

PC == {"out", "acquire", "test", "sleep", "mark", "asleep", "in", "release", "wakeup"}

TypeOK ==
  /\ state \in [Proc -> {"RUNNABLE", "RUNNING", "SLEEPING"}]
  /\ chan \in [Proc -> {"0", "slk"}]
  /\ plock \in [Proc -> Cpu \cup {NoCpu}]
  /\ onCpu \in [Cpu -> Proc \cup {NoProc}]
  /\ ctx \in [Proc -> {"running", "sched", "saved", "resumed"}]
  /\ pc \in [Proc -> PC]
  /\ lk \in Cpu \cup {NoCpu}
  /\ locked \in {0, 1}
  /\ owner \in Proc \cup {NoProc}
  /\ scan \in 1..NPROC + 1

\* Processes as fork leaves them: RUNNABLE, with a context that enters forkret.
Init ==
  /\ state = [p \in Proc |-> "RUNNABLE"]
  /\ chan = [p \in Proc |-> "0"]
  /\ plock = [p \in Proc |-> NoCpu]
  /\ onCpu = [c \in Cpu |-> NoProc]
  /\ ctx = [p \in Proc |-> "saved"]
  /\ pc = [p \in Proc |-> "out"]
  /\ lk = NoCpu
  /\ locked = 0
  /\ owner = NoProc
  /\ scan = 1

\* p executes kernel code on c.
Runs(c, p) == onCpu[c] = p /\ ctx[p] = "running"

-----------------------------------------------------------------------------
(* Scheduler and context switch                                            *)

\* scheduler(): take a RUNNABLE process and swtch to it, keeping p->lock.
\* The loop's order is left open; it looks at every process in turn.
scheduler_pick(c, p) ==
  /\ onCpu[c] = NoProc
  /\ plock[p] = NoCpu
  /\ state[p] = "RUNNABLE"
  /\ plock' = [plock EXCEPT ![p] = c]
  /\ state' = [state EXCEPT ![p] = "RUNNING"]
  /\ onCpu' = [onCpu EXCEPT ![c] = p]
  /\ ctx' = [ctx EXCEPT ![p] = "resumed"]
  /\ UNCHANGED <<chan, pc, lk, locked, owner, scan>>

\* The swtch in sched() saves p's registers; c is on the scheduler's stack.
swtch(c, p) ==
  /\ onCpu[c] = p
  /\ ctx[p] = "sched"
  /\ ctx' = [ctx EXCEPT ![p] = "saved"]
  /\ UNCHANGED <<state, chan, plock, onCpu, pc, lk, locked, owner, scan>>

\* scheduler(), back from swtch: c->proc = 0; release(&p->lock).
scheduler_back(c, p) ==
  /\ onCpu[c] = p
  /\ ctx[p] = "saved"
  /\ onCpu' = [onCpu EXCEPT ![c] = NoProc]
  /\ plock' = [plock EXCEPT ![p] = NoCpu]
  /\ UNCHANGED <<state, chan, ctx, pc, lk, locked, owner, scan>>

\* After sched() in yield(), sleep() or at forkret(): release p->lock; sleep()
\* clears p->chan first and goes on to reacquire lk.
resume(c, p) ==
  /\ onCpu[c] = p
  /\ ctx[p] = "resumed"
  /\ ctx' = [ctx EXCEPT ![p] = "running"]
  /\ plock' = [plock EXCEPT ![p] = NoCpu]
  /\ IF pc[p] = "asleep"
     THEN /\ chan' = [chan EXCEPT ![p] = "0"]
          /\ pc' = [pc EXCEPT ![p] = "acquire"]
     ELSE UNCHANGED <<chan, pc>>
  /\ UNCHANGED <<state, onCpu, lk, locked, owner, scan>>

\* (mutant) yield without acquire(&p->lock).
yieldUnlocked(c, p) ==
  /\ Runs(c, p)
  /\ pc[p] \in {"out", "acquire", "in", "release"}
  /\ state' = [state EXCEPT ![p] = "RUNNABLE"]
  /\ ctx' = [ctx EXCEPT ![p] = "sched"]
  /\ UNCHANGED <<chan, plock, onCpu, pc, lk, locked, owner, scan>>

\* A timer interrupt makes p yield(); interrupts are on only while the CPU
\* holds no spinlock.
yield(c, p) ==
  /\ Runs(c, p)
  /\ pc[p] \in {"out", "acquire", "in", "release"}
  /\ plock[p] = NoCpu
  /\ plock' = [plock EXCEPT ![p] = c]
  /\ state' = [state EXCEPT ![p] = "RUNNABLE"]
  /\ ctx' = [ctx EXCEPT ![p] = "sched"]
  /\ UNCHANGED <<chan, onCpu, pc, lk, locked, owner, scan>>

-----------------------------------------------------------------------------
(* acquiresleep                                                            *)

\* The call, up to acquire(&lk->lk).
acquiresleep(c, p) ==
  /\ Runs(c, p)
  /\ pc[p] = "out"
  /\ pc' = [pc EXCEPT ![p] = "acquire"]
  /\ UNCHANGED <<state, chan, plock, onCpu, ctx, lk, locked, owner, scan>>

acquire(c, p) ==
  /\ Runs(c, p)
  /\ pc[p] = "acquire"
  /\ lk = NoCpu
  /\ lk' = c
  /\ pc' = [pc EXCEPT ![p] = "test"]
  /\ UNCHANGED <<state, chan, plock, onCpu, ctx, locked, owner, scan>>

\* (mutant) acquiresleep with "if" for "while": taken without a second look.
takeUntested(c, p) ==
  /\ Runs(c, p)
  /\ pc[p] = "test"
  /\ locked' = 1
  /\ owner' = p
  /\ lk' = NoCpu
  /\ pc' = [pc EXCEPT ![p] = "in"]
  /\ UNCHANGED <<state, chan, plock, onCpu, ctx, scan>>

\* while (lk->locked) fails: take the lock and release(&lk->lk).
take(c, p) ==
  /\ Runs(c, p)
  /\ pc[p] = "test"
  /\ locked = 0
  /\ locked' = 1
  /\ owner' = p
  /\ lk' = NoCpu
  /\ pc' = [pc EXCEPT ![p] = "in"]
  /\ UNCHANGED <<state, chan, plock, onCpu, ctx, scan>>

\* while (lk->locked) holds: sleep(lk, &lk->lk), which acquires p->lock ...
sleep_lock(c, p) ==
  /\ Runs(c, p)
  /\ pc[p] = "test"
  /\ locked = 1
  /\ plock[p] = NoCpu
  /\ plock' = [plock EXCEPT ![p] = c]
  /\ pc' = [pc EXCEPT ![p] = "sleep"]
  /\ UNCHANGED <<state, chan, onCpu, ctx, lk, locked, owner, scan>>

\* ... then releases lk->lk ...
sleep_release(c, p) ==
  /\ Runs(c, p)
  /\ pc[p] = "sleep"
  /\ lk' = NoCpu
  /\ pc' = [pc EXCEPT ![p] = "mark"]
  /\ UNCHANGED <<state, chan, plock, onCpu, ctx, locked, owner, scan>>

\* ... and only then marks itself SLEEPING and calls sched().
sleep(c, p) ==
  /\ Runs(c, p)
  /\ pc[p] = "mark"
  /\ chan' = [chan EXCEPT ![p] = "slk"]
  /\ state' = [state EXCEPT ![p] = "SLEEPING"]
  /\ ctx' = [ctx EXCEPT ![p] = "sched"]
  /\ pc' = [pc EXCEPT ![p] = "asleep"]
  /\ UNCHANGED <<plock, onCpu, lk, locked, owner, scan>>

-----------------------------------------------------------------------------
(* releasesleep, wakeup and kill                                           *)

releasesleep(c, p) ==
  /\ Runs(c, p)
  /\ pc[p] = "in"
  /\ pc' = [pc EXCEPT ![p] = "release"]
  /\ UNCHANGED <<state, chan, plock, onCpu, ctx, lk, locked, owner, scan>>

\* acquire(&lk->lk); lk->locked = 0; lk->pid = 0; then the call of wakeup(lk).
unlock(c, p) ==
  /\ Runs(c, p)
  /\ pc[p] = "release"
  /\ lk = NoCpu
  /\ lk' = c
  /\ locked' = 0
  /\ owner' = NoProc
  /\ scan' = 1
  /\ pc' = [pc EXCEPT ![p] = "wakeup"]
  /\ UNCHANGED <<state, chan, plock, onCpu, ctx>>

\* (mutant) wakeup looks at a process without its lock.
wakeupUnlocked(c, p) ==
  /\ Runs(c, p)
  /\ pc[p] = "wakeup"
  /\ scan <= NPROC
  /\ state' = IF scan # p /\ state[scan] = "SLEEPING" /\ chan[scan] = "slk"
              THEN [state EXCEPT ![scan] = "RUNNABLE"]
              ELSE state
  /\ scan' = scan + 1
  /\ UNCHANGED <<chan, plock, onCpu, ctx, pc, lk, locked, owner>>

\* (mutant) releasesleep without its wakeup.
wakeupNobody(c, p) ==
  /\ Runs(c, p)
  /\ pc[p] = "wakeup"
  /\ scan <= NPROC
  /\ scan' = NPROC + 1
  /\ UNCHANGED <<state, chan, plock, onCpu, ctx, pc, lk, locked, owner>>

\* One turn of wakeup()'s loop, under the lock of the process it looks at.
wakeup(c, p) ==
  /\ Runs(c, p)
  /\ pc[p] = "wakeup"
  /\ scan <= NPROC
  /\ scan # p => plock[scan] = NoCpu
  /\ state' = IF scan # p /\ state[scan] = "SLEEPING" /\ chan[scan] = "slk"
              THEN [state EXCEPT ![scan] = "RUNNABLE"]
              ELSE state
  /\ scan' = scan + 1
  /\ UNCHANGED <<chan, plock, onCpu, ctx, pc, lk, locked, owner>>

\* wakeup() returns; release(&lk->lk).
woken(c, p) ==
  /\ Runs(c, p)
  /\ pc[p] = "wakeup"
  /\ scan = NPROC + 1
  /\ lk' = NoCpu
  /\ pc' = [pc EXCEPT ![p] = "out"]
  /\ UNCHANGED <<state, chan, plock, onCpu, ctx, locked, owner, scan>>

\* kill() of a sleeping process makes it RUNNABLE whatever it waits for.
kill(c, p, q) ==
  /\ Runs(c, p)
  /\ pc[p] = "out"
  /\ plock[q] = NoCpu
  /\ state[q] = "SLEEPING"
  /\ state' = [state EXCEPT ![q] = "RUNNABLE"]
  /\ UNCHANGED <<chan, plock, onCpu, ctx, pc, lk, locked, owner, scan>>

-----------------------------------------------------------------------------
Switch(c, p) ==
  \/ scheduler_pick(c, p) \/ swtch(c, p) \/ scheduler_back(c, p) \/ resume(c, p)

\* Steps a process takes by itself once it runs.
Step(c, p) ==
  \/ acquire(c, p) \/ take(c, p) \/ sleep_lock(c, p) \/ sleep_release(c, p)
  \/ sleep(c, p) \/ releasesleep(c, p) \/ unlock(c, p) \/ wakeup(c, p) \/ woken(c, p)

Next ==
  \E c \in Cpu, p \in Proc :
     \/ Switch(c, p) \/ Step(c, p) \/ yield(c, p) \/ acquiresleep(c, p)
     \/ \E q \in Proc : kill(c, p, q)

Spec == Init /\ [][Next]_vars

\* A process that runs takes its steps, spinlocks are granted, and the
\* scheduler's scan comes by every process: a process that is RUNNABLE over
\* and over is picked, whatever timer interrupts do.
Fairness ==
  \A p \in Proc :
    /\ SF_vars(\E c \in Cpu : scheduler_pick(c, p))
    /\ WF_vars(\E c \in Cpu : swtch(c, p) \/ scheduler_back(c, p) \/ resume(c, p))
    /\ SF_vars(\E c \in Cpu : Step(c, p))

FairSpec == Spec /\ Fairness

-----------------------------------------------------------------------------
(* Properties                                                              *)

\* acquiresleep and releasesleep give mutual exclusion, and lk->locked and
\* lk->pid describe the holder (holdingsleep relies on both).
MutualExclusion ==
  \A p \in Proc : pc[p] \in {"in", "release"} => locked = 1 /\ owner = p

\* The scheduler never runs a process on a stack another CPU still uses:
\* p->lock, held from before the state changes until after swtch, keeps every
\* other CPU off it (proc.c:451-462).
StackExclusive ==
  \A c \in Cpu, p \in Proc :
     /\ onCpu[c] = p => \A d \in Cpu \ {c} : onCpu[d] # p
     /\ ctx[p] # "saved" => \E d \in Cpu : onCpu[d] = p

\* Spinlocks held by a CPU: its noff, since every acquire pushes once.
Noff(c) == Cardinality({p \in Proc : plock[p] = c}) + (IF lk = c THEN 1 ELSE 0)

\* The checks of sched() never panic: it is entered holding p->lock and no
\* other lock, with p->state changed.
SchedChecks ==
  \A c \in Cpu, p \in Proc : onCpu[c] = p /\ ctx[p] = "sched" =>
     plock[p] = c /\ Noff(c) = 1 /\ state[p] # "RUNNING"

\* No wakeup is missed (proc.c:533-538): while the sleep-lock is free, a
\* process that is asleep on it, or has let go of lk->lk to fall asleep, is
\* one that a wakeup() under way has yet to reach.
NoLostWakeup ==
  \A p \in Proc : (state[p] = "SLEEPING" \/ pc[p] = "mark") /\ locked = 0 =>
     /\ scan <= p
     /\ \E q \in Proc : pc[q] = "wakeup"

\* A process asleep on a sleep-lock is woken.
SleepersWoken == \A p \in Proc : (state[p] = "SLEEPING") ~> (state[p] # "SLEEPING")
=============================================================================
