--------------------------- MODULE SpinlockProofs ---------------------------
(***************************************************************************)
(* Proofs about module Spinlock, for any number of threads and CPUs:       *)
(* MutualExclusion and IntrRestored, from the inductive invariant IndInv.  *)
(*                                                                         *)
(* The heart of IndInv is Flags: c->noff counts the locks of whatever runs *)
(* on c, those it is taking or giving back included (Depth), and while it  *)
(* is positive c->intena says whether the thread was in a trap handler.  A *)
(* trap keeps it because it finds no lock held; sched() and swtch do       *)
(* because each hands over exactly p->lock.  A new process has no intena   *)
(* of its own before it has been through forkret; Fresh says that it takes *)
(* no lock and is in no trap handler until its p->lock is given back.      *)
(***************************************************************************)
EXTENDS Spinlock, TLAPS

\* Inside acquire.
Acquiring == {"off", "spin", "setcpu"}

\* A CPU runs a thread or its own scheduler, a thread runs on one CPU at most, and
\* it runs unless it is in sched() or has never run.
Running ==
  /\ \A c \in Cpu : on[c] \in Thread \cup {c}
  /\ \A c, d \in Cpu : on[c] = on[d] => c = d
  /\ \A t \in Thread : phase[t] \in {"saved", "new"} <=> \A c \in Cpu : on[c] # t

\* A context that does not run has no lock; a thread remembers in sched() whether
\* it was in a trap handler, and a scheduler does not leave its handler for a thread.
Parked ==
  \A x \in Ctx : (\A c \in Cpu : on[c] # x) =>
     /\ held[x] = {} /\ pc[x] = "run"
     /\ x \in Thread /\ phase[x] = "saved" => sintena[x] = 1 - trap[x]
     /\ x \in Cpu => trap[x] = 0

\* A new process, before its first switch, up to the release of p->lock and after it.
FreshOf(x) ==
  /\ phase[x] = "new" => x \in Thread /\ trap[x] = 0
  /\ phase[x] = "forkret" => /\ x \in Thread /\ trap[x] = 0 /\ pc[x] \in {"run", "unlock", "pop"}
                             /\ held[x] = IF pc[x] = "pop" THEN {} ELSE {x}
                             /\ pc[x] # "run" => arg[x] = x
  /\ pc[x] = "forkret" => x \in Thread /\ trap[x] = 0 /\ held[x] = {}

\* The same for every context.
Fresh == \A x \in Ctx : FreshOf(x)

\* The locks that x may have, take and give back, which are those of the code
\* that calls acquire.
HandsOf(x) ==
  /\ x \in Thread => held[x] \subseteq {Dev, x}
  /\ x \in Cpu => /\ trap[x] = 1 => held[x] \subseteq {Dev}
                  /\ trap[x] = 0 => Dev \notin held[x]
                  /\ \A t, u \in Thread : t \in held[x] /\ u \in held[x] => t = u
  /\ pc[x] \in Acquiring =>
       /\ arg[x] \in Lock
       /\ x \in Thread => arg[x] \in {Dev, x} /\ held[x] \subseteq {Dev} /\ arg[x] \notin held[x]
       /\ x \in Cpu => held[x] = {} /\ (arg[x] = Dev <=> trap[x] = 1)
  /\ pc[x] = "unlock" => arg[x] \in held[x]
  /\ pc[x] = "pop" => /\ arg[x] \in Lock \ held[x]
                      /\ x \in Thread => arg[x] \in {Dev, x}
                      /\ x \in Cpu => held[x] = {}

\* The same for every context.
Hands == \A x \in Ctx : HandsOf(x)

\* Code is interrupted only where interrupts were enabled: with no lock, at most
\* on its way into push_off, which will then find that they were on.
FrameOf(x) ==
  trap[x] = 1 =>
     /\ saved[x].pc \in {"run", "off", "forkret"}
     /\ saved[x].pc = "forkret" => x \in Thread
     /\ saved[x].pc = "off" => /\ saved[x].old = 1
                               /\ x \in Thread => saved[x].arg \in {Dev, x}
                               /\ x \in Cpu => saved[x].arg \in Thread

\* The same for every context.
Frames == \A x \in Ctx : FrameOf(x)

\* x has l, or has won it and has still to write lk->cpu.
Owns(x, l) == l \in held[x] \/ (pc[x] = "setcpu" /\ arg[x] = l)

\* A lock has one owner, and is locked when it has one.
Owned ==
  \A l \in Lock :
     /\ \A x, y \in Ctx : Owns(x, l) /\ Owns(y, l) => x = y
     /\ locked[l] = 1 <=> \E x \in Ctx : Owns(x, l)

\* What runs on c has l, and has not begun to release it.
Claims(c, l) == l \in held[on[c]] /\ ~(pc[on[c]] = "unlock" /\ arg[on[c]] = l)

\* lk->cpu names the CPU that claims the lock.
Claimed == \A c \in Cpu, l \in Lock : lcpu[l] = c <=> Claims(c, l)

\* How many push_offs of x are still to be matched.
Depth(x) == (IF Dev \in held[x] THEN 1 ELSE 0) + (IF held[x] \cap Thread # {} THEN 1 ELSE 0)
            + (IF pc[x] \in {"spin", "setcpu", "pop"} THEN 1 ELSE 0)

\* The interrupt state of c while x runs on it.
FlagsOf(c, x) ==
  /\ noff[c] = Depth(x)
  /\ noff[c] > 0 => sie[c] = 0
  /\ pc[x] = "off" => old[x] = sie[c]
  /\ x \in Thread => IF noff[c] = 0 THEN sie[c] = 1 - trap[x] \/ pc[x] = "forkret"
                                    ELSE intena[c] = 1 - trap[x] \/ phase[x] = "forkret"
  /\ x \in Cpu /\ trap[x] = 1 => sie[c] = 0 /\ (noff[c] > 0 => intena[c] = 0)

\* The same for every CPU.
Flags == \A c \in Cpu : FlagsOf(c, on[c])

\* The inductive invariant.
IndInv ==
  /\ TypeOK /\ Running /\ Parked /\ Fresh /\ Hands /\ Frames /\ Owned /\ Claimed /\ Flags
  /\ ~panicked

\* A step of CPU c.
CpuStep(c) ==
  \/ \E l \in Lock : acquire(c, l) \/ release(c, l)
  \/ push_off(c) \/ test_and_set(c) \/ set_cpu(c) \/ lock_release(c) \/ pop_off(c)
  \/ kerneltrap(c) \/ trap_return(c) \/ sched(c) \/ usertrapret(c) \/ intr_on(c)
  \/ \E t \in Thread : swtch(c, t)

\* What the conjuncts about contexts, locks and flags say together.
Rest == Hands /\ Frames /\ Owned /\ Claimed /\ Flags /\ ~panicked

\* What is known of the context that runs on c before c takes a step.
LEMMA At ==
  ASSUME IndInv, NEW c \in Cpu, NEW x, x = on[c]
  PROVE  /\ x \in Ctx /\ x \in Thread \cup {c} /\ FreshOf(x) /\ HandsOf(x) /\ FrameOf(x) /\ FlagsOf(c, x)
         /\ pc[x] \in PC /\ arg[x] \in Lock \cup {None} /\ held[x] \subseteq Lock
         /\ trap[x] \in {0, 1} /\ old[x] \in {0, 1} /\ sie[c] \in {0, 1} /\ intena[c] \in {0, 1}
         /\ noff[c] \in Nat
  <1>1. x \in Ctx /\ x \in Thread \cup {c}
    BY Zenon DEF IndInv, TypeOK, Running
  <1>2. FreshOf(x) /\ HandsOf(x) /\ FrameOf(x)
    BY <1>1, Zenon DEF IndInv, Fresh, Hands, Frames
  <1>3. FlagsOf(c, x)
    BY Zenon DEF IndInv, Flags
  <1> QED
    BY <1>1, <1>2, <1>3, Zenon DEF IndInv, TypeOK

\* Threads, CPUs and the device's lock are different things.
LEMMA Apart ==
  ASSUME NEW c \in Cpu, NEW t \in Thread
  PROVE  /\ c # t /\ c \notin Thread /\ t \notin Cpu /\ c \in Ctx /\ t \in Ctx
         /\ t \in Lock /\ Dev \in Lock /\ t # Dev /\ Dev \notin Thread
  BY NameAssumption, Zenon DEF Ctx, Lock

\* Depth counts the push_offs still to be matched, at most three.
LEMMA DepthFacts ==
  ASSUME NEW x
  PROVE  /\ Depth(x) \in Nat
         /\ pc[x] \in {"spin", "setcpu", "pop"} => Depth(x) > 0
         /\ Depth(x) = 0 => /\ Dev \notin held[x] /\ held[x] \cap Thread = {}
                            /\ pc[x] \notin {"spin", "setcpu", "pop"}
         /\ held[x] = {} /\ pc[x] \notin {"spin", "setcpu", "pop"} => Depth(x) = 0
  BY DEF Depth

\* Code that interrupts may interrupt has no lock and is not about to get one.
LEMMA Quiet ==
  ASSUME IndInv, NEW c \in Cpu, NEW x, x = on[c], sie[c] = 1 \/ noff[c] = 0
  PROVE  held[x] = {} /\ pc[x] \in {"run", "off", "unlock", "forkret"} /\ noff[c] = 0 /\ Depth(x) = 0
  <1>1. noff[c] = 0 /\ noff[c] = Depth(x)
    BY At DEF FlagsOf
  <1>2. held[x] \subseteq Lock /\ pc[x] \in PC
    BY At, Zenon
  <1> QED
    BY <1>1, <1>2, DepthFacts, Zenon DEF PC, Lock

\* Context y stays as it is.
Same(y) ==
  /\ held'[y] = held[y] /\ pc'[y] = pc[y] /\ arg'[y] = arg[y]
  /\ old'[y] = old[y] /\ trap'[y] = trap[y] /\ saved'[y] = saved[y] /\ phase'[y] = phase[y]

\* CPU d stays as it is.
Idle(d) ==
  on'[d] = on[d] /\ noff'[d] = noff[d] /\ sie'[d] = sie[d] /\ intena'[d] = intena[d]

\* A step of c touches c, the context it runs and the one it will run, no other.
LEMMA Elsewhere ==
  ASSUME IndInv, NEW c \in Cpu, CpuStep(c)
  PROVE  /\ \A y \in Ctx : y # on[c] /\ y # on'[c] => Same(y)
         /\ \A d \in Cpu : d # c => Idle(d)
  <1> USE DEF IndInv, TypeOK, lockVars, cpuVars, Same, Idle
  <1>1. ASSUME NEW l \in Lock, acquire(c, l) \/ release(c, l)
        PROVE  /\ \A y \in Ctx : y # on[c] /\ y # on'[c] => Same(y)
               /\ \A d \in Cpu : d # c => Idle(d)
    BY <1>1, Zenon DEF acquire, release
  <1>2. CASE push_off(c) \/ test_and_set(c) \/ set_cpu(c)
    BY <1>2 DEF push_off, test_and_set, set_cpu
  <1>3. CASE lock_release(c) \/ pop_off(c)
    <2>1. CASE lock_release(c)
      BY <2>1, ZenonT(40) DEF lock_release
    <2>2. CASE pop_off(c)
      BY <2>2, ZenonT(40) DEF pop_off
    <2> QED
      BY <1>3, <2>1, <2>2, Zenon
  <1>4. CASE kerneltrap(c) \/ trap_return(c)
    BY <1>4 DEF kerneltrap, trap_return
  <1>5. CASE sched(c) \/ usertrapret(c) \/ intr_on(c)
    <2>1. CASE sched(c)
      BY <2>1 DEF sched
    <2>2. CASE usertrapret(c) \/ intr_on(c)
      BY <2>2, Zenon DEF usertrapret, intr_on
    <2> QED
      BY <1>5, <2>1, <2>2, Zenon
  <1>6. ASSUME NEW t \in Thread, swtch(c, t)
        PROVE  /\ \A y \in Ctx : y # on[c] /\ y # on'[c] => Same(y)
               /\ \A d \in Cpu : d # c => Idle(d)
    BY <1>6, Zenon DEF swtch
  <1> QED
    BY <1>1, <1>2, <1>3, <1>4, <1>5, <1>6, Zenon DEF CpuStep

\* What another CPU runs is neither what c runs nor what c will run.
LEMMA Others ==
  ASSUME IndInv, NEW c \in Cpu, CpuStep(c), Running', NEW d \in Cpu, d # c
  PROVE  on[d] \in Ctx /\ on'[d] = on[d] /\ Same(on[d]) /\ Idle(d)
  <1>1. Idle(d)
    BY Elsewhere, Zenon
  <1>2. on[d] \in Ctx /\ on[d] # on[c] /\ on[d] # on'[c]
    BY <1>1 DEF IndInv, TypeOK, Running, Idle
  <1> QED
    BY <1>1, <1>2, Elsewhere, Zenon DEF Idle

\* Conjuncts about contexts need a look only at those two,
LEMMA HandsFrames ==
  ASSUME IndInv, NEW c \in Cpu, CpuStep(c), NEW x, x = on[c], NEW z, z = on'[c],
         HandsOf(x)', HandsOf(z)', FrameOf(x)', FrameOf(z)'
  PROVE  Hands' /\ Frames'
  <1>1. ASSUME NEW y \in Ctx, y # x, y # z PROVE HandsOf(y)' /\ FrameOf(y)'
    <2>1. Same(y)
      BY <1>1, Elsewhere, Zenon
    <2>2. HandsOf(y) /\ FrameOf(y)
      BY Zenon DEF IndInv, Hands, Frames
    <2>3. HandsOf(y)'
      BY <2>1, <2>2, Zenon DEF Same, HandsOf
    <2>4. FrameOf(y)'
      BY <2>1, <2>2, Zenon DEF Same, FrameOf
    <2> QED
      BY <2>3, <2>4, Zenon
  <1> QED
    BY <1>1, Zenon DEF Hands, Frames

\* and those about CPUs at c.
LEMMA FlagsAt ==
  ASSUME IndInv, NEW c \in Cpu, CpuStep(c), Running', NEW z, z = on'[c], FlagsOf(c, z)'
  PROVE  Flags'
  <1>1. ASSUME NEW d \in Cpu, d # c PROVE FlagsOf(d, on[d])'
    <2>1. PICK y : y = on[d]
      BY Zenon
    <2>2. FlagsOf(d, y) /\ on'[d] = y /\ Same(y) /\ Idle(d)
      BY <1>1, <2>1, Others, Zenon DEF IndInv, Flags
    <2>3. Depth(y)' = Depth(y)
      BY <2>2, Zenon DEF Depth, Same
    <2>4. FlagsOf(d, y)'
      BY <2>2, <2>3, Zenon DEF FlagsOf, Same, Idle
    <2> QED
      BY <2>2, <2>4, Zenon
  <1> QED
    BY <1>1, Zenon DEF Flags

\* The same for the claims on locks.
LEMMA ClaimsElsewhere ==
  ASSUME IndInv, NEW c \in Cpu, CpuStep(c), Running', NEW d \in Cpu, d # c, NEW m \in Lock
  PROVE  Claims(d, m)' <=> Claims(d, m)
  <1>1. on'[d] = on[d] /\ Same(on[d])
    BY Others, Zenon
  <1> QED
    BY <1>1, Zenon DEF Claims, Same

\* No claim changes, or
LEMMA ClaimedSame ==
  ASSUME IndInv, NEW c \in Cpu, CpuStep(c), Running', lcpu' = lcpu,
         \A m \in Lock : Claims(c, m)' <=> Claims(c, m)
  PROVE  Claimed'
  <1>1. \A d \in Cpu, m \in Lock : Claims(d, m)' <=> Claims(d, m)
    BY ClaimsElsewhere, Zenon
  <1> QED
    BY <1>1, Zenon DEF IndInv, Claimed

\* that of c on l does, and lk->cpu with it.
LEMMA ClaimedChange ==
  ASSUME IndInv, NEW c \in Cpu, CpuStep(c), Running', NEW l \in Lock, NEW v,
         lcpu' = [lcpu EXCEPT ![l] = v], v \in {None, c}, 
         Claims(c, l)' <=> v = c,
         \A m \in Lock : m # l => (Claims(c, m)' <=> Claims(c, m)),
         \A d \in Cpu : d # c => ~Claims(d, l)
  PROVE  Claimed'
  <1> SUFFICES ASSUME NEW d \in Cpu, NEW m \in Lock PROVE lcpu'[m] = d <=> Claims(d, m)'
    BY Zenon DEF Claimed
  <1>1. lcpu[m] = d <=> Claims(d, m)
    BY Zenon DEF IndInv, Claimed
  <1>2. lcpu'[m] = IF m = l THEN v ELSE lcpu[m]
    BY Zenon DEF IndInv, TypeOK
  <1>3. d # c => (Claims(d, m)' <=> Claims(d, m))
    BY ClaimsElsewhere, Zenon
  <1>4. d # None
    BY NameAssumption, Zenon
  <1> QED
    BY <1>1, <1>2, <1>3, <1>4

\* Ownership elsewhere does not change,
LEMMA OwnsElsewhere ==
  ASSUME IndInv, NEW c \in Cpu, CpuStep(c), NEW y \in Ctx, y # on[c], y # on'[c], NEW m \in Lock
  PROVE  Owns(y, m)' <=> Owns(y, m)
  <1>1. Same(y)
    BY Elsewhere, Zenon
  <1> QED
    BY <1>1, Zenon DEF Owns, Same

\* How ownership changes hands: not at all,
LEMMA OwnedSame ==
  ASSUME IndInv, NEW c \in Cpu, CpuStep(c), NEW x \in Ctx, x = on[c], x = on'[c],
         locked' = locked, \A m \in Lock : Owns(x, m)' <=> Owns(x, m)
  PROVE  Owned'
  <1>1. \A y \in Ctx, m \in Lock : Owns(y, m)' <=> Owns(y, m)
    BY OwnsElsewhere, Zenon
  <1>2. Owned
    BY Zenon DEF IndInv
  <1> QED
    BY <1>1, <1>2, Zenon DEF Owned

\* by the test-and-set of a free lock,
LEMMA OwnedTake ==
  ASSUME IndInv, NEW c \in Cpu, CpuStep(c), NEW x \in Ctx, x = on[c], x = on'[c],
         NEW l \in Lock, locked[l] = 0, locked' = [locked EXCEPT ![l] = 1],
         \A m \in Lock : Owns(x, m)' <=> Owns(x, m) \/ m = l
  PROVE  Owned'
  <1>1. \A y \in Ctx, m \in Lock : Owns(y, m)' <=> Owns(y, m) \/ (y = x /\ m = l)
    BY OwnsElsewhere, Zenon
  <1>2. Owned /\ \A m \in Lock : locked'[m] = IF m = l THEN 1 ELSE locked[m]
    BY Zenon DEF IndInv, TypeOK
  <1> QED
    BY <1>1, <1>2 DEF Owned

\* by its release,
LEMMA OwnedGive ==
  ASSUME IndInv, NEW c \in Cpu, CpuStep(c), NEW x \in Ctx, x = on[c], x = on'[c],
         NEW l \in Lock, Owns(x, l), locked' = [locked EXCEPT ![l] = 0],
         \A m \in Lock : Owns(x, m)' <=> Owns(x, m) /\ m # l
  PROVE  Owned'
  <1>1. \A y \in Ctx, m \in Lock : Owns(y, m)' <=> Owns(y, m) /\ ~(y = x /\ m = l)
    BY OwnsElsewhere, Zenon
  <1>2. Owned /\ \A m \in Lock : locked'[m] = IF m = l THEN 0 ELSE locked[m]
    BY Zenon DEF IndInv, TypeOK
  <1> QED
    BY <1>1, <1>2 DEF Owned

\* and from one context to the next in swtch.
LEMMA OwnedMove ==
  ASSUME IndInv, NEW c \in Cpu, CpuStep(c), NEW x \in Ctx, x = on[c], NEW z \in Ctx, z = on'[c],
         x # z, locked' = locked, NEW l \in Lock,
         \A m \in Lock : (Owns(x, m) <=> m = l) /\ ~Owns(z, m),
         \A m \in Lock : (Owns(z, m)' <=> m = l) /\ ~Owns(x, m)'
  PROVE  Owned'
  <1>0. Owned /\ \A y \in Ctx, m \in Lock : y # x /\ y # z => (Owns(y, m)' <=> Owns(y, m))
    BY OwnsElsewhere, Zenon DEF IndInv
  <1>1. ASSUME NEW m \in Lock, NEW a \in Ctx, NEW b \in Ctx, Owns(a, m)', Owns(b, m)' PROVE a = b
    BY <1>0, <1>1 DEF Owned
  <1>2. ASSUME NEW m \in Lock PROVE (\E y \in Ctx : Owns(y, m)') <=> \E y \in Ctx : Owns(y, m)
    <2>1. CASE m = l
      BY <2>1, Zenon
    <2>2. CASE m # l
      BY <1>0, <2>2, Zenon
    <2> QED
      BY <2>1, <2>2, Zenon
  <1> QED
    BY <1>0, <1>1, <1>2, Zenon DEF Owned

-----------------------------------------------------------------------------
(* The steps of acquire and release preserve Rest                          *)

\* acquire(l) reads the interrupt flag.
LEMMA AcquireKeeps ==
  ASSUME IndInv, Running', NEW c \in Cpu, NEW l \in Lock, NEW x, x = on[c], acquire(c, l)
  PROVE  Rest'
  <1>0. /\ CpuStep(c) /\ x \in Ctx /\ x \in Thread \cup {c}
        /\ HandsOf(x) /\ FrameOf(x) /\ FlagsOf(c, x)
    BY At, Zenon DEF CpuStep
  <1>1. /\ on'[c] = x /\ phase' = phase /\ held' = held /\ pc[x] = "run" /\ pc'[x] = "off" /\ arg'[x] = l
        /\ old'[x] = sie[c] /\ trap' = trap /\ saved' = saved /\ locked' = locked /\ lcpu' = lcpu
        /\ noff' = noff /\ sie' = sie /\ intena' = intena /\ panicked' = panicked
    BY <1>0, Zenon DEF IndInv, TypeOK, acquire, lockVars, cpuVars
  <1>2. HandsOf(x)'
    BY <1>0, <1>1, NameAssumption DEF acquire, MayAcquire, HandsOf, Acquiring
  <1>3. FrameOf(x)'
    BY <1>0, <1>1, Zenon DEF FrameOf
  <1>4. FlagsOf(c, x)'
    <2>1. Depth(x)' = Depth(x)
      BY <1>1, Zenon DEF Depth
    <2> QED
      BY <1>0, <1>1, <2>1, Zenon DEF FlagsOf
  <1>5. \A m \in Lock : Owns(x, m)' <=> Owns(x, m)
    BY <1>1, Zenon DEF Owns
  <1>6. \A m \in Lock : Claims(c, m)' <=> Claims(c, m)
    BY <1>1, Zenon DEF Claims
  <1> QED
    BY <1>0, <1>1, <1>2, <1>3, <1>4, <1>5, <1>6, HandsFrames, FlagsAt, OwnedSame, ClaimedSame,
       Zenon
       DEF Rest, IndInv

\* push_off; acquire's check does not fail.
LEMMA PushOffKeeps ==
  ASSUME IndInv, Running', NEW c \in Cpu, NEW x, x = on[c], push_off(c)
  PROVE  Rest'
  <1>0. /\ CpuStep(c) /\ x \in Ctx /\ HandsOf(x) /\ FrameOf(x) /\ FlagsOf(c, x)
        /\ noff[c] \in Nat /\ trap[x] \in {0, 1}
    BY At, Zenon DEF CpuStep
  <1>1. /\ on'[c] = x /\ phase' = phase /\ held' = held /\ pc[x] = "off" /\ pc'[x] = "spin" /\ arg' = arg
        /\ old' = old /\ trap' = trap /\ saved' = saved /\ locked' = locked /\ lcpu' = lcpu
        /\ noff'[c] = noff[c] + 1 /\ sie'[c] = 0
        /\ intena'[c] = IF noff[c] = 0 THEN old[x] ELSE intena[c]
    BY <1>0, Zenon DEF IndInv, TypeOK, push_off, Intena, lockVars
  <1>2. HandsOf(x)'
    BY <1>0, <1>1, Zenon DEF HandsOf, Acquiring
  <1>3. FrameOf(x)'
    BY <1>0, <1>1, Zenon DEF FrameOf
  <1>4. FlagsOf(c, x)'
    <2>1. Depth(x)' = Depth(x) + 1
      BY <1>1 DEF Depth
    <2> QED
      BY <1>0, <1>1, <2>1 DEF FlagsOf
  <1>5. \A m \in Lock : Owns(x, m)' <=> Owns(x, m)
    BY <1>1, Zenon DEF Owns
  <1>6. \A m \in Lock : Claims(c, m)' <=> Claims(c, m)
    BY <1>1, Zenon DEF Claims
  <1>7. ~panicked'
    <2>1. arg[x] \in Lock /\ arg[x] \notin held[x]
      BY <1>0, <1>1, At, Zenon DEF HandsOf, Acquiring, Ctx
    <2>2. lcpu[arg[x]] # c
      BY <2>1, Zenon DEF IndInv, Claimed, Claims
    <2> QED
      BY <2>2, Zenon DEF push_off, holding
  <1> QED
    BY <1>0, <1>1, <1>2, <1>3, <1>4, <1>5, <1>6, <1>7, HandsFrames, FlagsAt, OwnedSame,
       ClaimedSame, Zenon
       DEF Rest

\* The test-and-set makes the context the owner of a free lock.
LEMMA TestAndSetKeeps ==
  ASSUME IndInv, Running', NEW c \in Cpu, NEW x, x = on[c], test_and_set(c)
  PROVE  Rest'
  <1>0. /\ CpuStep(c) /\ x \in Ctx /\ HandsOf(x) /\ FrameOf(x) /\ FlagsOf(c, x)
    BY At, Zenon DEF CpuStep
  <1>1. /\ on'[c] = x /\ phase' = phase /\ held' = held /\ pc[x] = "spin" /\ pc'[x] = "setcpu" /\ arg' = arg
        /\ old' = old /\ trap' = trap /\ saved' = saved /\ lcpu' = lcpu
        /\ noff' = noff /\ sie' = sie /\ intena' = intena /\ panicked' = panicked
    BY <1>0, Zenon DEF IndInv, TypeOK, test_and_set, cpuVars
  <1>2. HandsOf(x)'
    BY <1>0, <1>1, Zenon DEF HandsOf, Acquiring
  <1>3. FrameOf(x)'
    BY <1>0, <1>1, Zenon DEF FrameOf
  <1>4. FlagsOf(c, x)'
    <2>1. Depth(x)' = Depth(x)
      BY <1>1, Zenon DEF Depth
    <2> QED
      BY <1>0, <1>1, <2>1, Zenon DEF FlagsOf
  <1>5. Owned'
    <2>1. arg[x] \in Lock /\ locked[arg[x]] = 0 /\ locked' = [locked EXCEPT ![arg[x]] = 1]
      BY <1>0, <1>1, Zenon DEF HandsOf, Acquiring, test_and_set
    <2>2. \A m \in Lock : Owns(x, m)' <=> Owns(x, m) \/ m = arg[x]
      BY <1>1, Zenon DEF Owns
    <2> QED
      BY <1>0, <1>1, <2>1, <2>2, OwnedTake, Zenon
  <1>6. \A m \in Lock : Claims(c, m)' <=> Claims(c, m)
    BY <1>1, Zenon DEF Claims
  <1> QED
    BY <1>0, <1>1, <1>2, <1>3, <1>4, <1>5, <1>6, HandsFrames, FlagsAt, ClaimedSame, Zenon
       DEF Rest, IndInv

\* lk->cpu = mycpu(), and acquire returns.
LEMMA SetCpuKeeps ==
  ASSUME IndInv, Running', NEW c \in Cpu, NEW x, x = on[c], NEW l, l = arg[x], set_cpu(c)
  PROVE  Rest'
  <1>0. /\ CpuStep(c) /\ x \in Ctx /\ HandsOf(x) /\ FrameOf(x) /\ FlagsOf(c, x)
    BY At, Zenon DEF CpuStep
  <1>1. /\ on'[c] = x /\ phase' = phase /\ held'[x] = held[x] \cup {l} /\ pc[x] = "setcpu" /\ pc'[x] = "run"
        /\ trap' = trap /\ saved' = saved /\ locked' = locked
        /\ noff' = noff /\ sie' = sie /\ intena' = intena /\ panicked' = panicked
    BY <1>0, Zenon DEF IndInv, TypeOK, set_cpu, cpuVars
  <1>a. l \in Lock /\ lcpu' = [lcpu EXCEPT ![l] = c]
    BY <1>0, <1>1, Zenon DEF HandsOf, Acquiring, set_cpu
  <1>2. HandsOf(x)'
    <2>1. /\ x \in Thread => l \in {Dev, x} /\ held[x] \subseteq {Dev}
          /\ x \in Cpu => held[x] = {} /\ (l = Dev <=> trap[x] = 1)
      BY <1>0, <1>1, Zenon DEF HandsOf, Acquiring
    <2>2. x \in Thread => held'[x] \subseteq {Dev, x}
      BY <1>1, <2>1, Zenon
    <2>3. x \in Cpu => /\ trap'[x] = 1 => held'[x] \subseteq {Dev}
                       /\ trap'[x] = 0 => Dev \notin held'[x]
                       /\ \A t, u \in Thread : t \in held'[x] /\ u \in held'[x] => t = u
      BY <1>1, <2>1
    <2> QED
      BY <1>1, <2>2, <2>3, Zenon DEF HandsOf, Acquiring
  <1>3. FrameOf(x)'
    BY <1>0, <1>1, Zenon DEF FrameOf
  <1>4. FlagsOf(c, x)'
    <2>1. Depth(x)' = Depth(x)
      BY <1>0, <1>1, <1>a, NameAssumption DEF Depth, HandsOf, Acquiring, Ctx, Lock
    <2> QED
      BY <1>0, <1>1, <2>1, Zenon DEF FlagsOf
  <1>5. \A m \in Lock : Owns(x, m)' <=> Owns(x, m)
    BY <1>1, Zenon DEF Owns
  <1>6. Claimed'
    <2>1. Claims(c, l)' /\ \A m \in Lock : m # l => (Claims(c, m)' <=> Claims(c, m))
      BY <1>1, Zenon DEF Claims
    <2>2. ASSUME NEW d \in Cpu, d # c PROVE ~Claims(d, l)
      <3>1. on[d] \in Ctx /\ on[d] # x
        BY <2>2, Zenon DEF IndInv, TypeOK, Running
      <3>2. ~Owns(on[d], l)
        BY <1>0, <1>1, <1>a, <3>1, Zenon DEF IndInv, Owned, Owns
      <3> QED
        BY <3>2, Zenon DEF Owns, Claims
    <2> QED
      BY <1>0, <1>a, <2>1, <2>2, ClaimedChange, Zenon
  <1> QED
    BY <1>0, <1>1, <1>2, <1>3, <1>4, <1>5, <1>6, HandsFrames, FlagsAt, OwnedSame, Zenon
       DEF Rest, IndInv

\* release checks that it has the lock, and clears lk->cpu.
LEMMA ReleaseKeeps ==
  ASSUME IndInv, Running', NEW c \in Cpu, NEW l \in Lock, NEW x, x = on[c], release(c, l)
  PROVE  Rest'
  <1>0. /\ CpuStep(c) /\ x \in Ctx /\ HandsOf(x) /\ FrameOf(x) /\ FlagsOf(c, x)
    BY At, Zenon DEF CpuStep
  <1>1. /\ on'[c] = x /\ phase' = phase /\ held' = held /\ pc[x] = "run" /\ pc'[x] = "unlock" /\ arg'[x] = l
        /\ old' = old /\ trap' = trap /\ saved' = saved /\ locked' = locked
        /\ lcpu' = [lcpu EXCEPT ![l] = None] /\ l \in held[x]
        /\ noff' = noff /\ sie' = sie /\ intena' = intena
    BY <1>0, Zenon DEF IndInv, TypeOK, release, MayRelease, CpuCleared, cpuVars
  <1>2. HandsOf(x)'
    BY <1>0, <1>1 DEF HandsOf, Acquiring
  <1>3. FrameOf(x)'
    BY <1>0, <1>1, Zenon DEF FrameOf
  <1>4. FlagsOf(c, x)'
    <2>1. Depth(x)' = Depth(x)
      BY <1>1, Zenon DEF Depth
    <2> QED
      BY <1>0, <1>1, <2>1 DEF FlagsOf
  <1>5. \A m \in Lock : Owns(x, m)' <=> Owns(x, m)
    BY <1>1, Zenon DEF Owns
  <1>6. Claimed'
    <2>1. ~Claims(c, l)' /\ \A m \in Lock : m # l => (Claims(c, m)' <=> Claims(c, m))
      BY <1>1, Zenon DEF Claims
    <2>2. ASSUME NEW d \in Cpu, d # c PROVE ~Claims(d, l)
      <3>1. on[d] \in Ctx /\ on[d] # x
        BY <2>2, Zenon DEF IndInv, TypeOK, Running
      <3>2. ~Owns(on[d], l)
        BY <1>0, <1>1, <3>1, Zenon DEF IndInv, Owned, Owns
      <3> QED
        BY <3>2, Zenon DEF Owns, Claims
    <2>3. None # c
      BY NameAssumption, Zenon
    <2> QED
      BY <1>0, <1>1, <2>1, <2>2, <2>3, ClaimedChange, Zenon
  <1>7. ~panicked'
    <2>1. Claims(c, l) /\ Owns(x, l)
      BY <1>1, Zenon DEF Claims, Owns
    <2>2. lcpu[l] = c /\ locked[l] = 1
      BY <1>0, <2>1, Zenon DEF IndInv, Claimed, Owned
    <2> QED
      BY <2>2, Zenon DEF release, holding
  <1> QED
    BY <1>0, <1>1, <1>2, <1>3, <1>4, <1>5, <1>6, <1>7, HandsFrames, FlagsAt, OwnedSame, Zenon
       DEF Rest

\* The lock is free.
LEMMA LockReleaseKeeps ==
  ASSUME IndInv, Running', NEW c \in Cpu, NEW x, x = on[c], NEW l, l = arg[x], lock_release(c)
  PROVE  Rest'
  <1>0. /\ CpuStep(c) /\ x \in Ctx /\ HandsOf(x) /\ FrameOf(x) /\ FlagsOf(c, x)
        /\ held[x] \subseteq Lock
    BY At, Zenon DEF CpuStep
  <1>1. /\ on'[c] = x /\ phase' = phase /\ held'[x] = held[x] \ {l} /\ pc[x] = "unlock" /\ pc'[x] = "pop"
        /\ arg' = arg /\ old' = old /\ trap' = trap /\ saved' = saved /\ lcpu' = lcpu
        /\ noff' = noff /\ sie' = sie /\ intena' = intena /\ panicked' = panicked
    BY <1>0, Zenon DEF IndInv, TypeOK, lock_release, cpuVars
  <1>a. l \in held[x] /\ l \in Lock
    BY <1>0, <1>1, Zenon DEF HandsOf
  <1>2. HandsOf(x)'
    <2>1. /\ x \in Thread => held[x] \subseteq {Dev, x}
          /\ x \in Cpu => /\ trap[x] = 1 => held[x] \subseteq {Dev}
                          /\ trap[x] = 0 => Dev \notin held[x]
                          /\ \A t, u \in Thread : t \in held[x] /\ u \in held[x] => t = u
      BY <1>0, Zenon DEF HandsOf
    <2>2. /\ x \in Thread => held'[x] \subseteq {Dev, x}
          /\ x \in Cpu => /\ trap'[x] = 1 => held'[x] \subseteq {Dev}
                          /\ trap'[x] = 0 => Dev \notin held'[x]
                          /\ \A t, u \in Thread : t \in held'[x] /\ u \in held'[x] => t = u
      BY <1>1, <2>1, Zenon
    <2>3. arg'[x] \in Lock \ held'[x] /\ (x \in Thread => arg'[x] \in {Dev, x})
      BY <1>1, <1>a, <2>1, Zenon
    <2>4. x \in Cpu => held'[x] = {}
      <3>1. x \in Cpu => held[x] \subseteq {l}
        <4>1. x \in Cpu => trap[x] \in {0, 1}
          BY <1>0, Zenon DEF IndInv, TypeOK
        <4>2. held[x] \subseteq Thread \cup {Dev}
          BY <1>0, Zenon DEF Lock
        <4> QED
          BY <1>a, <2>1, <4>1, <4>2
      <3> QED
        BY <1>1, <3>1, Zenon
    <2> QED
      BY <1>1, <2>2, <2>3, <2>4, Zenon DEF HandsOf, Acquiring
  <1>3. FrameOf(x)'
    BY <1>0, <1>1, Zenon DEF FrameOf
  <1>4. FlagsOf(c, x)'
    <2>1. Depth(x)' = Depth(x)
      <3>1. CASE l = Dev
        BY <1>1, <1>a, <3>1, NameAssumption DEF Depth
      <3>2. CASE l \in Thread
        <4>1. held'[x] \cap Thread = {}
          BY <1>0, <1>1, <1>a, <3>2, NameAssumption, Zenon DEF HandsOf, Ctx
        <4> QED
          BY <1>1, <1>a, <3>2, <4>1, NameAssumption DEF Depth
      <3> QED
        BY <1>a, <3>1, <3>2, Zenon DEF Lock
    <2> QED
      BY <1>0, <1>1, <2>1, Zenon DEF FlagsOf
  <1>5. Owned'
    <2>1. Owns(x, l) /\ locked' = [locked EXCEPT ![l] = 0]
      BY <1>a, Zenon DEF Owns, lock_release
    <2>2. \A m \in Lock : Owns(x, m)' <=> Owns(x, m) /\ m # l
      BY <1>1, Zenon DEF Owns
    <2> QED
      BY <1>0, <1>1, <1>a, <2>1, <2>2, OwnedGive, Zenon
  <1>6. \A m \in Lock : Claims(c, m)' <=> Claims(c, m)
    BY <1>1, Zenon DEF Claims
  <1> QED
    BY <1>0, <1>1, <1>2, <1>3, <1>4, <1>5, <1>6, HandsFrames, FlagsAt, ClaimedSame, Zenon
       DEF Rest, IndInv

\* pop_off, whose checks do not fail, gives the flag back with the last lock.
LEMMA PopOffKeeps ==
  ASSUME IndInv, Running', NEW c \in Cpu, NEW x, x = on[c], pop_off(c)
  PROVE  Rest'
  <1>0. /\ CpuStep(c) /\ x \in Ctx /\ FreshOf(x) /\ HandsOf(x) /\ FrameOf(x) /\ FlagsOf(c, x)
        /\ noff[c] \in Nat /\ trap[x] \in {0, 1} /\ intena[c] \in {0, 1} /\ sie[c] \in {0, 1}
    BY At, Zenon DEF CpuStep
  <1>1. /\ on'[c] = x /\ held' = held /\ pc[x] = "pop"
        /\ pc'[x] = IF phase[x] = "forkret" THEN "forkret" ELSE "run"
        /\ trap' = trap /\ saved' = saved /\ locked' = locked /\ lcpu' = lcpu
        /\ noff'[c] = noff[c] - 1 /\ intena' = intena
        /\ sie'[c] = IF noff[c] = 1 /\ intena[c] = 1 THEN 1 ELSE sie[c]
    BY <1>0, Zenon DEF IndInv, TypeOK, pop_off, lockVars
  <1>a. noff[c] > 0 /\ sie[c] = 0
    BY <1>0, <1>1, DepthFacts, Zenon DEF FlagsOf
  <1>2. HandsOf(x)'
    BY <1>0, <1>1, Zenon DEF HandsOf, Acquiring
  <1>3. FrameOf(x)'
    BY <1>0, <1>1, Zenon DEF FrameOf
  <1>4. FlagsOf(c, x)'
    <2>1. Depth(x)' = Depth(x) - 1
      BY <1>1 DEF Depth
    <2>2. CASE phase[x] = "forkret"
      <3>1. held[x] = {} /\ x \in Thread /\ x \notin Cpu /\ pc'[x] = "forkret"
        BY <1>0, <1>1, <2>2, NameAssumption, Zenon DEF FreshOf
      <3>2. noff'[c] = 0 /\ Depth(x)' = 0
        BY <1>0, <1>1, <2>1, <3>1 DEF Depth, FlagsOf
      <3> QED
        BY <3>1, <3>2 DEF FlagsOf
    <2>3. CASE phase[x] # "forkret"
      <3>1. pc'[x] = "run"
        BY <1>1, <2>3, Zenon
      <3> QED
        BY <1>0, <1>1, <1>a, <2>1, <2>3, <3>1 DEF FlagsOf
    <2> QED
      BY <2>2, <2>3, Zenon
  <1>5. \A m \in Lock : Owns(x, m)' <=> Owns(x, m)
    BY <1>1, Zenon DEF Owns
  <1>6. \A m \in Lock : Claims(c, m)' <=> Claims(c, m)
    BY <1>1, Zenon DEF Claims
  <1>7. ~panicked'
    <2>1. ~(sie[c] = 1 \/ noff[c] < 1)
      BY <1>0, <1>a
    <2> QED
      BY <2>1, Zenon DEF pop_off
  <1> QED
    BY <1>0, <1>1, <1>2, <1>3, <1>4, <1>5, <1>6, <1>7, HandsFrames, FlagsAt, OwnedSame,
       ClaimedSame, Zenon
       DEF Rest


-----------------------------------------------------------------------------
(* Every step preserves the invariant: the types, who runs and who waits   *)

\* Every step keeps the types; noff does not become negative.
LEMMA TypeOKNext == IndInv /\ [Next]_vars => TypeOK'
<1> SUFFICES ASSUME IndInv, [Next]_vars PROVE TypeOK'
  BY Zenon
<1> USE DEF IndInv, TypeOK
<1>1. ASSUME NEW c \in Cpu, NEW l \in Lock, acquire(c, l) PROVE TypeOK'
  BY <1>1, Zenon DEF acquire, lockVars, cpuVars, PC
<1>2. ASSUME NEW c \in Cpu, NEW l \in Lock, release(c, l) PROVE TypeOK'
  BY <1>2, Zenon DEF release, MayRelease, CpuCleared, cpuVars, PC
<1>3. ASSUME NEW c \in Cpu, push_off(c) PROVE TypeOK'
  <2>1. intena' \in [Cpu -> {0, 1}] /\ noff' \in [Cpu -> Nat] /\ sie' \in [Cpu -> {0, 1}]
    BY <1>3 DEF push_off, Intena, lockVars
  <2> QED
    BY <1>3, <2>1, Zenon DEF push_off, Intena, lockVars, holding, PC
<1>4. ASSUME NEW c \in Cpu, test_and_set(c) PROVE TypeOK'
  BY <1>4, Zenon DEF test_and_set, cpuVars, PC
<1>5. ASSUME NEW c \in Cpu, set_cpu(c) PROVE TypeOK'
  <2>1. on[c] \in Ctx /\ arg[on[c]] \in Lock
    BY <1>5, At DEF set_cpu, HandsOf, Acquiring
  <2> QED
    BY <1>5, <2>1, Zenon DEF set_cpu, cpuVars, PC
<1>6. ASSUME NEW c \in Cpu, lock_release(c) PROVE TypeOK'
  BY <1>6, Zenon DEF lock_release, cpuVars, PC
<1>7. ASSUME NEW c \in Cpu, pop_off(c) PROVE TypeOK'
  <2>1. noff[c] > 0
    BY <1>7, At, DepthFacts DEF pop_off, FlagsOf
  <2>2. noff' \in [Cpu -> Nat] /\ sie' \in [Cpu -> {0, 1}]
    BY <1>7, <2>1 DEF pop_off, lockVars
  <2>3. phase' \in [Ctx -> Phase]
    BY <1>7, Zenon DEF pop_off, lockVars, Phase
  <2> QED
    BY <1>7, <2>2, <2>3, Zenon DEF pop_off, lockVars, PC
<1>8. ASSUME NEW c \in Cpu, kerneltrap(c) PROVE TypeOK'
  BY <1>8 DEF kerneltrap, lockVars, PC
<1>9. ASSUME NEW c \in Cpu, trap_return(c) PROVE TypeOK'
  BY <1>9, Zenon DEF trap_return, NoFrame, lockVars, PC
<1>10. ASSUME NEW c \in Cpu, sched(c) PROVE TypeOK'
  <2>1. on[c] \in Ctx /\ c \in Ctx /\ on[c] \in Thread /\ on[c] \in Lock
    BY <1>10, Zenon DEF sched, Ctx, Lock
  <2>2. on' \in [Cpu -> Ctx] /\ held' \in [Ctx -> SUBSET Lock]
    BY <1>10, <2>1, Zenon DEF sched
  <2>3. phase' \in [Ctx -> Phase]
    BY <1>10, Zenon DEF sched, Phase
  <2>4. sintena' \in [Thread -> {0, 1}]
    BY <1>10, Zenon DEF sched
  <2> QED
    BY <1>10, <2>2, <2>3, <2>4, Zenon DEF sched, lockVars, holding
<1>11. ASSUME NEW c \in Cpu, intr_on(c) PROVE TypeOK'
  BY <1>11, Zenon DEF intr_on, lockVars
<1>14. ASSUME NEW c \in Cpu, usertrapret(c) PROVE TypeOK'
  BY <1>14, Zenon DEF usertrapret, lockVars, PC
<1>12. ASSUME NEW c \in Cpu, NEW t \in Thread, swtch(c, t) PROVE TypeOK'
  <2>1. t \in Ctx /\ c \in Ctx /\ t \in Lock
    BY Zenon DEF Ctx, Lock
  <2>2. on' \in [Cpu -> Ctx] /\ held' \in [Ctx -> SUBSET Lock]
    BY <1>12, <2>1, Zenon DEF swtch
  <2>3. phase' \in [Ctx -> Phase]
    BY <1>12, Zenon DEF swtch, Phase
  <2>4. intena' \in [Cpu -> {0, 1}] /\ sintena' \in [Thread -> {0, 1}]
    BY <1>12, Zenon DEF swtch, SwtchIntena
  <2> QED
    BY <1>12, <2>2, <2>3, <2>4, Zenon DEF swtch, lockVars
<1>13. CASE UNCHANGED vars
  BY <1>13, Zenon DEF vars, lockVars, cpuVars
<1> HIDE DEF IndInv, TypeOK
<1> QED
  BY <1>1, <1>2, <1>3, <1>4, <1>5, <1>6, <1>7, <1>8, <1>9, <1>10, <1>11, <1>12, <1>13, <1>14, Zenon DEF Next

\* No thread comes to run on two CPUs.
LEMMA RunningNext == IndInv /\ [Next]_vars => Running'
<1> SUFFICES ASSUME IndInv, [Next]_vars PROVE Running'
  BY Zenon
<1> USE NameAssumption DEF IndInv, TypeOK, Running, Ctx
<1>1. ASSUME NEW c \in Cpu, NEW l \in Lock, acquire(c, l) PROVE Running'
  BY <1>1, Zenon DEF acquire, lockVars, cpuVars
<1>2. ASSUME NEW c \in Cpu, NEW l \in Lock, release(c, l) PROVE Running'
  BY <1>2, Zenon DEF release, MayRelease, CpuCleared, cpuVars
<1>3. ASSUME NEW c \in Cpu, push_off(c) PROVE Running'
  BY <1>3, Zenon DEF push_off, Intena, lockVars
<1>4. ASSUME NEW c \in Cpu, test_and_set(c) PROVE Running'
  BY <1>4, Zenon DEF test_and_set, cpuVars
<1>5. ASSUME NEW c \in Cpu, set_cpu(c) PROVE Running'
  BY <1>5, Zenon DEF set_cpu, cpuVars
<1>6. ASSUME NEW c \in Cpu, lock_release(c) PROVE Running'
  BY <1>6, Zenon DEF lock_release, cpuVars
<1>7. ASSUME NEW c \in Cpu, pop_off(c) PROVE Running'
  BY <1>7, Zenon DEF pop_off, lockVars
<1>8. ASSUME NEW c \in Cpu, kerneltrap(c) PROVE Running'
  BY <1>8, Zenon DEF kerneltrap, lockVars
<1>9. ASSUME NEW c \in Cpu, trap_return(c) PROVE Running'
  BY <1>9, Zenon DEF trap_return, NoFrame, lockVars
<1>10. ASSUME NEW c \in Cpu, sched(c) PROVE Running'
  BY <1>10 DEF sched, lockVars
<1>11. ASSUME NEW c \in Cpu, intr_on(c) PROVE Running'
  BY <1>11, Zenon DEF intr_on, lockVars
<1>14. ASSUME NEW c \in Cpu, usertrapret(c) PROVE Running'
  BY <1>14, Zenon DEF usertrapret, lockVars
<1>12. ASSUME NEW c \in Cpu, NEW t \in Thread, swtch(c, t) PROVE Running'
  BY <1>12 DEF swtch, SwtchIntena, lockVars
<1>13. CASE UNCHANGED vars
  BY <1>13, Zenon DEF vars, lockVars, cpuVars
<1> HIDE DEF IndInv, TypeOK, Running, Ctx
<1> QED
  BY <1>1, <1>2, <1>3, <1>4, <1>5, <1>6, <1>7, <1>8, <1>9, <1>10, <1>11, <1>12, <1>13, <1>14, Zenon DEF Next

\* Only a context without locks is switched away from.
LEMMA ParkedNext == IndInv /\ [Next]_vars => Parked'
<1> SUFFICES ASSUME IndInv, [Next]_vars PROVE Parked'
  BY Zenon
<1>1. ASSUME NEW c \in Cpu, CpuStep(c), on' = on, sintena' = sintena PROVE Parked'
  <2> SUFFICES ASSUME NEW x \in Ctx, \A d \in Cpu : on[d] # x
               PROVE  /\ held'[x] = {} /\ pc'[x] = "run"
                      /\ x \in Thread /\ phase'[x] = "saved" => sintena'[x] = 1 - trap'[x]
                      /\ x \in Cpu => trap'[x] = 0
    BY <1>1, Zenon DEF Parked
  <2>1. Same(x)
    BY <1>1, Elsewhere, Zenon
  <2> QED
    BY <1>1, <2>1, Zenon DEF IndInv, Parked, Same
<1>2. ASSUME NEW c \in Cpu, NEW t, t = on[c], sched(c) PROVE Parked'
  <2> SUFFICES ASSUME NEW x \in Ctx, \A d \in Cpu : on'[d] # x
               PROVE  /\ held'[x] = {} /\ pc'[x] = "run"
                      /\ x \in Thread /\ phase'[x] = "saved" => sintena'[x] = 1 - trap'[x]
                      /\ x \in Cpu => trap'[x] = 0
    BY Zenon DEF Parked
  <2>1. c # t /\ c \in Ctx /\ t \in Ctx /\ t \in Thread /\ t \notin Cpu
    BY <1>2, Apart, Zenon DEF sched
  <2>2. /\ held[t] = {t} /\ pc[t] = "run" /\ on' = [on EXCEPT ![c] = c] /\ pc' = pc /\ trap' = trap
        /\ held'[t] = {} /\ sintena'[t] = intena[c]
    BY <1>2, <2>1, Zenon DEF sched, IndInv, TypeOK
  <2>3. CASE x = t
    <3>1. noff[c] # 0 /\ FlagsOf(c, t) /\ phase[t] = "runs"
      BY <1>2, <2>2, At, Quiet, Zenon DEF sched
    <3>2. intena[c] = 1 - trap[t]
      BY <2>1, <3>1, Zenon DEF FlagsOf
    <3> QED
      BY <2>1, <2>2, <2>3, <3>2, Zenon
  <2>4. CASE x # t
    <3>1. x # c /\ \A d \in Cpu : on[d] # x
      BY <1>2, <2>2, <2>4, Zenon DEF IndInv, TypeOK
    <3>2. held'[x] = held[x] /\ phase'[x] = phase[x] /\ (x \in Thread => sintena'[x] = sintena[x])
      BY <1>2, <2>4, <3>1, Zenon DEF sched, IndInv, TypeOK
    <3> QED
      BY <2>2, <3>1, <3>2, Zenon DEF IndInv, Parked
  <2> QED
    BY <2>3, <2>4, Zenon
<1>3. ASSUME NEW c \in Cpu, NEW t \in Thread, swtch(c, t) PROVE Parked'
  <2> SUFFICES ASSUME NEW x \in Ctx, \A d \in Cpu : on'[d] # x
               PROVE  /\ held'[x] = {} /\ pc'[x] = "run"
                      /\ x \in Thread /\ phase'[x] = "saved" => sintena'[x] = 1 - trap'[x]
                      /\ x \in Cpu => trap'[x] = 0
    BY Zenon DEF Parked
  <2>1. c # t /\ c \in Ctx /\ t \in Ctx /\ c \notin Thread
    BY Apart, Zenon
  <2>2. /\ on[c] = c /\ pc[c] = "run" /\ on' = [on EXCEPT ![c] = t] /\ pc' = pc /\ trap' = trap
        /\ held'[c] = {} /\ t \in held[c]
    BY <1>3, <2>1, Zenon DEF swtch, IndInv, TypeOK
  <2>3. CASE x = c
    <3>1. HandsOf(c) /\ trap[c] \in {0, 1} /\ t # Dev
      BY <2>2, At, Apart, Zenon
    <3>2. trap[c] = 0
      BY <2>2, <3>1, Zenon DEF HandsOf
    <3> QED
      BY <2>1, <2>2, <2>3, <3>2, Zenon
  <2>4. CASE x # c
    <3>1. x # t /\ \A d \in Cpu : on[d] # x
      BY <2>2, <2>4, Zenon DEF IndInv, TypeOK
    <3>2. held'[x] = held[x] /\ phase'[x] = phase[x] /\ (x \in Thread => sintena'[x] = sintena[x])
      BY <1>3, <2>4, <3>1, ZenonT(30) DEF swtch, IndInv, TypeOK
    <3> QED
      BY <2>2, <3>1, <3>2, Zenon DEF IndInv, Parked
  <2> QED
    BY <2>3, <2>4, Zenon
<1>4. ASSUME NEW c \in Cpu, CpuStep(c), ~sched(c), \A t \in Thread : ~swtch(c, t)
      PROVE  on' = on /\ sintena' = sintena
  <2>1. ASSUME NEW l \in Lock, acquire(c, l) \/ release(c, l) PROVE on' = on /\ sintena' = sintena
    BY <2>1, Zenon DEF acquire, release, cpuVars
  <2>2. ASSUME push_off(c) \/ test_and_set(c) \/ set_cpu(c) PROVE on' = on /\ sintena' = sintena
    BY <2>2, Zenon DEF push_off, test_and_set, set_cpu, cpuVars
  <2>3. ASSUME lock_release(c) \/ pop_off(c) PROVE on' = on /\ sintena' = sintena
    BY <2>3, Zenon DEF lock_release, pop_off, cpuVars
  <2>4. ASSUME kerneltrap(c) \/ trap_return(c) \/ usertrapret(c) \/ intr_on(c)
        PROVE  on' = on /\ sintena' = sintena
    BY <2>4, Zenon DEF kerneltrap, trap_return, usertrapret, intr_on
  <2> QED
    BY <1>4, <2>1, <2>2, <2>3, <2>4, Zenon DEF CpuStep
<1>5. CASE UNCHANGED vars
  BY <1>5 DEF vars, cpuVars, IndInv, Parked
<1>6. ASSUME NEW c \in Cpu, CpuStep(c) PROVE Parked'
  BY <1>1, <1>2, <1>3, <1>4, <1>6, Zenon
<1> QED
  BY <1>5, <1>6, Zenon DEF Next, CpuStep

\* What is said of a new process needs a look only at the contexts of the step,
LEMMA FreshAt ==
  ASSUME IndInv, NEW c \in Cpu, CpuStep(c), NEW x, x = on[c], NEW z, z = on'[c],
         FreshOf(x)', FreshOf(z)'
  PROVE  Fresh'
  <1>1. ASSUME NEW y \in Ctx, y # x, y # z PROVE FreshOf(y)'
    <2>1. Same(y) /\ FreshOf(y)
      BY <1>1, Elsewhere, Zenon DEF IndInv, Fresh
    <2> QED
      BY <2>1, Zenon DEF Same, FreshOf
  <1> QED
    BY <1>1, Zenon DEF Fresh

\* and holds on: it takes no lock, is not interrupted before it has released its
\* own, and then goes to user space.
LEMMA FreshNext == IndInv /\ [Next]_vars => Fresh'
<1> SUFFICES ASSUME IndInv, [Next]_vars PROVE Fresh'
  BY Zenon
<1>1. ASSUME NEW c \in Cpu, NEW x, x = on[c], CpuStep(c), on'[c] = x, FreshOf(x)' PROVE Fresh'
  BY <1>1, FreshAt, Zenon
<1>2. ASSUME NEW c \in Cpu
      PROVE  on[c] \in Ctx /\ FreshOf(on[c]) /\ HandsOf(on[c]) /\ phase[on[c]] # "new"
  <2>1. on[c] \in Ctx /\ FreshOf(on[c]) /\ HandsOf(on[c])
    BY At, Zenon
  <2> QED
    BY <2>1, Zenon DEF IndInv, Running, FreshOf
<1>3. ASSUME NEW c \in Cpu, NEW l \in Lock, NEW x, x = on[c], acquire(c, l) PROVE Fresh'
  <2>1. /\ on'[c] = x /\ pc[x] = "run" /\ pc'[x] = "off" /\ trap' = trap /\ held' = held
        /\ phase' = phase /\ CpuStep(c)
    BY <1>2, <1>3, Zenon DEF IndInv, TypeOK, acquire, cpuVars, CpuStep
  <2>2. phase[x] # "forkret"
    BY <1>2, <1>3, NameAssumption, Zenon DEF acquire, MayAcquire, FreshOf
  <2>3. FreshOf(x)'
    BY <1>2, <1>3, <2>1, <2>2, Zenon DEF FreshOf
  <2> QED
    BY <1>1, <1>3, <2>1, <2>3, Zenon
<1>4. ASSUME NEW c \in Cpu, NEW x, x = on[c], push_off(c) \/ test_and_set(c) \/ set_cpu(c) PROVE Fresh'
  <2>1. /\ on'[c] = x /\ pc[x] \in {"off", "spin", "setcpu"} /\ pc'[x] # "forkret" /\ trap' = trap
        /\ phase' = phase /\ CpuStep(c)
    BY <1>2, <1>4, ZenonT(40) DEF IndInv, TypeOK, push_off, test_and_set, set_cpu, cpuVars, CpuStep
  <2>2. FreshOf(x)'
    BY <1>2, <1>4, <2>1, Zenon DEF FreshOf
  <2> QED
    BY <1>1, <1>4, <2>1, <2>2, Zenon
<1>5. ASSUME NEW c \in Cpu, NEW l \in Lock, NEW x, x = on[c], release(c, l) PROVE Fresh'
  <2>1. /\ on'[c] = x /\ pc[x] = "run" /\ pc'[x] = "unlock" /\ trap' = trap /\ held' = held
        /\ l \in held[x] /\ arg'[x] = l /\ phase' = phase /\ CpuStep(c)
    BY <1>2, <1>5, Zenon DEF IndInv, TypeOK, release, MayRelease, cpuVars, CpuStep
  <2>2. FreshOf(x)'
    BY <1>2, <1>5, <2>1, Zenon DEF FreshOf
  <2> QED
    BY <1>1, <1>5, <2>1, <2>2, Zenon
<1>6. ASSUME NEW c \in Cpu, NEW x, x = on[c], lock_release(c) PROVE Fresh'
  <2>1. /\ on'[c] = x /\ pc[x] = "unlock" /\ pc'[x] = "pop" /\ trap' = trap
        /\ held'[x] = held[x] \ {arg[x]} /\ arg' = arg /\ phase' = phase /\ CpuStep(c)
    BY <1>2, <1>6, Zenon DEF IndInv, TypeOK, lock_release, cpuVars, CpuStep
  <2>2. FreshOf(x) /\ phase[x] # "new"
    BY <1>2, <1>6, Zenon
  <2>3. phase[x] = "forkret" => held'[x] = {}
    BY <2>1, <2>2, Zenon DEF FreshOf
  <2>4. FreshOf(x)'
    BY <2>1, <2>2, <2>3, Zenon DEF FreshOf
  <2> QED
    BY <1>1, <1>6, <2>1, <2>4, Zenon
<1>7. ASSUME NEW c \in Cpu, NEW x, x = on[c], pop_off(c) PROVE Fresh'
  <2>1. /\ on'[c] = x /\ pc[x] = "pop" /\ pc'[x] = (IF phase[x] = "forkret" THEN "forkret" ELSE "run")
        /\ trap' = trap /\ held' = held /\ phase'[x] = (IF arg[x] # Dev THEN "runs" ELSE phase[x])
        /\ CpuStep(c)
    BY <1>2, <1>7, ZenonT(40) DEF IndInv, TypeOK, pop_off, CpuStep
  <2>2. CASE phase[x] = "forkret"
    <3>0. FreshOf(x)
      BY <1>2, <1>7, Zenon
    <3>1. x \in Thread /\ trap[x] = 0 /\ held[x] = {} /\ arg[x] = x
      BY <2>1, <2>2, <3>0, Zenon DEF FreshOf
    <3>2. arg[x] # Dev
      BY <3>1, NameAssumption, Zenon
    <3> QED
      BY <1>1, <1>7, <2>1, <2>2, <3>1, <3>2, Zenon DEF FreshOf
  <2>3. CASE phase[x] # "forkret"
    <3>1. pc'[x] # "forkret" /\ phase'[x] # "forkret" /\ phase'[x] # "new"
      BY <1>2, <1>7, <2>1, <2>3, Zenon
    <3> QED
      BY <1>1, <1>7, <2>1, <3>1, Zenon DEF FreshOf
  <2> QED
    BY <2>2, <2>3, Zenon
<1>8. ASSUME NEW c \in Cpu, NEW x, x = on[c], kerneltrap(c) PROVE Fresh'
  <2>1. /\ on'[c] = x /\ pc'[x] = "run" /\ held[x] = {} /\ pc[x] # "pop" /\ phase' = phase /\ CpuStep(c)
    BY <1>2, <1>8, Quiet, Zenon DEF IndInv, TypeOK, kerneltrap, CpuStep
  <2>2. phase[x] # "forkret" /\ phase[x] # "new"
    BY <1>2, <1>8, <2>1, Zenon DEF FreshOf
  <2> QED
    BY <1>1, <1>8, <2>1, <2>2, Zenon DEF FreshOf
<1>9. ASSUME NEW c \in Cpu, NEW x, x = on[c], trap_return(c) PROVE Fresh'
  <2>1. /\ on'[c] = x /\ pc'[x] = saved[x].pc /\ held' = held /\ held[x] = {} /\ trap[x] = 1
        /\ trap'[x] = 0 /\ phase' = phase /\ CpuStep(c)
    BY <1>2, <1>9, Zenon DEF IndInv, TypeOK, trap_return, CpuStep
  <2>2. phase[x] # "forkret" /\ phase[x] # "new" /\ (saved[x].pc = "forkret" => x \in Thread)
    <3>1. FrameOf(x) /\ 1 # 0
      BY <1>9, At
    <3> QED
      BY <1>2, <1>9, <2>1, <3>1, Zenon DEF FreshOf, FrameOf
  <2> QED
    BY <1>1, <1>9, <2>1, <2>2, Zenon DEF FreshOf
<1>10. ASSUME NEW c \in Cpu, NEW t, t = on[c], sched(c) PROVE Fresh'
  <2>1. t \in Thread /\ c \in Ctx /\ t \in Ctx /\ c # t /\ \A d \in Cpu : on[d] # c
    <3>1. t \in Thread /\ \A d \in Cpu : on[d] \in Thread \cup {d}
      BY <1>10, Zenon DEF sched, IndInv, Running
    <3> QED
      BY <1>10, <3>1, Apart, Zenon
  <2>2. pc[c] = "run"
    BY <2>1, Zenon DEF IndInv, Parked
  <2>3. /\ on'[c] = c /\ pc' = pc /\ pc[t] = "run" /\ phase'[t] = "saved" /\ phase'[c] = "leaves" /\ CpuStep(c)
    BY <1>10, <2>1, Zenon DEF IndInv, TypeOK, sched, CpuStep
  <2>4. FreshOf(t)' /\ FreshOf(c)'
    BY <2>2, <2>3, Zenon DEF FreshOf
  <2> QED
    BY <1>10, <2>3, <2>4, FreshAt, Zenon
<1>11. ASSUME NEW c \in Cpu, NEW x, x = on[c], usertrapret(c) \/ intr_on(c) PROVE Fresh'
  <2>1. CASE usertrapret(c)
    <3>1. /\ on'[c] = x /\ pc[x] = "forkret" /\ pc'[x] = "run" /\ phase' = phase /\ CpuStep(c)
      BY <1>2, <1>11, <2>1, Zenon DEF IndInv, TypeOK, usertrapret, CpuStep
    <3>2. phase[x] # "forkret" /\ phase[x] # "new"
      BY <1>2, <1>11, <3>1, Zenon DEF FreshOf
    <3> QED
      BY <1>1, <1>11, <3>1, <3>2, Zenon DEF FreshOf
  <2>2. CASE intr_on(c)
    <3>1. /\ on'[c] = x /\ pc' = pc /\ phase' = phase /\ held' = held /\ trap' = trap /\ arg' = arg
          /\ CpuStep(c)
      BY <1>11, <2>2, Zenon DEF intr_on, CpuStep
    <3>2. FreshOf(x)'
      BY <1>2, <1>11, <3>1, Zenon DEF FreshOf
    <3> QED
      BY <1>1, <1>11, <3>1, <3>2, Zenon
  <2> QED
    BY <1>11, <2>1, <2>2, Zenon
<1>12. ASSUME NEW c \in Cpu, NEW t \in Thread, swtch(c, t) PROVE Fresh'
  <2>1. c \in Ctx /\ t \in Ctx /\ c # t
    BY Apart, Zenon
  <2>2. /\ on[c] = c /\ on'[c] = t /\ pc' = pc /\ pc[c] = "run" /\ trap' = trap
        /\ phase'[t] = (IF phase[t] = "new" THEN "forkret" ELSE "leaves")
        /\ phase'[c] = "runs" /\ held'[t] = {t} /\ CpuStep(c)
    BY <1>12, <2>1, Zenon DEF IndInv, TypeOK, swtch, CpuStep
  <2>3. pc[t] = "run" /\ FreshOf(t)
    BY <1>12, <2>1, Zenon DEF IndInv, Parked, Running, Fresh, swtch
  <2>4. FreshOf(t)' /\ FreshOf(c)'
    BY <2>2, <2>3, Zenon DEF FreshOf
  <2> QED
    BY <2>2, <2>4, FreshAt, Zenon
<1>13. CASE UNCHANGED vars
  BY <1>13, Zenon DEF vars, IndInv, Fresh, FreshOf
<1> QED
  BY <1>3, <1>4, <1>5, <1>6, <1>7, <1>8, <1>9, <1>10, <1>11, <1>12, <1>13, Zenon DEF Next

-----------------------------------------------------------------------------
(* Traps and switches preserve Rest                                        *)

\* An interrupt finds no lock held.
LEMMA KernelTrapKeeps ==
  ASSUME IndInv, Running', NEW c \in Cpu, NEW x, x = on[c], kerneltrap(c)
  PROVE  Rest'
  <1>0. /\ CpuStep(c) /\ x \in Ctx /\ x \in Thread \cup {c} /\ HandsOf(x) /\ FrameOf(x)
        /\ FlagsOf(c, x) /\ noff[c] \in Nat
    BY At, Zenon DEF CpuStep
  <1>1. /\ on'[c] = x /\ phase' = phase /\ held' = held /\ pc'[x] = "run" /\ sie[c] = 1 /\ trap[x] = 0
        /\ saved'[x] = [pc |-> pc[x], arg |-> arg[x], old |-> old[x]]
        /\ trap'[x] = 1 /\ locked' = locked /\ lcpu' = lcpu
        /\ noff' = noff /\ sie'[c] = 0 /\ intena' = intena /\ panicked' = panicked
    BY <1>0, Zenon DEF IndInv, TypeOK, kerneltrap, lockVars
  <1>a. held[x] = {} /\ pc[x] \in {"run", "off", "unlock", "forkret"} /\ noff[c] = 0 /\ Depth(x) = 0
    BY <1>1, Quiet, Zenon
  <1>2. HandsOf(x)'
    BY <1>1, <1>a, Zenon DEF HandsOf, Acquiring
  <1>3. FrameOf(x)'
    <2>1. pc[x] # "unlock"
      BY <1>0, <1>a, Zenon DEF HandsOf
    <2>2. pc[x] = "off" => /\ old[x] = 1
                           /\ x \in Thread => arg[x] \in {Dev, x}
                           /\ x \in Cpu => arg[x] \in Thread
      BY <1>0, <1>1, SMTT(30) DEF HandsOf, FlagsOf, Acquiring, Lock
    <2>3. pc[x] = "forkret" => x \in Thread
      BY <1>0, At, Zenon DEF FreshOf
    <2> QED
      BY <1>1, <1>a, <2>1, <2>2, <2>3 DEF FrameOf
  <1>4. FlagsOf(c, x)'
    <2>1. Depth(x)' = 0
      BY <1>1, <1>a, Zenon DEF Depth
    <2>2. noff'[c] = 0 /\ sie'[c] = 0 /\ pc'[x] # "off" /\ sie'[c] = 1 - trap'[x] /\ ~(noff'[c] > 0)
      <3>1. noff'[c] = 0 /\ sie'[c] = 0 /\ trap'[x] = 1 /\ pc'[x] # "off"
        BY <1>1, <1>a, Zenon
      <3> QED
        BY <3>1
    <2> QED
      BY <2>1, <2>2, Zenon DEF FlagsOf
  <1>5. \A m \in Lock : Owns(x, m)' <=> Owns(x, m)
    BY <1>1, <1>a, Zenon DEF Owns
  <1>6. \A m \in Lock : Claims(c, m)' <=> Claims(c, m)
    BY <1>1, <1>a, Zenon DEF Claims
  <1> QED
    BY <1>0, <1>1, <1>2, <1>3, <1>4, <1>5, <1>6, HandsFrames, FlagsAt, OwnedSame, ClaimedSame,
       Zenon
       DEF Rest, IndInv

\* The interrupted code goes on where it was.
LEMMA TrapReturnKeeps ==
  ASSUME IndInv, Running', NEW c \in Cpu, NEW x, x = on[c], trap_return(c)
  PROVE  Rest'
  <1>0. /\ CpuStep(c) /\ x \in Ctx /\ x \in Thread \cup {c} /\ HandsOf(x) /\ FrameOf(x)
        /\ FlagsOf(c, x) /\ noff[c] \in Nat
    BY At, Zenon DEF CpuStep
  <1>1. /\ on'[c] = x /\ phase' = phase /\ held' = held /\ pc[x] = "run" /\ trap[x] = 1 /\ held[x] = {}
        /\ pc'[x] = saved[x].pc /\ arg'[x] = saved[x].arg /\ old'[x] = saved[x].old
        /\ trap'[x] = 0 /\ locked' = locked /\ lcpu' = lcpu
        /\ noff' = noff /\ sie'[c] = 1 /\ intena' = intena /\ panicked' = panicked
    BY <1>0, Zenon DEF IndInv, TypeOK, trap_return, lockVars
  <1>a. /\ pc'[x] \in {"run", "off", "forkret"}
        /\ pc'[x] = "off" => /\ old'[x] = 1
                             /\ x \in Thread => arg'[x] \in {Dev, x}
                             /\ x \in Cpu => arg'[x] \in Thread
    BY <1>0, <1>1, ZenonT(40) DEF FrameOf
  <1>2. HandsOf(x)'
    BY <1>0, <1>1, <1>a, NameAssumption DEF HandsOf, Acquiring, Lock
  <1>3. FrameOf(x)'
    BY <1>1, SMTT(30) DEF FrameOf
  <1>4. FlagsOf(c, x)'
    <2>1. Depth(x) = 0 /\ Depth(x)' = 0
      BY <1>1, <1>a DEF Depth
    <2>2. /\ noff'[c] = 0 /\ sie'[c] = 1 - trap'[x] /\ ~(noff'[c] > 0)
          /\ pc'[x] = "off" => old'[x] = sie'[c]
      <3>1. noff'[c] = 0 /\ sie'[c] = 1 /\ trap'[x] = 0 /\ (pc'[x] = "off" => old'[x] = sie'[c])
        BY <1>0, <1>1, <1>a, <2>1, Zenon DEF FlagsOf
      <3> QED
        BY <3>1
    <2> QED
      BY <2>1, <2>2 DEF FlagsOf
  <1>5. \A m \in Lock : Owns(x, m)' <=> Owns(x, m)
    BY <1>1, <1>a, Zenon DEF Owns
  <1>6. \A m \in Lock : Claims(c, m)' <=> Claims(c, m)
    BY <1>1, Zenon DEF Claims
  <1> QED
    BY <1>0, <1>1, <1>2, <1>3, <1>4, <1>5, <1>6, HandsFrames, FlagsAt, OwnedSame, ClaimedSame,
       Zenon
       DEF Rest, IndInv

\* The scheduler's intr_on().
LEMMA IntrOnKeeps ==
  ASSUME IndInv, Running', NEW c \in Cpu, NEW x, x = on[c], intr_on(c)
  PROVE  Rest'
  <1>0. /\ CpuStep(c) /\ x \in Ctx /\ HandsOf(x) /\ FrameOf(x) /\ FlagsOf(c, x) /\ noff[c] \in Nat
    BY At, Zenon DEF CpuStep
  <1>1. /\ on'[c] = x /\ phase' = phase /\ x = c /\ held' = held /\ pc[x] = "run" /\ trap[x] = 0 /\ held[x] = {}
        /\ pc' = pc /\ arg' = arg /\ old' = old /\ saved' = saved
        /\ trap' = trap /\ locked' = locked /\ lcpu' = lcpu
        /\ noff' = noff /\ sie'[c] = 1 /\ intena' = intena /\ panicked' = panicked
    BY <1>0, Zenon DEF IndInv, TypeOK, intr_on, lockVars
  <1>2. HandsOf(x)'
    BY <1>0, <1>1, Zenon DEF HandsOf
  <1>3. FrameOf(x)'
    BY <1>1 DEF FrameOf
  <1>4. FlagsOf(c, x)'
    <2>1. Depth(x) = 0 /\ Depth(x)' = 0
      BY <1>1 DEF Depth
    <2>2. x \notin Thread
      BY <1>1, NameAssumption, Zenon
    <2> QED
      BY <1>0, <1>1, <2>1, <2>2 DEF FlagsOf
  <1>5. \A m \in Lock : Owns(x, m)' <=> Owns(x, m)
    BY <1>1, Zenon DEF Owns
  <1>6. \A m \in Lock : Claims(c, m)' <=> Claims(c, m)
    BY <1>1, Zenon DEF Claims
  <1> QED
    BY <1>0, <1>1, <1>2, <1>3, <1>4, <1>5, <1>6, HandsFrames, FlagsAt, OwnedSame, ClaimedSame,
       Zenon
       DEF Rest, IndInv

\* A new process goes to user space, where interrupts are on.
LEMMA UserTrapRetKeeps ==
  ASSUME IndInv, Running', NEW c \in Cpu, NEW x, x = on[c], usertrapret(c)
  PROVE  Rest'
  <1>0. /\ CpuStep(c) /\ x \in Ctx /\ FreshOf(x) /\ HandsOf(x) /\ FrameOf(x) /\ FlagsOf(c, x)
    BY At, Zenon DEF CpuStep
  <1>1. /\ on'[c] = x /\ phase' = phase /\ held' = held /\ pc[x] = "forkret" /\ pc'[x] = "run"
        /\ arg' = arg /\ old' = old /\ saved' = saved
        /\ trap' = trap /\ locked' = locked /\ lcpu' = lcpu
        /\ noff' = noff /\ sie'[c] = 1 /\ intena' = intena /\ panicked' = panicked
    BY <1>0, Zenon DEF IndInv, TypeOK, usertrapret, lockVars
  <1>a. x \in Thread /\ x \notin Cpu /\ trap[x] = 0 /\ held[x] = {}
    BY <1>0, <1>1, NameAssumption, Zenon DEF FreshOf
  <1>2. HandsOf(x)'
    BY <1>1, <1>a, Zenon DEF HandsOf, Acquiring
  <1>3. FrameOf(x)'
    BY <1>0, <1>1, Zenon DEF FrameOf
  <1>4. FlagsOf(c, x)'
    <2>1. Depth(x) = 0 /\ Depth(x)' = 0
      BY <1>1, <1>a DEF Depth
    <2> QED
      BY <1>0, <1>1, <1>a, <2>1 DEF FlagsOf
  <1>5. \A m \in Lock : Owns(x, m)' <=> Owns(x, m)
    BY <1>1, Zenon DEF Owns
  <1>6. \A m \in Lock : Claims(c, m)' <=> Claims(c, m)
    BY <1>1, Zenon DEF Claims
  <1> QED
    BY <1>0, <1>1, <1>2, <1>3, <1>4, <1>5, <1>6, HandsFrames, FlagsAt, OwnedSame, ClaimedSame,
       Zenon
       DEF Rest, IndInv

\* sched() hands p->lock to the scheduler of its CPU; its checks do not fail.
LEMMA SchedKeeps ==
  ASSUME IndInv, Running', NEW c \in Cpu, NEW t, t = on[c], sched(c)
  PROVE  Rest'
  <1>0. /\ CpuStep(c) /\ t \in Thread /\ HandsOf(t) /\ FrameOf(t) /\ FlagsOf(c, t)
        /\ noff[c] \in Nat
    BY At DEF CpuStep, sched
  <1>a. /\ c # t /\ c \notin Thread /\ t \notin Cpu /\ c \in Ctx /\ t \in Ctx
        /\ t \in Lock /\ Dev \in Lock /\ t # Dev /\ Dev \notin Thread
    BY <1>0, Apart, Zenon
  <1>b. held[c] = {} /\ pc[c] = "run" /\ trap[c] = 0 /\ FrameOf(c)
    <2>1. \A d \in Cpu : on[d] # c
      <3>1. \A d \in Cpu : on[d] \in Thread \cup {d}
        BY Zenon DEF IndInv, Running
      <3> QED
        BY <1>a, <3>1, Zenon
    <2> QED
      BY <1>a, <2>1, Zenon DEF IndInv, Parked, Frames
  <1>1. /\ on'[c] = c /\ held'[t] = {} /\ held'[c] = {t} /\ held[t] = {t} /\ pc[t] = "run"
        /\ pc' = pc /\ arg' = arg /\ old' = old /\ saved' = saved /\ trap' = trap
        /\ locked' = locked /\ lcpu' = lcpu /\ noff' = noff /\ sie' = sie /\ intena' = intena
    BY <1>0, <1>a, ZenonT(30) DEF IndInv, TypeOK, sched, lockVars
  <1>2. HandsOf(t)' /\ HandsOf(c)'
    <2>1. HandsOf(t)'
      BY <1>1, <1>a, <1>b, Zenon DEF HandsOf, Acquiring
    <2>2. HandsOf(c)'
      <3>1. pc'[c] = "run" /\ trap'[c] # 1 /\ c \notin Thread
        BY <1>1, <1>a, <1>b
      <3>2. Dev \notin held'[c] /\ \A u, v \in Thread : u \in held'[c] /\ v \in held'[c] => u = v
        BY <1>1, <1>a, Zenon
      <3> QED
        BY <3>1, <3>2, Zenon DEF HandsOf, Acquiring
    <2> QED
      BY <2>1, <2>2, Zenon
  <1>3. FrameOf(t)' /\ FrameOf(c)'
    BY <1>0, <1>1, <1>b, Zenon DEF FrameOf
  <1>4. noff[c] = 1 /\ sie[c] = 0 /\ FlagsOf(c, c)'
    <2>1. Depth(t) = 1 /\ Depth(c)' = 1
      <3>1. Dev \notin held[t] /\ held[t] \cap Thread # {} /\ pc[t] \notin {"spin", "setcpu", "pop"}
        BY <1>0, <1>1, <1>a, ZenonT(40)
      <3>2. Dev \notin held'[c] /\ held'[c] \cap Thread # {} /\ pc'[c] \notin {"spin", "setcpu", "pop"}
        BY <1>0, <1>1, <1>a, <1>b, ZenonT(40)
      <3> QED
        BY <3>1, <3>2 DEF Depth
    <2>2. noff[c] = 1 /\ sie[c] = 0
      BY <1>0, <2>1 DEF FlagsOf
    <2>3. noff'[c] = 1 /\ sie'[c] = 0 /\ pc'[c] = "run" /\ c \notin Thread /\ trap'[c] = 0
      BY <1>1, <1>a, <1>b, <2>2, Zenon
    <2> QED
      BY <2>1, <2>2, <2>3 DEF FlagsOf
  <1>5. \A m \in Lock : /\ (Owns(t, m) <=> m = t) /\ ~Owns(c, m)
                       /\ (Owns(c, m)' <=> m = t) /\ ~Owns(t, m)'
    BY <1>1, <1>b, Zenon DEF Owns
  <1>6. \A m \in Lock : Claims(c, m)' <=> Claims(c, m)
    BY <1>1, <1>b, Zenon DEF Claims
  <1>7. ~panicked'
    <2>1. Claims(c, t) /\ Owns(t, t)
      BY <1>1, Zenon DEF Claims, Owns
    <2>2. lcpu[t] = c /\ locked[t] = 1
      BY <1>a, <2>1, Zenon DEF IndInv, Claimed, Owned
    <2>3. ~(~holding(c, t) \/ noff[c] # 1 \/ sie[c] = 1)
      BY <1>4, <2>2 DEF holding
    <2> QED
      BY <2>3, Zenon DEF sched
  <1> QED
    BY <1>0, <1>a, <1>1, <1>2, <1>3, <1>4, <1>5, <1>6, <1>7, HandsFrames, FlagsAt, OwnedMove,
       ClaimedSame, ZenonT(30)
       DEF Rest

\* scheduler() hands p->lock to the thread, which brings its own intena unless it is new.
LEMMA SwtchKeeps ==
  ASSUME IndInv, Running', NEW c \in Cpu, NEW t \in Thread, swtch(c, t)
  PROVE  Rest'
  <1>0. /\ CpuStep(c) /\ on[c] = c /\ HandsOf(c) /\ FrameOf(c) /\ FlagsOf(c, c)
        /\ noff[c] \in Nat /\ held[c] \subseteq Lock
    BY At, Zenon DEF CpuStep, swtch
  <1>a. /\ c # t /\ c \notin Thread /\ t \notin Cpu /\ c \in Ctx /\ t \in Ctx
        /\ t \in Lock /\ Dev \in Lock /\ t # Dev /\ Dev \notin Thread
    BY Apart, Zenon
  <1>b. /\ held[t] = {} /\ pc[t] = "run" /\ FrameOf(t)
        /\ phase[t] # "new" => sintena[t] = 1 - trap[t]
    BY <1>a, Zenon DEF IndInv, Parked, Frames, Running, swtch
  <1>1. /\ on'[c] = t /\ held'[c] = {} /\ held'[t] = {t} /\ t \in held[c] /\ pc[c] = "run"
        /\ pc' = pc /\ arg' = arg /\ old' = old /\ saved' = saved /\ trap' = trap
        /\ locked' = locked /\ lcpu' = lcpu /\ noff' = noff /\ sie' = sie
        /\ intena'[c] = (IF phase[t] = "new" THEN intena[c] ELSE sintena[t]) /\ panicked' = panicked
        /\ phase'[t] = IF phase[t] = "new" THEN "forkret" ELSE "leaves"
    BY <1>a, Zenon DEF IndInv, TypeOK, swtch, SwtchIntena, lockVars
  <1>c. held[c] = {t} /\ trap[c] = 0
    <2>1. trap[c] \in {0, 1} /\ held[c] \subseteq Thread \cup {Dev}
      BY <1>0, <1>a, Zenon DEF IndInv, TypeOK, Lock
    <2>2. /\ trap[c] = 1 => held[c] \subseteq {Dev}
          /\ trap[c] = 0 => Dev \notin held[c]
          /\ \A u, v \in Thread : u \in held[c] /\ v \in held[c] => u = v
      BY <1>0, Zenon DEF HandsOf
    <2> QED
      BY <1>1, <1>a, <2>1, <2>2
  <1>2. HandsOf(t)' /\ HandsOf(c)'
    <2>1. HandsOf(t)'
      <3>1. pc'[t] = "run" /\ t \notin Cpu /\ held'[t] \subseteq {Dev, t}
        BY <1>1, <1>a, <1>b, Zenon
      <3> QED
        BY <3>1, Zenon DEF HandsOf, Acquiring
    <2>2. HandsOf(c)'
      BY <1>1, <1>a, <1>b, Zenon DEF HandsOf, Acquiring
    <2> QED
      BY <2>1, <2>2, ZenonT(30)
  <1>3. FrameOf(t)' /\ FrameOf(c)'
    BY <1>0, <1>1, <1>b, Zenon DEF FrameOf
  <1>4. FlagsOf(c, t)'
    <2>1. Depth(c) = 1 /\ Depth(t)' = 1
      <3>1. Dev \notin held[c] /\ held[c] \cap Thread # {} /\ pc[c] \notin {"spin", "setcpu", "pop"}
        BY <1>1, <1>a, <1>c, ZenonT(40)
      <3>2. Dev \notin held'[t] /\ held'[t] \cap Thread # {} /\ pc'[t] \notin {"spin", "setcpu", "pop"}
        BY <1>1, <1>a, <1>b, ZenonT(40)
      <3> QED
        BY <3>1, <3>2 DEF Depth
    <2>2. noff[c] = 1 /\ sie[c] = 0
      BY <1>0, <2>1 DEF FlagsOf
    <2>3. /\ noff'[c] = 1 /\ sie'[c] = 0 /\ pc'[t] = "run" /\ t \notin Cpu
          /\ intena'[c] = 1 - trap'[t] \/ phase'[t] = "forkret"
      BY <1>1, <1>a, <1>b, <2>2, Zenon
    <2> QED
      BY <2>1, <2>3, SMTT(30) DEF FlagsOf
  <1>5. \A m \in Lock : /\ (Owns(c, m) <=> m = t) /\ ~Owns(t, m)
                       /\ (Owns(t, m)' <=> m = t) /\ ~Owns(c, m)'
    BY <1>1, <1>b, <1>c, Zenon DEF Owns
  <1>6. \A m \in Lock : Claims(c, m)' <=> Claims(c, m)
    BY <1>0, <1>1, <1>b, <1>c, Zenon DEF Claims
  <1> QED
    BY <1>0, <1>a, <1>1, <1>2, <1>3, <1>4, <1>5, <1>6, HandsFrames, FlagsAt, OwnedMove,
       ClaimedSame, Zenon
       DEF Rest, IndInv

\* No step disturbs the rest.
LEMMA RestNext == IndInv /\ [Next]_vars => Rest'
<1> SUFFICES ASSUME IndInv, [Next]_vars PROVE Rest'
  BY Zenon
<1>1. ASSUME NEW c \in Cpu, NEW l \in Lock, acquire(c, l) \/ release(c, l) PROVE Rest'
  BY <1>1, RunningNext, AcquireKeeps, ReleaseKeeps, Zenon
<1>2. ASSUME NEW c \in Cpu,
               push_off(c) \/ test_and_set(c) \/ set_cpu(c) \/ lock_release(c) \/ pop_off(c)
      PROVE  Rest'
  BY <1>2, RunningNext, PushOffKeeps, TestAndSetKeeps, SetCpuKeeps, LockReleaseKeeps, PopOffKeeps, Zenon
<1>3. ASSUME NEW c \in Cpu, kerneltrap(c) \/ trap_return(c) \/ sched(c) \/ usertrapret(c) \/ intr_on(c)
      PROVE  Rest'
  BY <1>3, RunningNext, KernelTrapKeeps, TrapReturnKeeps, SchedKeeps, UserTrapRetKeeps, IntrOnKeeps,
     Zenon
<1>4. ASSUME NEW c \in Cpu, NEW t \in Thread, swtch(c, t) PROVE Rest'
  BY <1>4, RunningNext, SwtchKeeps, Zenon
<1>5. CASE UNCHANGED vars
  <2>1. \A x : Depth(x)' = Depth(x)
    BY <1>5, Zenon DEF vars, Depth
  <2>2. Hands' /\ Frames'
    BY <1>5, Zenon DEF IndInv, vars, Hands, HandsOf, Frames, FrameOf
  <2>3. Owned' /\ Claimed'
    <3>1. /\ held' = held /\ pc' = pc /\ arg' = arg /\ on' = on /\ locked' = locked /\ lcpu' = lcpu
      BY <1>5, Zenon DEF vars, lockVars, cpuVars
    <3>2. Owned'
      BY <3>1, Zenon DEF IndInv, Owned, Owns
    <3>3. Claimed'
      BY <3>1, Zenon DEF IndInv, Claimed, Claims
    <3> QED
      BY <3>2, <3>3, Zenon
  <2>4. Flags' /\ ~panicked'
    BY <1>5, <2>1, Zenon DEF IndInv, vars, cpuVars, Flags, FlagsOf
  <2> QED
    BY <2>2, <2>3, <2>4, Zenon DEF Rest
<1> QED
  BY <1>1, <1>2, <1>3, <1>4, <1>5, Zenon DEF Next

-----------------------------------------------------------------------------
\* The machine starts with every lock free and every thread in sched() or new.
LEMMA InitInv == Init => IndInv
<1> SUFFICES ASSUME Init PROVE IndInv
  BY Zenon
<1> USE NameAssumption DEF Init, initlock, Contexts, Ctx
<1>1. TypeOK
  <2>1. phase \in [Ctx -> Phase]
    BY Zenon DEF Phase
  <2> QED
    BY <2>1, Zenon DEF TypeOK, Lock, PC, NoFrame
<1>2. Running /\ Parked
  BY DEF Running, Parked
<1>3. Hands /\ Frames
  BY DEF Hands, HandsOf, Frames, FrameOf, Acquiring
<1>4. Owned /\ Claimed
  BY DEF Owned, Owns, Claimed, Claims, Lock
<1>5. Flags
  BY DEF Flags, FlagsOf, Depth
<1>6. Fresh
  BY Zenon DEF Fresh, FreshOf
<1> QED
  BY <1>1, <1>2, <1>3, <1>4, <1>5, <1>6, Zenon DEF IndInv

\* The invariant holds in every reachable state.
THEOREM Inductive == Spec => []IndInv
<1>1. IndInv /\ [Next]_vars => IndInv'
  BY TypeOKNext, RunningNext, ParkedNext, FreshNext, RestNext, Zenon DEF IndInv, Rest
<1> QED
  BY <1>1, InitInv, PTL DEF Spec

\* acquire and release exclude one another on any number of CPUs, interrupted or
\* not, and holding() is right on the CPU that asks (spinlock.c).
THEOREM MutualExclusionHolds == Spec => []MutualExclusion
<1>1. IndInv => MutualExclusion
  <2> SUFFICES ASSUME IndInv, NEW l \in Lock
               PROVE  /\ \A x, y \in Ctx : l \in held[x] /\ l \in held[y] => x = y
                      /\ \A c \in Cpu : holding(c, l) => l \in held[on[c]]
    BY Zenon DEF MutualExclusion, IndInv
  <2>1. \A x, y \in Ctx : l \in held[x] /\ l \in held[y] => x = y
    BY Zenon DEF IndInv, Owned, Owns
  <2>2. \A c \in Cpu : holding(c, l) => l \in held[on[c]]
    BY Zenon DEF IndInv, Claimed, Claims, holding
  <2> QED
    BY <2>1, <2>2, Zenon
<1> QED
  BY <1>1, Inductive, PTL

\* push_off and pop_off match across sched(), swtch and traps: a thread without
\* locks has interrupts on exactly when it is not in a trap handler, save for a
\* new process on its way from forkret's release to user space, and no check of
\* acquire, release, pop_off or sched() ever panics (spinlock.c, proc.c).
THEOREM IntrRestoredHolds == Spec => []IntrRestored
<1>1. IndInv => IntrRestored
  <2> SUFFICES ASSUME IndInv, NEW c \in Cpu, on[c] \in Thread, pc[on[c]] = "run", held[on[c]] = {}
               PROVE  sie[c] = 1 <=> trap[on[c]] = 0
    BY Zenon DEF IntrRestored, IndInv
  <2>1. Depth(on[c]) = 0
    BY DEF Depth
  <2>2. sie[c] = 1 - trap[on[c]]
    <3>1. noff[c] = 0 /\ pc[on[c]] # "forkret" /\ FlagsOf(c, on[c])
      BY <2>1, At, Zenon DEF FlagsOf
    <3> QED
      BY <3>1, Zenon DEF FlagsOf
  <2>3. trap[on[c]] \in {0, 1}
    BY At DEF IndInv, TypeOK
  <2> QED
    BY <2>2, <2>3
<1> QED
  BY <1>1, Inductive, PTL

=============================================================================
