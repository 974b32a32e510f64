-------------------------- MODULE SleepLockProofs ---------------------------
(***************************************************************************)
(* Proofs about sleeping and waking, for every number of processes and     *)
(* every set of CPUs.                                                      *)
(***************************************************************************)
EXTENDS SleepLock, FiniteSetTheorems, TLAPS

\* c->proc names a process on one CPU only, and a stack in use has its CPU.
Placement ==
  /\ \A c, d \in Cpu : onCpu[c] = onCpu[d] /\ onCpu[c] # NoProc => c = d
  /\ \A p \in Proc : ctx[p] # "saved" => \E c \in Cpu : onCpu[c] = p

\* p->lock is held exactly while p is being switched to or from, or is about
\* to mark itself SLEEPING, and always by the CPU that p is on.
ProcLocks ==
  \A p \in Proc, c \in Cpu :
     plock[p] = c <=> onCpu[c] = p /\ (ctx[p] # "running" \/ pc[p] \in {"sleep", "mark"})

\* lk->lk is held by the CPU of the one process inside its critical section.
InSection(p) == pc[p] \in {"test", "sleep", "wakeup"}
InnerLock ==
  \A p \in Proc : InSection(p) =>
     /\ ctx[p] = "running"
     /\ lk \in Cpu
     /\ onCpu[lk] = p
InnerFree == lk \in Cpu => \E p \in Proc : InSection(p)

\* p->state against where p's stack is.
States ==
  \A p \in Proc :
     /\ state[p] = "RUNNING" <=> ctx[p] \in {"running", "resumed"}
     /\ state[p] = "SLEEPING" => pc[p] = "asleep"
     /\ pc[p] = "asleep" => chan[p] = "slk" /\ ctx[p] # "running"
     /\ pc[p] = "sleep" => locked = 1
     /\ pc[p] = "mark" => ctx[p] = "running"

IndInv ==
  /\ TypeOK /\ Placement /\ ProcLocks /\ InnerLock /\ InnerFree /\ States
  /\ MutualExclusion /\ NoLostWakeup

-----------------------------------------------------------------------------

LEMMA InitInv == Init => IndInv
<1> SUFFICES ASSUME Init PROVE IndInv
  BY Zenon
<1> USE ProcAssumption, CpuAssumption DEF Init, Proc, NoProc
<1>1. TypeOK
  BY DEF TypeOK, PC
<1>2. Placement /\ ProcLocks
  BY DEF Placement, ProcLocks
<1>3. InnerLock /\ InnerFree
  BY Zenon DEF InnerLock, InnerFree, InSection
<1>4. States /\ MutualExclusion /\ NoLostWakeup
  BY Zenon DEF States, MutualExclusion, NoLostWakeup
<1> QED
  BY <1>1, <1>2, <1>3, <1>4, Zenon DEF IndInv

LEMMA NextInv == IndInv /\ [Next]_vars => IndInv'
<1> SUFFICES ASSUME IndInv, [Next]_vars PROVE IndInv'
  BY Zenon
<1> USE ProcAssumption, CpuAssumption DEF IndInv, Proc, NoProc, Runs
<1>1. ASSUME NEW c \in Cpu, NEW p \in Proc, scheduler_pick(c, p) PROVE IndInv'
  <2> USE <1>1 DEF scheduler_pick
  <2>1. TypeOK'
    BY Zenon DEF TypeOK, PC
  <2>2. Placement'
    BY DEF TypeOK, Placement, ProcLocks, States
  <2>3. ProcLocks'
    BY DEF TypeOK, Placement, ProcLocks, States, InnerLock, InSection
  <2>4. InnerLock' /\ InnerFree'
    BY DEF TypeOK, Placement, InnerLock, InnerFree, InSection, States, ProcLocks
  <2>5. States' /\ MutualExclusion'
    BY DEF TypeOK, States, MutualExclusion, Placement, ProcLocks
  <2>6. NoLostWakeup'
    BY DEF TypeOK, NoLostWakeup, States, InnerLock, InSection, InnerFree
  <2> QED
    BY <2>1, <2>2, <2>3, <2>4, <2>5, <2>6, Zenon
<1>2. ASSUME NEW c \in Cpu, NEW p \in Proc, swtch(c, p) PROVE IndInv'
  <2> USE <1>2 DEF swtch
  <2>1. TypeOK'
    BY Zenon DEF TypeOK, PC
  <2>2. Placement'
    BY Zenon DEF TypeOK, Placement
  <2>3. ProcLocks'
    BY DEF TypeOK, Placement, ProcLocks, States, InnerLock, InSection
  <2>4. InnerLock' /\ InnerFree'
    BY DEF TypeOK, Placement, InnerLock, InnerFree, InSection, States, ProcLocks
  <2>5. States' /\ MutualExclusion'
    BY SMTT(30) DEF TypeOK, States, MutualExclusion, Placement, ProcLocks
  <2>6. NoLostWakeup'
    BY Zenon DEF TypeOK, NoLostWakeup, States, InnerLock, InSection, InnerFree
  <2> QED
    BY <2>1, <2>2, <2>3, <2>4, <2>5, <2>6, Zenon
<1>3. ASSUME NEW c \in Cpu, NEW p \in Proc, scheduler_back(c, p) PROVE IndInv'
  <2> USE <1>3 DEF scheduler_back
  <2>1. TypeOK'
    BY Zenon DEF TypeOK, PC
  <2>2. Placement'
    BY DEF TypeOK, Placement
  <2>3. ProcLocks'
    BY DEF TypeOK, Placement, ProcLocks, States, InnerLock, InSection
  <2>4. InnerLock' /\ InnerFree'
    BY DEF TypeOK, Placement, InnerLock, InnerFree, InSection, States, ProcLocks
  <2>5. States' /\ MutualExclusion'
    BY Zenon DEF TypeOK, States, MutualExclusion, Placement, ProcLocks
  <2>6. NoLostWakeup'
    BY Zenon DEF TypeOK, NoLostWakeup, States, InnerLock, InSection, InnerFree
  <2> QED
    BY <2>1, <2>2, <2>3, <2>4, <2>5, <2>6, Zenon
<1>4. ASSUME NEW c \in Cpu, NEW p \in Proc, resume(c, p) PROVE IndInv'
  <2> USE <1>4 DEF resume
  <2>1. TypeOK'
    <3>1. CASE pc[p] = "asleep"
      BY <3>1, ZenonT(30) DEF TypeOK, PC
    <3>2. CASE pc[p] # "asleep"
      BY <3>2, Zenon DEF TypeOK, PC
    <3> QED
      BY <3>1, <3>2, Zenon
  <2>2. Placement'
    BY DEF TypeOK, Placement
  <2>3. ProcLocks'
    BY DEF TypeOK, Placement, ProcLocks, States, InnerLock, InSection
  <2>4. InnerLock' /\ InnerFree'
    BY DEF TypeOK, Placement, InnerLock, InnerFree, InSection, States, ProcLocks
  <2>5. States' /\ MutualExclusion'
    BY DEF TypeOK, States, MutualExclusion, Placement, ProcLocks
  <2>6. NoLostWakeup'
    BY DEF TypeOK, NoLostWakeup, States, InnerLock, InSection, InnerFree
  <2> QED
    BY <2>1, <2>2, <2>3, <2>4, <2>5, <2>6, Zenon
<1>5. ASSUME NEW c \in Cpu, NEW p \in Proc, yield(c, p) PROVE IndInv'
  <2> USE <1>5 DEF yield
  <2>1. TypeOK'
    BY Zenon DEF TypeOK, PC
  <2>2. Placement'
    BY DEF TypeOK, Placement
  <2>3. ProcLocks'
    BY DEF TypeOK, Placement, ProcLocks, States, InnerLock, InSection
  <2>4. InnerLock' /\ InnerFree'
    BY DEF TypeOK, Placement, InnerLock, InnerFree, InSection, States, ProcLocks
  <2>5. States' /\ MutualExclusion'
    BY DEF TypeOK, States, MutualExclusion, Placement, ProcLocks
  <2>6. NoLostWakeup'
    BY DEF TypeOK, NoLostWakeup, States, InnerLock, InSection, InnerFree
  <2> QED
    BY <2>1, <2>2, <2>3, <2>4, <2>5, <2>6, Zenon
<1>6. ASSUME NEW c \in Cpu, NEW p \in Proc, acquiresleep(c, p) PROVE IndInv'
  <2> USE <1>6 DEF acquiresleep
  <2>1. TypeOK'
    BY Zenon DEF TypeOK, PC
  <2>2. Placement'
    BY DEF TypeOK, Placement
  <2>3. ProcLocks'
    BY DEF TypeOK, Placement, ProcLocks, States, InnerLock, InSection
  <2>4. InnerLock' /\ InnerFree'
    BY DEF TypeOK, Placement, InnerLock, InnerFree, InSection, States, ProcLocks
  <2>5. States' /\ MutualExclusion'
    BY DEF TypeOK, States, MutualExclusion, Placement, ProcLocks
  <2>6. NoLostWakeup'
    BY DEF TypeOK, NoLostWakeup, States, InnerLock, InSection, InnerFree
  <2> QED
    BY <2>1, <2>2, <2>3, <2>4, <2>5, <2>6, Zenon
<1>7. ASSUME NEW c \in Cpu, NEW p \in Proc, acquire(c, p) PROVE IndInv'
  <2> USE <1>7 DEF acquire
  <2>1. TypeOK'
    BY Zenon DEF TypeOK, PC
  <2>2. Placement'
    BY DEF TypeOK, Placement
  <2>3. ProcLocks'
    BY DEF TypeOK, Placement, ProcLocks, States, InnerLock, InSection
  <2>4. InnerLock' /\ InnerFree'
    BY DEF TypeOK, Placement, InnerLock, InnerFree, InSection, States, ProcLocks
  <2>5. States' /\ MutualExclusion'
    BY DEF TypeOK, States, MutualExclusion, Placement, ProcLocks
  <2>6. NoLostWakeup'
    BY DEF TypeOK, NoLostWakeup, States, InnerLock, InSection, InnerFree
  <2> QED
    BY <2>1, <2>2, <2>3, <2>4, <2>5, <2>6, Zenon
<1>8. ASSUME NEW c \in Cpu, NEW p \in Proc, take(c, p) PROVE IndInv'
  <2> USE <1>8 DEF take
  <2>1. TypeOK'
    BY Zenon DEF TypeOK, PC
  <2>2. Placement'
    BY DEF TypeOK, Placement
  <2>3. ProcLocks'
    BY DEF TypeOK, Placement, ProcLocks, States, InnerLock, InSection
  <2>4. InnerLock' /\ InnerFree'
    BY DEF TypeOK, Placement, InnerLock, InnerFree, InSection, States, ProcLocks
  <2>5. States' /\ MutualExclusion'
    BY DEF TypeOK, States, MutualExclusion, Placement, ProcLocks
  <2>6. NoLostWakeup'
    BY DEF TypeOK, NoLostWakeup, States, InnerLock, InSection, InnerFree
  <2> QED
    BY <2>1, <2>2, <2>3, <2>4, <2>5, <2>6, Zenon
<1>9. ASSUME NEW c \in Cpu, NEW p \in Proc, sleep_lock(c, p) PROVE IndInv'
  <2> USE <1>9 DEF sleep_lock
  <2>1. TypeOK'
    BY Zenon DEF TypeOK, PC
  <2>2. Placement'
    BY DEF TypeOK, Placement
  <2>3. ProcLocks'
    BY DEF TypeOK, Placement, ProcLocks, States, InnerLock, InSection
  <2>4. InnerLock' /\ InnerFree'
    BY DEF TypeOK, Placement, InnerLock, InnerFree, InSection, States, ProcLocks
  <2>5. States' /\ MutualExclusion'
    BY DEF TypeOK, States, MutualExclusion, Placement, ProcLocks
  <2>6. NoLostWakeup'
    BY DEF TypeOK, NoLostWakeup, States, InnerLock, InSection, InnerFree
  <2> QED
    BY <2>1, <2>2, <2>3, <2>4, <2>5, <2>6, Zenon
<1>10. ASSUME NEW c \in Cpu, NEW p \in Proc, sleep(c, p) PROVE IndInv'
  <2> USE <1>10 DEF sleep
  <2>1. TypeOK'
    BY Zenon DEF TypeOK, PC
  <2>2. Placement'
    BY DEF TypeOK, Placement
  <2>3. ProcLocks'
    BY DEF TypeOK, Placement, ProcLocks, States, InnerLock, InSection
  <2>4. InnerLock' /\ InnerFree'
    BY DEF TypeOK, Placement, InnerLock, InnerFree, InSection, States, ProcLocks
  <2>5. States' /\ MutualExclusion'
    BY DEF TypeOK, States, MutualExclusion, Placement, ProcLocks
  <2>6. NoLostWakeup'
    BY DEF TypeOK, NoLostWakeup, States, InnerLock, InSection, InnerFree
  <2> QED
    BY <2>1, <2>2, <2>3, <2>4, <2>5, <2>6, Zenon
<1>11. ASSUME NEW c \in Cpu, NEW p \in Proc, sleep_release(c, p) PROVE IndInv'
  <2> USE <1>11 DEF sleep_release
  <2>1. TypeOK'
    BY Zenon DEF TypeOK, PC
  <2>2. Placement'
    BY DEF TypeOK, Placement
  <2>3. ProcLocks'
    BY DEF TypeOK, Placement, ProcLocks, States, InnerLock, InSection
  <2>4. InnerLock' /\ InnerFree'
    BY DEF TypeOK, Placement, InnerLock, InnerFree, InSection, States, ProcLocks
  <2>5. States' /\ MutualExclusion'
    BY DEF TypeOK, States, MutualExclusion, Placement, ProcLocks
  <2>6. NoLostWakeup'
    BY DEF TypeOK, NoLostWakeup, States, InnerLock, InSection, InnerFree
  <2> QED
    BY <2>1, <2>2, <2>3, <2>4, <2>5, <2>6, Zenon
<1>12. ASSUME NEW c \in Cpu, NEW p \in Proc, releasesleep(c, p) PROVE IndInv'
  <2> USE <1>12 DEF releasesleep
  <2>1. TypeOK'
    BY Zenon DEF TypeOK, PC
  <2>2. Placement'
    BY DEF TypeOK, Placement
  <2>3. ProcLocks'
    BY DEF TypeOK, Placement, ProcLocks, States, InnerLock, InSection
  <2>4. InnerLock' /\ InnerFree'
    BY DEF TypeOK, Placement, InnerLock, InnerFree, InSection, States, ProcLocks
  <2>5. States' /\ MutualExclusion'
    BY DEF TypeOK, States, MutualExclusion, Placement, ProcLocks
  <2>6. NoLostWakeup'
    BY DEF TypeOK, NoLostWakeup, States, InnerLock, InSection, InnerFree
  <2> QED
    BY <2>1, <2>2, <2>3, <2>4, <2>5, <2>6, Zenon
<1>13. ASSUME NEW c \in Cpu, NEW p \in Proc, unlock(c, p) PROVE IndInv'
  <2> USE <1>13 DEF unlock
  <2>1. TypeOK'
    BY DEF TypeOK, PC
  <2>2. Placement'
    BY DEF TypeOK, Placement
  <2>3. ProcLocks'
    BY DEF TypeOK, Placement, ProcLocks, States, InnerLock, InSection
  <2>4. InnerLock' /\ InnerFree'
    BY DEF TypeOK, Placement, InnerLock, InnerFree, InSection, States, ProcLocks
  <2>5. States' /\ MutualExclusion'
    BY DEF TypeOK, States, MutualExclusion, InnerLock, InSection
  <2>6. NoLostWakeup'
    BY DEF TypeOK, NoLostWakeup, States, InnerLock, InSection, InnerFree
  <2> QED
    BY <2>1, <2>2, <2>3, <2>4, <2>5, <2>6, Zenon
<1>14. ASSUME NEW c \in Cpu, NEW p \in Proc, wakeup(c, p) PROVE IndInv'
  <2> USE <1>14 DEF wakeup
  <2>1. TypeOK'
    BY DEF TypeOK, PC
  <2>2. Placement'
    BY DEF TypeOK, Placement
  <2>3. ProcLocks'
    BY DEF TypeOK, Placement, ProcLocks, States, InnerLock, InSection
  <2>4. InnerLock' /\ InnerFree'
    BY DEF TypeOK, Placement, InnerLock, InnerFree, InSection, States, ProcLocks
  <2>5. States' /\ MutualExclusion'
    BY DEF TypeOK, States, MutualExclusion, Placement, ProcLocks
  <2>6. NoLostWakeup'
    <3>1. scan # p => pc[scan] # "mark"
      BY DEF TypeOK, ProcLocks, Placement, States
    <3>2. state'[scan] # "SLEEPING"
      BY DEF TypeOK, States
    <3> QED
      BY <3>1, <3>2 DEF TypeOK, NoLostWakeup, States
  <2> QED
    BY <2>1, <2>2, <2>3, <2>4, <2>5, <2>6, Zenon
<1>15. ASSUME NEW c \in Cpu, NEW p \in Proc, woken(c, p) PROVE IndInv'
  <2> USE <1>15 DEF woken
  <2>1. TypeOK'
    BY Zenon DEF TypeOK, PC
  <2>2. Placement'
    BY Zenon DEF TypeOK, Placement
  <2>3. ProcLocks'
    BY DEF TypeOK, Placement, ProcLocks, States, InnerLock, InSection
  <2>4. InnerLock' /\ InnerFree'
    BY DEF TypeOK, Placement, InnerLock, InnerFree, InSection, States, ProcLocks
  <2>5. States' /\ MutualExclusion'
    BY DEF TypeOK, States, MutualExclusion, Placement, ProcLocks
  <2>6. NoLostWakeup'
    BY DEF TypeOK, NoLostWakeup, States, InnerLock, InSection, InnerFree
  <2> QED
    BY <2>1, <2>2, <2>3, <2>4, <2>5, <2>6, Zenon
<1>16. ASSUME NEW c \in Cpu, NEW p \in Proc, NEW q \in Proc, kill(c, p, q) PROVE IndInv'
  <2> USE <1>16 DEF kill
  <2>1. TypeOK'
    BY Zenon DEF TypeOK, PC
  <2>2. Placement'
    BY DEF TypeOK, Placement
  <2>3. ProcLocks'
    BY DEF TypeOK, Placement, ProcLocks, States, InnerLock, InSection
  <2>4. InnerLock' /\ InnerFree'
    BY Zenon DEF TypeOK, Placement, InnerLock, InnerFree, InSection, States, ProcLocks
  <2>5. States' /\ MutualExclusion'
    BY DEF TypeOK, States, MutualExclusion, Placement, ProcLocks
  <2>6. NoLostWakeup'
    BY DEF TypeOK, NoLostWakeup, States, InnerLock, InSection, InnerFree
  <2> QED
    BY <2>1, <2>2, <2>3, <2>4, <2>5, <2>6, Zenon
<1>17. CASE UNCHANGED vars
  BY <1>17 DEF vars, TypeOK, Placement, ProcLocks, InSection, InnerLock, InnerFree, States,
       MutualExclusion, NoLostWakeup
<1> QED
  BY <1>1, <1>2, <1>3, <1>4, <1>5, <1>6, <1>7, <1>8, <1>9,
     <1>10, <1>11, <1>12, <1>13, <1>14, <1>15, <1>16, <1>17, Zenon
     DEF Next, Switch, Step

-----------------------------------------------------------------------------
\* IndInv is an invariant of the specification.
THEOREM Invariance == Spec => []IndInv
BY InitInv, NextInv, PTL DEF Spec

\* Type correctness of the process table, the CPUs and the sleep-lock.
THEOREM TypeCorrect == Spec => []TypeOK
BY Invariance, PTL DEF IndInv

\* acquiresleep/releasesleep exclude each other for any number of processes
\* and CPUs, whatever preemption, wakeups and kills do.
THEOREM SleepLockMutex == Spec => []MutualExclusion
BY Invariance, PTL DEF IndInv

\* sleep() misses no wakeup(): holding p->lock from before lk is released
\* until the scheduler has p's context is enough.
THEOREM WakeupNotLost == Spec => []NoLostWakeup
BY Invariance, PTL DEF IndInv

\* No CPU ever runs on, or switches to, a kernel stack another CPU uses.
THEOREM StacksExclusive == Spec => []StackExclusive
<1>1. IndInv => StackExclusive
  BY ProcAssumption DEF IndInv, TypeOK, Placement, StackExclusive, Proc, NoProc
<1> QED
  BY <1>1, Invariance, PTL

\* sched() is always entered with p->lock held, noff = 1 and the state changed.
THEOREM SchedNeverPanics == Spec => []SchedChecks
<1>1. IndInv => SchedChecks
  <2> SUFFICES ASSUME IndInv, NEW c \in Cpu, NEW p \in Proc,
                      onCpu[c] = p, ctx[p] = "sched"
               PROVE  plock[p] = c /\ Noff(c) = 1 /\ state[p] # "RUNNING"
    BY Zenon DEF SchedChecks
  <2> USE ProcAssumption, CpuAssumption DEF IndInv
  <2>1. plock[p] = c /\ state[p] # "RUNNING"
    BY DEF ProcLocks, States
  <2>2. {q \in Proc : plock[q] = c} = {p}
    BY <2>1 DEF ProcLocks
  <2>3. Cardinality({p}) = 1
    BY FS_Singleton, ZenonT(40)
  <2>4. lk # c
    BY Zenon DEF InnerLock, InnerFree
  <2> QED
    BY <2>1, <2>2, <2>3, <2>4 DEF Noff
<1> QED
  BY <1>1, Invariance, PTL
=============================================================================
