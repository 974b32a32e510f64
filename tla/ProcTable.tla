----------------------------- MODULE ProcTable ------------------------------
(***************************************************************************)
(* The life of processes: fork, exit, wait, kill and the checks of         *)
(* p->killed in usertrap (kernel/proc.c, kernel/trap.c), run by all        *)
(* processes at once over one process table.                               *)
(*                                                                         *)
(* A section under one p->lock is a step, and so is sleep() (module        *)
(* SleepLock is about what goes on inside).  wait_lock is held over many   *)
(* steps.  p->lock outlives a step in one place: exit() takes it and the   *)
(* scheduler releases it once p's stack is no longer in use (held).        *)
(* RUNNABLE stands for RUNNING too: no operation here tells them apart.    *)
(* A loop index is 1, and wait's havekids FALSE, outside of its loop.      *)
(***************************************************************************)
EXTENDS Naturals, FiniteSets

CONSTANTS NPROC,     \* slots of the process table
          MaxPid,    \* bound: the last pid handed out
          KillPids   \* the pids that processes pass to kill()

ASSUME SizeAssumption == NPROC \in Nat \ {0} /\ MaxPid \in Nat \ {0} /\ KillPids \subseteq Nat

Proc == 1..NPROC
None == 0            \* a null struct proc*, and a free wait_lock
initproc == 1

VARIABLES state, pid, parent, killed, chan,   \* fields of struct proc
          held,       \* p->lock is held by p, on its way out of exit()
          nextpid,
          wait_lock,  \* its holder
          wscan,      \* loop index of reparent() and wait(), under wait_lock
          wakei,      \* loop index of the wakeup()s in exit(), under wait_lock
          havekids,   \* wait()'s local, under wait_lock
          pc,         \* where each process is
          scan,       \* loop index of allocproc() and kill()
          arg         \* fork's np, or the pid given to kill()

fields == <<state, pid, parent, killed, chan>>
waitVars == <<wait_lock, wscan, wakei, havekids>>
vars == <<fields, held, nextpid, waitVars, pc, scan, arg>>

PC == {"none", "user", "allocproc", "fork_parent", "fork_run", "exit", "reparent",
       "wakeinit", "wakeparent", "sched", "wait", "scan", "sleep", "asleep", "kill"}

TypeOK ==
  /\ state \in [Proc -> {"UNUSED", "USED", "SLEEPING", "RUNNABLE", "ZOMBIE"}]
  /\ pid \in [Proc -> 0..MaxPid]
  /\ parent \in [Proc -> Proc \cup {None}]
  /\ killed \in [Proc -> {0, 1}]
  /\ chan \in [Proc -> Proc \cup {None}]
  /\ held \in [Proc -> BOOLEAN]
  /\ nextpid \in 1..MaxPid + 1
  /\ wait_lock \in Proc \cup {None}
  /\ wscan \in 1..NPROC + 1
  /\ wakei \in 1..NPROC + 1
  /\ havekids \in BOOLEAN
  /\ pc \in [Proc -> PC]
  /\ scan \in [Proc -> 1..NPROC + 1]
  /\ arg \in [Proc -> Nat]

\* procinit() and userinit(): the first process is init.
Init ==
  /\ state = [p \in Proc |-> IF p = initproc THEN "RUNNABLE" ELSE "UNUSED"]
  /\ pid = [p \in Proc |-> IF p = initproc THEN 1 ELSE 0]
  /\ parent = [p \in Proc |-> None]
  /\ killed = [p \in Proc |-> 0]
  /\ chan = [p \in Proc |-> None]
  /\ held = [p \in Proc |-> FALSE]
  /\ nextpid = 2
  /\ wait_lock = None
  /\ wscan = 1 /\ wakei = 1 /\ havekids = FALSE
  /\ pc = [p \in Proc |-> IF p = initproc THEN "user" ELSE "none"]
  /\ scan = [p \in Proc |-> 1]
  /\ arg = [p \in Proc |-> 0]

\* p moves on to a place in the code.
Goto(p, to) == pc' = [pc EXCEPT ![p] = to]

\* Trap from user mode: usertrap lets a process that has not been killed enter
\* a system call; one that has been goes to exit(-1).
Enters(p, to) ==
  /\ pc[p] = "user"
  /\ killed[p] = 0
  /\ Goto(p, to)

\* freeproc(q), under q->lock.
freeproc(q) ==
  /\ state' = [state EXCEPT ![q] = "UNUSED"]
  /\ pid' = [pid EXCEPT ![q] = 0]
  /\ parent' = [parent EXCEPT ![q] = None]
  /\ killed' = [killed EXCEPT ![q] = 0]
  /\ chan' = [chan EXCEPT ![q] = None]

-----------------------------------------------------------------------------
(* fork                                                                    *)

\* Forks are bounded by the pids left.
fork(p) ==
  /\ Enters(p, "allocproc")
  /\ nextpid + Cardinality({q \in Proc : pc[q] = "allocproc"}) <= MaxPid
  /\ UNCHANGED <<fields, held, nextpid, waitVars, scan, arg>>

\* One turn of allocproc's loop.  When kalloc, proc_pagetable or uvmcopy fail
\* the slot is freed again, its pid spent.
allocproc(p) ==
  LET np == scan[p] IN
  /\ pc[p] = "allocproc"
  /\ np \in Proc
  /\ ~held[np]
  /\ IF state[np] # "UNUSED"
     THEN /\ scan' = [scan EXCEPT ![p] = np + 1]
          /\ UNCHANGED <<fields, nextpid, pc, arg>>
     ELSE /\ nextpid' = nextpid + 1
          /\ scan' = [scan EXCEPT ![p] = 1]
          /\ \/ freeproc(np) /\ Goto(p, "user") /\ UNCHANGED arg
             \/ /\ pid' = [pid EXCEPT ![np] = nextpid]
                /\ state' = [state EXCEPT ![np] = "USED"]
                /\ arg' = [arg EXCEPT ![p] = np]
                /\ Goto(p, "fork_parent")
                /\ UNCHANGED <<parent, killed, chan>>
  /\ UNCHANGED <<held, waitVars>>

\* No slot was free.
fork_fails(p) ==
  /\ pc[p] = "allocproc"
  /\ scan[p] = NPROC + 1
  /\ scan' = [scan EXCEPT ![p] = 1]
  /\ Goto(p, "user")
  /\ UNCHANGED <<fields, held, nextpid, waitVars, arg>>

\* acquire(&wait_lock); np->parent = p; release(&wait_lock).
fork_parent(p) ==
  /\ pc[p] = "fork_parent"
  /\ wait_lock = None
  /\ parent' = [parent EXCEPT ![arg[p]] = p]
  /\ Goto(p, "fork_run")
  /\ UNCHANGED <<state, pid, killed, chan, held, nextpid, waitVars, scan, arg>>

\* np->state = RUNNABLE: the child's first step is the return to user space.
fork_run(p) ==
  /\ pc[p] = "fork_run"
  /\ ~held[arg[p]]
  /\ state' = [state EXCEPT ![arg[p]] = "RUNNABLE"]
  /\ pc' = [pc EXCEPT ![p] = "user", ![arg[p]] = "user"]
  /\ arg' = [arg EXCEPT ![p] = 0]
  /\ UNCHANGED <<pid, parent, killed, chan, held, nextpid, waitVars, scan>>

-----------------------------------------------------------------------------
(* exit                                                                    *)

\* exit(), by the program, or by usertrap for a killed process or after a
\* fault, for which it sets p->killed; init does neither.  Closing the files
\* comes first, before wait_lock.
exit(p) ==
  /\ pc[p] = "user"
  /\ p # initproc
  /\ UNCHANGED killed \/ killed' = [killed EXCEPT ![p] = 1]
  /\ Goto(p, "exit")
  /\ UNCHANGED <<state, pid, parent, chan, held, nextpid, waitVars, scan, arg>>

exit_lock(p) ==
  /\ pc[p] = "exit"
  /\ wait_lock = None
  /\ wait_lock' = p
  /\ Goto(p, "reparent")
  /\ UNCHANGED <<fields, held, nextpid, wscan, wakei, havekids, scan, arg>>

\* One turn of reparent's loop, up to the call of wakeup(initproc); after the
\* last one, the call of wakeup(p->parent).
reparent(p) ==
  /\ pc[p] = "reparent"
  /\ IF wscan \in Proc
     THEN IF parent[wscan] = p
          THEN /\ parent' = [parent EXCEPT ![wscan] = initproc]
               /\ Goto(p, "wakeinit")
               /\ UNCHANGED wscan
          ELSE /\ wscan' = wscan + 1
               /\ UNCHANGED <<parent, pc>>
     ELSE /\ wscan' = 1
          /\ Goto(p, "wakeparent")
          /\ UNCHANGED parent
  /\ UNCHANGED <<state, pid, killed, chan, held, nextpid, wait_lock, wakei, havekids,
                 scan, arg>>

\* One turn of the loop of wakeup(target), called by p.
WakeOne(p, target) ==
  /\ wakei # p => ~held[wakei]
  /\ state' = IF wakei # p /\ state[wakei] = "SLEEPING" /\ chan[wakei] = target
              THEN [state EXCEPT ![wakei] = "RUNNABLE"]
              ELSE state
  /\ wakei' = wakei + 1

wakeup(p) ==
  /\ wakei \in Proc
  /\ \/ pc[p] = "wakeinit" /\ WakeOne(p, initproc)
     \/ pc[p] = "wakeparent" /\ WakeOne(p, parent[p])
  /\ UNCHANGED <<pid, parent, killed, chan, held, nextpid, wait_lock, wscan,
                 havekids, pc, scan, arg>>

\* wakeup(initproc) returns to reparent's loop.
wakeinit_done(p) ==
  /\ pc[p] = "wakeinit"
  /\ wakei = NPROC + 1
  /\ wakei' = 1
  /\ wscan' = wscan + 1
  /\ Goto(p, "reparent")
  /\ UNCHANGED <<fields, held, nextpid, wait_lock, havekids, scan, arg>>

\* acquire(&p->lock); p->state = ZOMBIE; release(&wait_lock); sched().
zombie(p) ==
  /\ pc[p] = "wakeparent"
  /\ wakei = NPROC + 1
  /\ state' = [state EXCEPT ![p] = "ZOMBIE"]
  /\ held' = [held EXCEPT ![p] = TRUE]
  /\ wait_lock' = None
  /\ wakei' = 1
  /\ Goto(p, "sched")
  /\ UNCHANGED <<pid, parent, killed, chan, nextpid, wscan, havekids,
                 scan, arg>>

\* The scheduler, off p's stack, releases p->lock.
scheduler_back(p) ==
  /\ pc[p] = "sched"
  /\ held' = [held EXCEPT ![p] = FALSE]
  /\ Goto(p, "none")
  /\ UNCHANGED <<fields, nextpid, waitVars, scan, arg>>

-----------------------------------------------------------------------------
(* wait                                                                    *)

wait(p) ==
  /\ Enters(p, "wait")
  /\ UNCHANGED <<fields, held, nextpid, waitVars, scan, arg>>

\* acquire(&wait_lock), at the start or after sleep; the scan starts over.
wait_acquire(p) ==
  /\ pc[p] = "wait"
  /\ wait_lock = None
  /\ wait_lock' = p
  /\ Goto(p, "scan")
  /\ UNCHANGED <<fields, held, nextpid, wscan, wakei, havekids, scan, arg>>

\* (mutant) wait looks at the child without its lock.
wait_scanUnlocked(p) ==
  /\ pc[p] = "scan"
  /\ wscan \in Proc
  /\ IF parent[wscan] = p /\ state[wscan] = "ZOMBIE"
     THEN /\ freeproc(wscan)
          /\ wait_lock' = None
          /\ wscan' = 1
          /\ havekids' = FALSE
          /\ Goto(p, "user")
     ELSE /\ havekids' = (havekids \/ parent[wscan] = p)
          /\ wscan' = wscan + 1
          /\ UNCHANGED <<fields, wait_lock, pc>>
  /\ UNCHANGED <<held, nextpid, wakei, scan, arg>>

\* (mutant) wait returns without freeing the child.
wait_scanLeaks(p) ==
  /\ pc[p] = "scan"
  /\ wscan \in Proc
  /\ parent[wscan] = p => ~held[wscan]
  /\ IF parent[wscan] = p /\ state[wscan] = "ZOMBIE"
     THEN wait_lock' = None /\ wscan' = 1 /\ havekids' = FALSE /\ Goto(p, "user")
     ELSE /\ havekids' = (havekids \/ parent[wscan] = p)
          /\ wscan' = wscan + 1
          /\ UNCHANGED <<wait_lock, pc>>
  /\ UNCHANGED <<fields, held, nextpid, wakei, scan, arg>>

\* One turn of wait's loop.  copyout of the status may fail, except for init,
\* which calls wait(0).
wait_scan(p) ==
  /\ pc[p] = "scan"
  /\ wscan \in Proc
  /\ IF parent[wscan] = p
     THEN /\ ~held[wscan]
          /\ IF state[wscan] = "ZOMBIE"
             THEN /\ freeproc(wscan) \/ (p # initproc /\ UNCHANGED fields)
                  /\ wait_lock' = None
                  /\ wscan' = 1
                  /\ havekids' = FALSE
                  /\ Goto(p, "user")
             ELSE /\ havekids' = TRUE
                  /\ wscan' = wscan + 1
                  /\ UNCHANGED <<fields, wait_lock, pc>>
     ELSE /\ wscan' = wscan + 1
          /\ UNCHANGED <<fields, havekids, wait_lock, pc>>
  /\ UNCHANGED <<held, nextpid, wakei, scan, arg>>

\* (mutant) wait lets go of wait_lock before it calls sleep.
wait_decideUnlocks(p) ==
  /\ pc[p] = "scan"
  /\ wscan = NPROC + 1
  /\ wait_lock' = None
  /\ Goto(p, IF ~havekids \/ killed[p] = 1 THEN "user" ELSE "sleep")
  /\ wscan' = 1
  /\ havekids' = FALSE
  /\ UNCHANGED <<fields, held, nextpid, wakei, scan, arg>>

\* (mutant) wait sleeps on although the process has been killed.
wait_decideDeaf(p) ==
  /\ pc[p] = "scan"
  /\ wscan = NPROC + 1
  /\ IF ~havekids
     THEN wait_lock' = None /\ Goto(p, "user")
     ELSE Goto(p, "sleep") /\ UNCHANGED wait_lock
  /\ wscan' = 1
  /\ havekids' = FALSE
  /\ UNCHANGED <<fields, held, nextpid, wakei, scan, arg>>

\* The scan found nothing: return -1, or go to sleep.
wait_decide(p) ==
  /\ pc[p] = "scan"
  /\ wscan = NPROC + 1
  /\ IF ~havekids \/ killed[p] = 1
     THEN wait_lock' = None /\ Goto(p, "user")
     ELSE Goto(p, "sleep") /\ UNCHANGED wait_lock
  /\ wscan' = 1
  /\ havekids' = FALSE
  /\ UNCHANGED <<fields, held, nextpid, wakei, scan, arg>>

\* sleep(p, &wait_lock).
wait_sleep(p) ==
  /\ pc[p] = "sleep"
  /\ state' = [state EXCEPT ![p] = "SLEEPING"]
  /\ chan' = [chan EXCEPT ![p] = p]
  /\ wait_lock' = None
  /\ Goto(p, "asleep")
  /\ UNCHANGED <<pid, parent, killed, held, nextpid, wscan, wakei, havekids,
                 scan, arg>>

\* sleep() returns from sched().
awake(p) ==
  /\ pc[p] = "asleep"
  /\ state[p] = "RUNNABLE"
  /\ chan' = [chan EXCEPT ![p] = None]
  /\ Goto(p, "wait")
  /\ UNCHANGED <<state, pid, parent, killed, held, nextpid, waitVars, scan, arg>>

-----------------------------------------------------------------------------
(* kill                                                                    *)

kill(p, n) ==
  /\ Enters(p, "kill")
  /\ arg' = [arg EXCEPT ![p] = n]
  /\ UNCHANGED <<fields, held, nextpid, waitVars, scan>>

\* One turn of kill's loop.
kill_scan(p) ==
  LET q == scan[p] IN
  /\ pc[p] = "kill"
  /\ q \in Proc
  /\ ~held[q]
  /\ IF pid[q] = arg[p]
     THEN /\ killed' = [killed EXCEPT ![q] = 1]
          /\ state' = IF state[q] = "SLEEPING" THEN [state EXCEPT ![q] = "RUNNABLE"] ELSE state
          /\ arg' = [arg EXCEPT ![p] = 0]
          /\ scan' = [scan EXCEPT ![p] = 1]
          /\ Goto(p, "user")
     ELSE /\ scan' = [scan EXCEPT ![p] = q + 1]
          /\ UNCHANGED <<killed, state, arg, pc>>
  /\ UNCHANGED <<pid, parent, chan, held, nextpid, waitVars>>

\* No process has the pid.
kill_fails(p) ==
  /\ pc[p] = "kill"
  /\ scan[p] = NPROC + 1
  /\ arg' = [arg EXCEPT ![p] = 0]
  /\ scan' = [scan EXCEPT ![p] = 1]
  /\ Goto(p, "user")
  /\ UNCHANGED <<fields, held, nextpid, waitVars>>

-----------------------------------------------------------------------------
\* The steps a process takes without the program's doing, once in the kernel.
TakeLock(p) == fork_parent(p) \/ exit_lock(p) \/ wait_acquire(p)
Step(p) ==
  \/ allocproc(p) \/ fork_fails(p) \/ fork_run(p)
  \/ reparent(p) \/ wakeup(p) \/ wakeinit_done(p) \/ zombie(p) \/ scheduler_back(p)
  \/ wait_scan(p) \/ wait_decide(p) \/ wait_sleep(p) \/ awake(p)
  \/ kill_scan(p) \/ kill_fails(p)

Next ==
  \E p \in Proc :
     \/ Step(p) \/ TakeLock(p)
     \/ fork(p) \/ exit(p) \/ wait(p)
     \/ \E n \in KillPids : kill(p, n)

Spec == Init /\ [][Next]_vars

\* Kernel code runs on, a waiting process gets wait_lock in the end, a killed
\* process traps (the timer sees to that), and init calls wait over and over
\* (user/init.c).
Fairness ==
  /\ \A p \in Proc :
        /\ WF_vars(Step(p))
        /\ SF_vars(TakeLock(p))
        /\ WF_vars(killed[p] = 1 /\ exit(p))
  /\ SF_vars(wait(initproc))

FairSpec == Spec /\ Fairness

-----------------------------------------------------------------------------
(* Properties                                                              *)

\* exit() and wait() do not miss each other: whenever wait_lock is free, no
\* process sleeps in wait() while one of its children, its own or one that
\* reparent() has just given to init, is a ZOMBIE it could reap.
\* And no process is left without a parent that can reap it: the parent of every
\* process but init is a process that has neither exited nor been freed.
NoLostExit ==
  /\ wait_lock = None =>
       ~ \E p, q \in Proc : state[p] = "SLEEPING" /\ parent[q] = p /\ state[q] = "ZOMBIE"
  /\ \A q \in Proc \ {initproc} : state[q] \in {"SLEEPING", "RUNNABLE", "ZOMBIE"} =>
       parent[q] # None /\ state[parent[q]] \in {"SLEEPING", "RUNNABLE"}

\* A slot is free only once nobody runs in it: wait() does not free a child
\* that is still in exit() or on its way through swtch() (proc.c:397).
FreeSlotIdle ==
  TypeOK /\ \A q \in Proc : state[q] = "UNUSED" =>
     /\ pc[q] = "none" /\ ~held[q] /\ wait_lock # q /\ pid[q] = 0
     /\ \A p \in Proc : pc[p] \in {"fork_parent", "fork_run"} => arg[p] # q

\* A killed process goes away: it returns to user space and exits, out of
\* wait() too.  The one exception is a kill() that falls between wait()'s look
\* at p->killed and its sleep(): that one takes effect when a child exits.
KilledExits ==
  \A p \in Proc :
     (killed[p] = 1 /\ pc[p] # "sleep" /\ state[p] # "SLEEPING")
        ~> (killed[p] = 0 \/ state[p] = "ZOMBIE")

\* Orphans are reaped: a ZOMBIE that is init's child is freed.
InitReaps ==
  \A q \in Proc : (state[q] = "ZOMBIE" /\ parent[q] = initproc) ~> (state[q] = "UNUSED")
=============================================================================
