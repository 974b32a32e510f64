------------------------------- MODULE Trap -------------------------------
(***************************************************************************)
(* Traps and the clock: kernel/trap.c, kernel/trampoline.S,                *)
(* kernel/kernelvec.S and sys_sleep of kernel/sysproc.c.                   *)
(*                                                                         *)
(* Each CPU has its control registers, which every trap overwrites; what   *)
(* must outlive a trap is kept in the process's trapframe (from user       *)
(* space) or on the stack of kerneltrap (from the kernel), and the process *)
(* may be on another CPU when it is used again.  A context is a process or *)
(* the scheduler of a CPU, written as the CPU's number.  Of the registers  *)
(* that uservec, userret and kernelvec save and restore, the program       *)
(* counter and tp are kept here.                                           *)
(***************************************************************************)
EXTENDS Naturals, FiniteSets

CONSTANTS NCPU, Proc, None,
          WRAP,        \* ticks and n are counted modulo WRAP (2^32)
          Sleeps,      \* <<p, n>>: p calls sleep(n)
          Kills,       \* <<p, q>>: p calls kill(q)
          Uptimes      \* the processes that call uptime(), or something else that returns

Cpu == 0 .. NCPU - 1
Ctx == Cpu \cup Proc

ASSUME SizeAssumption == NCPU \in Nat \ {0} /\ WRAP \in Nat \ {0}
ASSUME NameAssumption == Cpu \cap Proc = {} /\ None \notin Proc /\ None \notin {"0", "-1"}

NoFrame == [sepc |-> [own |-> None, at |-> None], spp |-> None, spie |-> 0]

\* A user program is two instructions long.
After(upc) == IF upc = "even" THEN "odd" ELSE "even"

VARIABLES cpu,         \* the registers of each CPU, and the context it runs
          pc,          \* where each context is
          frame,       \* kerneltrap's locals sepc and sstatus
          proc,        \* state, killed, trapframe; the locals of usertrap and sys_sleep; seen is
                       \* ticks when sys_sleep last tested it, slept the ticks since ticks0
          ticks, tickslock,
          panicked,
          goal         \* where the interrupted user code (upc) or kernel code (kpc) is to go on

vars == <<cpu, pc, frame, proc, ticks, tickslock, panicked, goal>>

Init ==
  /\ cpu = [c \in Cpu |-> [on |-> c, mode |-> "S", sie |-> 1, spp |-> "S", spie |-> 0, cause |-> None,
                           sepc |-> [own |-> c, at |-> None], stvec |-> "kernelvec", tp |-> c]]
  /\ pc = [x \in Ctx |-> IF x \in Cpu THEN "scheduler" ELSE "forkret"]
  /\ frame = [x \in Ctx |-> NoFrame]
  /\ proc = [p \in Proc |-> [state |-> "RUNNABLE", killed |-> FALSE, epc |-> "even", hartid |-> 0, timer |-> FALSE, upc |-> "even",
                             n |-> 0, ticks0 |-> 0, slept |-> 0, seen |-> None, ret |-> None]]
  /\ ticks = 0 /\ tickslock = None /\ panicked = FALSE
  /\ goal = [x \in Ctx |-> [upc |-> "even", kpc |-> None]]

At(c, label) == pc[cpu[c].on] = label /\ ~panicked
Goto(c, label) == pc' = [pc EXCEPT ![cpu[c].on] = label]

---------------------------------------------------------------------------
(* The hardware                                                            *)

\* A trap: the hardware saves the pc and the mode, and masks interrupts.
Trapped(c, why, at) ==
  [cpu EXCEPT ![c] = [@ EXCEPT !.sepc = [own |-> cpu[c].on, at |-> at], !.cause = why,
                               !.spp = cpu[c].mode, !.mode = "S", !.spie = cpu[c].sie, !.sie = 0]]
Vector(c) == IF cpu[c].stvec = "uservec" THEN "uservec" ELSE "kerneltrap"

\* The timer, through timervec in machine mode, and the devices interrupt at any time.
Interrupts == {"timer", "device"}

\* A program in user space makes a system call, does what it may not, or is interrupted.
UserTrap(c, why) ==
  /\ cpu[c].mode = "U" /\ ~panicked
  /\ why \in {"ecall", "fault"} \cup Interrupts
  /\ LET p == cpu[c].on IN
     /\ cpu' = Trapped(c, why, proc[p].upc)
     /\ goal' = [goal EXCEPT ![p].upc = IF why = "ecall" THEN After(proc[p].upc) ELSE proc[p].upc]
  /\ Goto(c, Vector(c))
  /\ UNCHANGED <<frame, proc, ticks, tickslock, panicked>>

\* The kernel is interrupted.
KernelTrap(c, why) ==
  /\ cpu[c].mode = "S" /\ cpu[c].sie = 1 /\ ~panicked
  /\ why \in Interrupts
  /\ cpu' = Trapped(c, why, pc[cpu[c].on])
  /\ goal' = [goal EXCEPT ![cpu[c].on].kpc = pc[cpu[c].on]]
  /\ Goto(c, Vector(c))
  /\ UNCHANGED <<frame, proc, ticks, tickslock, panicked>>

\* sret on c with registers r: privilege, interrupts and pc are as sstatus and
\* sepc say; x is the context that goes on.
Sret(c, r, procs) ==
  LET x == cpu[c].on
      user == r.spp = "U" IN
  /\ cpu' = [cpu EXCEPT ![c] = [r EXCEPT !.mode = r.spp, !.sie = r.spie, !.spp = "U", !.spie = 1]]
  /\ Goto(c, IF user THEN "user" ELSE r.sepc.at)
  /\ proc' = IF user THEN [procs EXCEPT ![x].upc = r.sepc.at] ELSE procs

---------------------------------------------------------------------------
(* devintr and clockintr, as part of a trap on c: the new ticks and        *)
(* processes.  On CPU 0 the clock waits for tickslock.                     *)

Clock(c) == cpu[c].cause = "timer" /\ cpu[c].tp = 0

lesser(a, b) == IF a < b THEN a ELSE b

\* ticks++, wakeup(&ticks); slept counts, for each process, the ticks since its ticks0.
clockintr(procs) ==
  [p \in Proc |-> [procs[p] EXCEPT !.state = IF @ = "SLEEPING" THEN "RUNNABLE" ELSE @,
                                   !.slept = IF procs[p].n = 0 THEN 0 ELSE lesser(@ + 1, WRAP)]]

devintr(c) ==
  /\ Clock(c) => tickslock = None
  /\ ticks' = IF Clock(c) THEN (ticks + 1) % WRAP ELSE ticks
Served(c) == IF Clock(c) THEN clockintr(proc) ELSE proc

---------------------------------------------------------------------------
(* Traps from user space                                                   *)

\* uservec saves the user's registers and takes the kernel's from the trapframe;
\* usertrap, to the w_stvec.
usertrap(c) ==
  /\ At(c, "uservec")
  /\ panicked' = (cpu[c].spp = "S")
  /\ cpu' = [cpu EXCEPT ![c] = [@ EXCEPT !.stvec = "kernelvec",
                                         !.tp = IF cpu[c].on \in Proc THEN proc[cpu[c].on].hartid ELSE cpu[c].tp]]
  /\ Goto(c, "save")
  /\ UNCHANGED <<frame, proc, ticks, tickslock, goal>>

\* exit(): the process leaves the CPU for good.
Exited(procs, p) == [procs EXCEPT ![p].state = "ZOMBIE"]

\* The rest, to the handler of the trap.
save_epc(c) ==
  /\ At(c, "save")
  /\ LET p == cpu[c].on
         why == cpu[c].cause IN
     \/ /\ why = "ecall" /\ proc[p].killed
        /\ proc' = Exited(proc, p)
        /\ cpu' = [cpu EXCEPT ![c].on = c]
        /\ Goto(c, "exited")
        /\ UNCHANGED ticks
     \/ /\ why = "ecall" /\ ~proc[p].killed
        /\ proc' = [proc EXCEPT ![p] = [@ EXCEPT !.epc = After(cpu[c].sepc.at), !.timer = FALSE]]
        /\ cpu' = [cpu EXCEPT ![c].sie = 1]
        /\ Goto(c, "syscall")
        /\ UNCHANGED ticks
     \/ /\ why \in {"timer", "device"}
        /\ devintr(c)
        /\ proc' = [Served(c) EXCEPT ![p] = [@ EXCEPT !.epc = cpu[c].sepc.at, !.timer = (why = "timer")]]
        /\ Goto(c, "handled")
        /\ UNCHANGED cpu
     \/ /\ why = "fault"
        /\ proc' = [proc EXCEPT ![p] = [@ EXCEPT !.epc = cpu[c].sepc.at, !.timer = FALSE, !.killed = TRUE]]
        /\ Goto(c, "handled")
        /\ UNCHANGED <<cpu, ticks>>
  /\ UNCHANGED <<frame, tickslock, panicked, goal>>

\* The locals of usertrap and sys_sleep are gone.
Returned(p) == [proc EXCEPT ![p] = [@ EXCEPT !.timer = FALSE, !.n = 0, !.ticks0 = 0, !.slept = 0, !.seen = None, !.ret = None]]

\* The end of usertrap: exit if killed, yield after a timer interrupt.
usertrap_end(c) ==
  /\ At(c, "handled")
  /\ LET p == cpu[c].on IN
     \/ /\ proc[p].killed
        /\ proc' = Exited(proc, p)
        /\ cpu' = [cpu EXCEPT ![c].on = c]
        /\ Goto(c, "exited")
     \/ /\ ~proc[p].killed /\ proc[p].timer
        /\ proc' = [Returned(p) EXCEPT ![p].state = "RUNNABLE"]
        /\ cpu' = [cpu EXCEPT ![c].on = c]
        /\ Goto(c, "usertrapret")
     \/ /\ ~proc[p].killed /\ ~proc[p].timer
        /\ proc' = Returned(p)
        /\ Goto(c, "usertrapret")
        /\ UNCHANGED cpu
  /\ UNCHANGED <<frame, ticks, tickslock, panicked, goal>>

\* A new process comes here first.
forkret(c) ==
  /\ At(c, "forkret")
  /\ Goto(c, "usertrapret")
  /\ UNCHANGED <<cpu, frame, proc, ticks, tickslock, panicked, goal>>

\* usertrapret: intr_off ...
usertrapret(c) ==
  /\ At(c, "usertrapret")
  /\ cpu' = [cpu EXCEPT ![c].sie = 0]
  /\ Goto(c, "userret")
  /\ UNCHANGED <<frame, proc, ticks, tickslock, panicked, goal>>

\* Mutant: kernel_hartid is not brought up to date.
userretHart(c) ==
  /\ At(c, "userret")
  /\ LET p == cpu[c].on IN
     Sret(c, [cpu[c] EXCEPT !.stvec = "uservec", !.spp = "U", !.spie = 1, !.sepc = [own |-> p, at |-> proc[p].epc]],
          [proc EXCEPT ![p].hartid = @])
  /\ UNCHANGED <<frame, ticks, tickslock, panicked, goal>>

\* ... and what userret's sret will use.
userret(c) ==
  /\ At(c, "userret")
  /\ LET p == cpu[c].on IN
     Sret(c, [cpu[c] EXCEPT !.stvec = "uservec", !.spp = "U", !.spie = 1, !.sepc = [own |-> p, at |-> proc[p].epc]],
          [proc EXCEPT ![p].hartid = cpu[c].tp])
  /\ UNCHANGED <<frame, ticks, tickslock, panicked, goal>>

---------------------------------------------------------------------------
(* Traps from the kernel                                                   *)

\* kerneltrap saves sepc and sstatus, serves the device, and yields after a
\* timer interrupt of a process; kernelvec has saved the other registers.
kerneltrap(c) ==
  /\ At(c, "kerneltrap")
  /\ LET x == cpu[c].on
         yields == cpu[c].cause = "timer" /\ x \in Proc
         served == Served(c) IN
     /\ frame' = [frame EXCEPT ![x] = [sepc |-> cpu[c].sepc, spp |-> cpu[c].spp, spie |-> cpu[c].spie]]
     /\ panicked' = (cpu[c].spp = "U" \/ cpu[c].sie = 1)
     /\ devintr(c)
     /\ proc' = IF yields THEN [served EXCEPT ![x].state = "RUNNABLE"] ELSE served
     /\ cpu' = [cpu EXCEPT ![c].on = IF yields THEN c ELSE x]
  /\ Goto(c, "restore")
  /\ UNCHANGED <<tickslock, goal>>

\* w_sepc and w_sstatus, for kernelvec's sret.
\* Mutant: sepc is as the last trap on this CPU left it.
kerneltrap_endStale(c) ==
  /\ At(c, "restore")
  /\ LET x == cpu[c].on
         f == frame[x] IN
     /\ Sret(c, [cpu[c] EXCEPT !.spp = f.spp, !.spie = f.spie], proc)
     /\ frame' = [frame EXCEPT ![x] = NoFrame]
  /\ UNCHANGED <<ticks, tickslock, panicked, goal>>

kerneltrap_end(c) ==
  /\ At(c, "restore")
  /\ LET x == cpu[c].on
         f == frame[x] IN
     /\ Sret(c, [cpu[c] EXCEPT !.sepc = f.sepc, !.spp = f.spp, !.spie = f.spie], proc)
     /\ frame' = [frame EXCEPT ![x] = NoFrame]
  /\ UNCHANGED <<ticks, tickslock, panicked, goal>>

---------------------------------------------------------------------------
(* The scheduler, and system calls                                         *)

\* The scheduler's loop: intr_on ...
scheduler(c) ==
  /\ At(c, "scheduler") /\ cpu[c].on = c /\ cpu[c].sie = 0
  /\ cpu' = [cpu EXCEPT ![c].sie = 1]
  /\ UNCHANGED <<pc, frame, proc, ticks, tickslock, panicked, goal>>

\* ... and the switch to a process.  Interrupts are then as they were when it
\* took its first lock: off in a trap, on in a system call; in forkret they are
\* as in the scheduler, whose scan goes on with those of the last process.
swtch(c, p) ==
  /\ At(c, "scheduler") /\ cpu[c].on = c
  /\ proc[p].state = "RUNNABLE"
  /\ proc' = [proc EXCEPT ![p].state = "RUNNING"]
  /\ cpu' = [cpu EXCEPT ![c] = [@ EXCEPT !.on = p, !.sie = CASE pc[p] = "woken" -> 1
                                                           [] pc[p] = "forkret" -> cpu[c].sie
                                                           [] OTHER -> 0]]
  /\ UNCHANGED <<pc, frame, ticks, tickslock, panicked, goal>>

sys_kill(c, q) ==
  /\ At(c, "syscall")
  /\ <<cpu[c].on, q>> \in Kills /\ proc[q].state # "ZOMBIE"
  /\ proc' = [proc EXCEPT ![q] = [@ EXCEPT !.killed = TRUE,
                                           !.state = IF proc[q].state = "SLEEPING" THEN "RUNNABLE" ELSE proc[q].state]]
  /\ Goto(c, "handled")
  /\ UNCHANGED <<cpu, frame, ticks, tickslock, panicked, goal>>

\* sys_uptime takes tickslock for a moment; other calls do nothing here.
sys_uptime(c) ==
  /\ At(c, "syscall") /\ cpu[c].on \in Uptimes
  /\ tickslock = None
  /\ Goto(c, "handled")
  /\ UNCHANGED <<cpu, frame, proc, ticks, tickslock, panicked, goal>>

\* sys_sleep, to its loop.
sys_sleep(c, n) ==
  /\ At(c, "syscall") /\ <<cpu[c].on, n>> \in Sleeps
  /\ tickslock = None
  /\ LET p == cpu[c].on IN
     /\ tickslock' = p
     /\ proc' = [proc EXCEPT ![p] = [@ EXCEPT !.n = n, !.ticks0 = ticks, !.slept = 0, !.ret = None]]
  /\ cpu' = [cpu EXCEPT ![c].sie = 0]
  /\ Goto(c, "while")
  /\ UNCHANGED <<frame, ticks, panicked, goal>>

\* Mutant: ticks < ticks0 + n.
TooEarlySum(p) == ticks < (proc[p].ticks0 + proc[p].n) % WRAP

\* while(ticks - ticks0 < n), in unsigned arithmetic
TooEarly(p) == (ticks + WRAP - proc[p].ticks0) % WRAP < proc[p].n

sleep_while(c) ==
  /\ At(c, "while")
  /\ LET p == cpu[c].on IN
     \/ /\ TooEarly(p) /\ ~proc[p].killed
        /\ proc' = [proc EXCEPT ![p].seen = ticks]
        /\ Goto(c, "sleep")
        /\ UNCHANGED <<cpu, tickslock>>
     \/ /\ ~TooEarly(p) \/ proc[p].killed
        /\ proc' = [proc EXCEPT ![p].ret = IF TooEarly(p) THEN "-1" ELSE "0"]
        /\ tickslock' = None
        /\ cpu' = [cpu EXCEPT ![c].sie = 1]
        /\ Goto(c, "handled")
  /\ UNCHANGED <<frame, ticks, panicked, goal>>

\* sleep(&ticks, &tickslock), and what it does when it has been woken up.
sleep(c) ==
  /\ At(c, "sleep")
  /\ proc' = [proc EXCEPT ![cpu[c].on].state = "SLEEPING"]
  /\ tickslock' = None
  /\ cpu' = [cpu EXCEPT ![c].on = c]
  /\ Goto(c, "woken")
  /\ UNCHANGED <<frame, ticks, panicked, goal>>

sleep_end(c) ==
  /\ At(c, "woken")
  /\ tickslock = None
  /\ tickslock' = cpu[c].on
  /\ cpu' = [cpu EXCEPT ![c].sie = 0]
  /\ proc' = [proc EXCEPT ![cpu[c].on].seen = None]
  /\ Goto(c, "while")
  /\ UNCHANGED <<frame, ticks, panicked, goal>>

Syscall(c) == sys_uptime(c) \/ (\E n \in 0 .. WRAP - 1 : sys_sleep(c, n)) \/ (\E q \in Proc : sys_kill(c, q))
Code(c) ==
  \/ usertrap(c) \/ save_epc(c) \/ usertrap_end(c) \/ forkret(c) \/ usertrapret(c) \/ userret(c)
  \/ kerneltrap(c) \/ kerneltrap_end(c) \/ scheduler(c) \/ sleep_while(c) \/ sleep(c) \/ sleep_end(c)
Interrupt(c, why) == UserTrap(c, why) \/ KernelTrap(c, why)

Next ==
  \E c \in Cpu : \/ Code(c) \/ Syscall(c)
                 \/ \E why \in Interrupts : Interrupt(c, why)
                 \/ \E why \in {"ecall", "fault"} : UserTrap(c, why)
                 \/ \E p \in Proc : swtch(c, p)

Spec == Init /\ [][Next]_vars

---------------------------------------------------------------------------
(* Properties                                                              *)

\* "restore trap registers for use by kernelvec.S's sepc instruction"
\* (trap.c:157) and its like: whatever other traps came in between, on this CPU
\* or on others, an sret goes back to where this context was interrupted, or to
\* the instruction after its ecall, at its privilege; and no check panics.
TrapResumes ==
  /\ [](~panicked)
  /\ [][\A c \in Cpu :
         LET x == cpu[c].on IN
         /\ pc[x] = "userret" /\ pc'[x] # "userret" =>
              cpu'[c].mode = "U" /\ pc'[x] = "user" /\ proc'[x].upc = goal[x].upc
         /\ pc[x] = "restore" /\ pc'[x] # "restore" =>
              cpu'[c].mode = "S" /\ pc'[x] = goal[x].kpc]_vars

\* "turn off interrupts until we're back in user space, where usertrap() is
\* correct" (trap.c:95): where a trap may come, stvec is right for it; and in the
\* kernel tp is this CPU's number, "in case we moved CPUs" (kernelvec.S:54).
VectorRight ==
  \A c \in Cpu :
    /\ cpu[c].mode = "U" => cpu[c].stvec = "uservec"
    /\ cpu[c].mode = "S" /\ cpu[c].sie = 1 => cpu[c].stvec = "kernelvec"
    /\ cpu[c].mode = "S" => At(c, "uservec") \/ cpu[c].tp = c

\* sleep(n) does not return before n ticks unless the process is killed, also
\* when ticks wraps.  No process sleeps through a tick: so none sleeps on when its
\* time has come, and one that is killed between its test of p->killed and its
\* sleep() (kill() does not take tickslock) sees that at the next tick.
SleepOnTime ==
  \A p \in Proc :
    /\ proc[p].ret = "0" => proc[p].slept >= proc[p].n
    /\ proc[p].ret = "-1" => proc[p].killed
    /\ proc[p].state = "SLEEPING" => proc[p].seen = ticks /\ TooEarly(p)
=============================================================================
