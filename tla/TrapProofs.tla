--------------------------- MODULE TrapProofs ---------------------------
(***************************************************************************)
(* Proofs about Trap: VectorRight, SleepOnTime and TrapResumes hold for    *)
(* any number of CPUs and processes, any wrap of ticks, and any calls of   *)
(* sleep, kill and uptime.                                                 *)
(***************************************************************************)
EXTENDS Trap, Integers, TLAPS

---------------------------------------------------------------------------
(* The inductive invariant                                                 *)

\* Where the kernel runs with interrupts on or off, by pc.
Open == {"scheduler", "forkret", "syscall", "handled", "usertrapret", "woken"}
Masked == {"uservec", "save", "userret", "kerneltrap", "restore", "while", "sleep"}
Label == Open \cup Masked \cup {"user", "exited"}
Upc == {"even", "odd"}
Cause == {"ecall", "fault", "timer", "device"}
Sepc == [own : Ctx \cup {None}, at : Label \cup Upc \cup {None}]

Tick == 0 .. WRAP - 1
Registers == [on : Ctx, mode : {"U", "S"}, sie : {0, 1}, spp : {"U", "S"}, spie : {0, 1},
              cause : Cause \cup {None}, sepc : Sepc, stvec : {"kernelvec", "uservec"}, tp : Cpu]
Frame == [sepc : Sepc, spp : {"U", "S", None}, spie : {0, 1}]
Process == [state : {"RUNNABLE", "RUNNING", "SLEEPING", "ZOMBIE"}, killed : BOOLEAN,
            epc : Upc, hartid : Cpu, timer : BOOLEAN, upc : Upc, n : Tick, ticks0 : Tick,
            slept : 0 .. WRAP, seen : Tick \cup {None}, ret : {"0", "-1", None}]

TypeOK ==
  /\ cpu \in [Cpu -> Registers]
  /\ pc \in [Ctx -> Label]
  /\ frame \in [Ctx -> Frame]
  /\ proc \in [Proc -> Process]
  /\ ticks \in Tick
  /\ tickslock \in Proc \cup {None}
  /\ goal \in [Ctx -> [upc : Upc, kpc : Label \cup {None}]]

\* A context is on one CPU at most, and a process that is on one is RUNNING.
Apart ==
  /\ \A c, d \in Cpu : cpu[c].on = cpu[d].on => c = d
  /\ \A c \in Cpu : cpu[c].on \in Cpu => cpu[c].on = c
  /\ \A c \in Cpu : cpu[c].on \in Proc => proc[cpu[c].on].state = "RUNNING"

\* What the registers of c hold, by where the context on c is.
Regs(c) ==
  LET r == cpu[c]
      x == r.on
      l == pc[x] IN
  /\ r.mode = "U" <=> l = "user"
  /\ l \in {"user", "uservec"} => r.stvec = "uservec" /\ proc[x].hartid = c
  /\ l \notin {"user", "uservec"} => r.stvec = "kernelvec" /\ r.tp = c
  /\ l \in Masked => r.sie = 0
  /\ l = "uservec" => r.spp = "U"
  /\ l \in {"uservec", "save"} =>
       /\ r.cause \in Cause /\ r.sepc.at = proc[x].upc
       /\ goal[x].upc = IF r.cause = "ecall" THEN After(proc[x].upc) ELSE proc[x].upc
  /\ l = "kerneltrap" => r.cause \in Interrupts /\ r.spp = "S" /\ r.sepc.at = goal[x].kpc

\* A scheduler is in its loop or in an interrupt of it; it is left from the loop.
Resting(c) ==
  /\ pc[c] \in {"scheduler", "kerneltrap", "restore"}
  /\ cpu[c].on # c => pc[c] = "scheduler"

\* In an interrupt of the kernel, interrupts were on, and the frame says where it came from.
Frames(x) ==
  /\ pc[x] \in {"kerneltrap", "restore"} => goal[x].kpc \in Open /\ (goal[x].kpc = "scheduler" => x \in Cpu)
                                                                 /\ (x \in Cpu => goal[x].kpc = "scheduler")
  /\ pc[x] = "restore" => frame[x].spp = "S" /\ frame[x].sepc.at = goal[x].kpc

\* Where a process is, by its state; and its trapframe, from the handler on.
States(p) ==
  /\ pc[p] # "scheduler"
  /\ proc[p].state = "RUNNABLE" => pc[p] \in {"forkret", "woken", "restore", "usertrapret"}
  /\ proc[p].state = "SLEEPING" => pc[p] = "woken"
  /\ proc[p].state = "ZOMBIE" <=> pc[p] = "exited"
  /\ pc[p] \notin {"user", "uservec", "save", "exited"} => proc[p].epc = goal[p].upc

\* Between its test of ticks and sleep(), a process holds tickslock.
Locked(p) == tickslock = p <=> pc[p] \in {"while", "sleep"}

\* slept counts the ticks since ticks0; ticks has not moved since the test.
Sleeper(p) ==
  /\ proc[p].n # 0 /\ proc[p].slept < WRAP => proc[p].slept = (ticks + WRAP - proc[p].ticks0) % WRAP
  /\ proc[p].ret = "0" => proc[p].slept >= proc[p].n
  /\ proc[p].ret = "-1" => proc[p].killed
  /\ pc[p] = "sleep" \/ proc[p].state = "SLEEPING" => proc[p].seen = ticks /\ TooEarly(p)

IndInv ==
  /\ TypeOK /\ ~panicked /\ Apart
  /\ \A c \in Cpu : Regs(c) /\ Resting(c)
  /\ \A x \in Ctx : Frames(x)
  /\ \A p \in Proc : States(p) /\ Locked(p) /\ Sleeper(p)

---------------------------------------------------------------------------
(* What a step on one CPU leaves alone                                     *)

\* What the steps of other contexts leave of p, and what they may do to it: count
\* a tick, kill it, wake it up.
Kept(p) ==
  /\ proc'[p].epc = proc[p].epc /\ proc'[p].hartid = proc[p].hartid /\ proc'[p].upc = proc[p].upc

Counted(p) ==
  /\ proc'[p].n = proc[p].n /\ proc'[p].ticks0 = proc[p].ticks0
  /\ proc'[p].ret = proc[p].ret /\ proc'[p].seen = proc[p].seen
  /\ proc[p].killed => proc'[p].killed
  /\ \/ ticks' = ticks /\ proc'[p].slept = proc[p].slept
     \/ /\ tickslock = None /\ ticks' = (ticks + 1) % WRAP
        /\ proc'[p].state # "SLEEPING"
        /\ proc'[p].slept = IF proc[p].n = 0 THEN 0 ELSE lesser(proc[p].slept + 1, WRAP)

Woken(p) ==
  \/ proc'[p].state = proc[p].state
  \/ proc[p].state = "SLEEPING" /\ proc'[p].state = "RUNNABLE"

\* Adding one to a counter below m, modulo m.
LEMMA Succ ==
  ASSUME NEW m \in Nat, m > 0, NEW t \in 0 .. m - 1
  PROVE  (t + 1) % m = IF t + 1 = m THEN 0 ELSE t + 1
  OBVIOUS

\* The difference of two counters below m, modulo m.
LEMMA Difference ==
  ASSUME NEW m \in Nat, m > 0, NEW t \in 0 .. m - 1, NEW u \in 0 .. m - 1
  PROVE  (t + m - u) % m = IF t >= u THEN t - u ELSE t + m - u
  OBVIOUS

\* One more tick, one more counted: also when ticks wraps.
LEMMA TickCounts ==
  ASSUME NEW t \in Tick, NEW u \in Tick, NEW s \in 0 .. WRAP,
         s < WRAP => s = (t + WRAP - u) % WRAP,
         NEW v, v = (t + 1) % WRAP, NEW r, r = lesser(s + 1, WRAP), r < WRAP
  PROVE  r = (v + WRAP - u) % WRAP
  <1>0. WRAP \in Nat /\ WRAP > 0 /\ t \in 0 .. WRAP - 1 /\ u \in 0 .. WRAP - 1
    BY SizeAssumption DEF Tick
  <1>1. v \in 0 .. WRAP - 1 /\ v = (IF t + 1 = WRAP THEN 0 ELSE t + 1)
    BY <1>0, Succ
  <1>2. (t + WRAP - u) % WRAP = (IF t >= u THEN t - u ELSE t + WRAP - u)
    BY <1>0, Difference, Zenon
  <1>3. (v + WRAP - u) % WRAP = (IF v >= u THEN v - u ELSE v + WRAP - u)
    BY <1>0, <1>1, Difference, Zenon
  <1>4. r = s + 1 /\ s < WRAP
    BY <1>0 DEF lesser
  <1> QED
    BY <1>0, <1>1, <1>2, <1>3, <1>4

\* The count of a sleeping process and what it was told stay right.
LEMMA SleeperKeeps ==
  ASSUME TypeOK, NEW p \in Proc, Sleeper(p), Counted(p),
         proc'[p].state = "SLEEPING" => pc[p] = "sleep" \/ proc[p].state = "SLEEPING",
         pc'[p] = "sleep" => pc[p] = "sleep",
         pc[p] = "sleep" => Locked(p)
  PROVE  Sleeper(p)'
  <1>0. /\ proc[p].n \in 0 .. WRAP - 1 /\ proc[p].ticks0 \in 0 .. WRAP - 1 /\ proc[p].slept \in 0 .. WRAP
        /\ ticks \in 0 .. WRAP - 1 /\ WRAP \in Nat /\ WRAP > 0
    BY SizeAssumption DEF TypeOK, Process, Tick
  <1>1. CASE ticks' = ticks /\ proc'[p].slept = proc[p].slept
    BY <1>1, Zenon DEF Sleeper, Counted, TooEarly
  <1>2. CASE /\ tickslock = None /\ ticks' = (ticks + 1) % WRAP
             /\ proc'[p].state # "SLEEPING"
             /\ proc'[p].slept = IF proc[p].n = 0 THEN 0 ELSE lesser(proc[p].slept + 1, WRAP)
    <2>1. pc'[p] # "sleep"
      BY <1>2, NameAssumption, Zenon DEF Locked
    <2>2. proc[p].n # 0 /\ proc'[p].slept < WRAP => proc'[p].slept = (ticks' + WRAP - proc[p].ticks0) % WRAP
      <3> SUFFICES ASSUME proc[p].n # 0, proc'[p].slept < WRAP
                   PROVE  proc'[p].slept = (ticks' + WRAP - proc[p].ticks0) % WRAP
        BY Zenon
      <3>1. proc[p].slept < WRAP => proc[p].slept = (ticks + WRAP - proc[p].ticks0) % WRAP
        BY Zenon DEF Sleeper
      <3>2. proc'[p].slept = lesser(proc[p].slept + 1, WRAP) /\ ticks' = (ticks + 1) % WRAP
        BY <1>2, Zenon
      <3>3. ticks \in Tick /\ proc[p].ticks0 \in Tick /\ proc[p].slept \in 0 .. WRAP
        BY <1>0, Zenon DEF Tick
      <3> QED
        BY <3>1, <3>2, <3>3, TickCounts, SMTT(20)
    <2>3. proc[p].ret = "0" => proc'[p].slept >= proc[p].n
      BY <1>0, <1>2 DEF Sleeper, lesser
    <2> QED
      BY <1>2, <2>1, <2>2, <2>3, Zenon DEF Sleeper, Counted
  <1> QED
    BY <1>1, <1>2, Zenon DEF Counted

\* The registers of a CPU that a step leaves alone, with the context on it.
LEMMA RegsSame ==
  ASSUME NEW d, Regs(d), cpu'[d] = cpu[d],
         pc'[cpu[d].on] = pc[cpu[d].on], goal'[cpu[d].on] = goal[cpu[d].on],
         pc[cpu[d].on] \in {"user", "uservec", "save"} =>
           /\ proc'[cpu[d].on].hartid = proc[cpu[d].on].hartid
           /\ proc'[cpu[d].on].upc = proc[cpu[d].on].upc
  PROVE  Regs(d)'
  BY DEF Regs

\* A step of the context x on CPU c keeps the invariant when it does so for c and x.
LEMMA StepKeeps ==
  ASSUME IndInv, TypeOK', ~panicked', NEW c \in Cpu, NEW x, x = cpu[c].on,
         \A d \in Cpu : d # c => cpu'[d] = cpu[d],
         \A y \in Ctx : y # x => pc'[y] = pc[y] /\ frame'[y] = frame[y] /\ goal'[y] = goal[y],
         \A p \in Proc : p # x => Kept(p) /\ Counted(p) /\ Woken(p),
         tickslock' = tickslock \/ (tickslock \in {None, x} /\ tickslock' \in {None, x}),
         cpu'[c].on = c \/ (cpu'[c].on = x /\ (x \in Proc => proc'[x].state = "RUNNING")),
         Regs(c)', Resting(c)', Frames(x)',
         x \in Proc => States(x)' /\ Locked(x)' /\ Sleeper(x)'
  PROVE  IndInv'
  <1>0. /\ \A d \in Cpu : d # c => cpu[d].on # x
        /\ \A d \in Cpu : cpu[d].on \in Ctx
        /\ Cpu \cap Proc = {} /\ None \notin Proc
    BY NameAssumption, Zenon DEF IndInv, Apart, TypeOK, Registers
  <1>1. Apart'
    <2>1. \A d \in Cpu : d # c => cpu[d].on # c
      BY <1>0, Zenon DEF IndInv, Apart
    <2>2. \A d \in Cpu : d # c /\ cpu[d].on \in Proc => proc'[cpu[d].on].state = "RUNNING"
      BY <1>0 DEF IndInv, Apart, Woken
    <2> QED
      BY <1>0, <2>1, <2>2 DEF IndInv, Apart
  <1>2. ASSUME NEW d \in Cpu PROVE Regs(d)' /\ Resting(d)'
    <2>1. CASE d = c
      BY <2>1, Zenon
    <2>2. CASE d # c
      <3>1. cpu'[d] = cpu[d] /\ cpu[d].on # x /\ cpu[d].on \in Ctx /\ d # x /\ d \in Ctx
        BY <1>0, <2>2, Zenon DEF IndInv, Apart, Ctx
      <3>2. Resting(d)'
        BY <3>1, Zenon DEF IndInv, Resting
      <3>3. pc'[cpu[d].on] = pc[cpu[d].on] /\ goal'[cpu[d].on] = goal[cpu[d].on]
        BY <3>1, Zenon
      <3>4. pc[d] \notin {"user", "uservec", "save"}
        BY Zenon DEF IndInv, Resting
      <3>5. pc[cpu[d].on] \in {"user", "uservec", "save"} =>
              proc'[cpu[d].on].hartid = proc[cpu[d].on].hartid /\ proc'[cpu[d].on].upc = proc[cpu[d].on].upc
        BY <3>1, <3>4, Zenon DEF IndInv, Apart, Kept, Ctx
      <3>6. Regs(d)
        BY Zenon DEF IndInv
      <3>7. Regs(d)'
        BY <3>1, <3>3, <3>5, <3>6, RegsSame, Zenon
      <3> QED
        BY <3>2, <3>7, Zenon
    <2> QED
      BY <2>1, <2>2, Zenon
  <1>3. ASSUME NEW y \in Ctx PROVE Frames(y)'
    BY DEF IndInv, Frames
  <1>4. ASSUME NEW p \in Proc, p # x PROVE States(p)' /\ Locked(p)' /\ Sleeper(p)'
    <2>1. pc'[p] = pc[p] /\ goal'[p] = goal[p] /\ Kept(p) /\ Counted(p) /\ Woken(p)
      BY <1>4, Zenon DEF Ctx
    <2>2. States(p) /\ Locked(p) /\ Sleeper(p) /\ TypeOK
      BY Zenon DEF IndInv
    <2>3. States(p)'
      BY <2>1, <2>2 DEF States, Kept, Woken
    <2>4. Locked(p)'
      BY <1>0, <1>4, <2>1, <2>2, Zenon DEF Locked
    <2>5. Sleeper(p)'
      BY <2>1, <2>2, SleeperKeeps DEF Woken
    <2> QED
      BY <2>3, <2>4, <2>5, Zenon
  <1> QED
    BY <1>1, <1>2, <1>3, <1>4, Zenon DEF IndInv

---------------------------------------------------------------------------
(* The steps, one by one                                                   *)

\* What is known of the context on c.
LEMMA Here ==
  ASSUME IndInv, NEW c \in Cpu, NEW x, x = cpu[c].on
  PROVE  /\ TypeOK /\ ~panicked /\ Regs(c) /\ Resting(c) /\ cpu[c] \in Registers
         /\ x \in Ctx /\ Frames(x) /\ pc[x] \in Label /\ c \in Ctx /\ c \notin Proc
         /\ x \in Proc => /\ States(x) /\ Locked(x) /\ Sleeper(x)
                          /\ proc[x].state = "RUNNING" /\ proc[x] \in Process /\ x # c
         /\ x \notin Proc => x = c /\ pc[x] \in {"scheduler", "kerneltrap", "restore"}
  <1>1. TypeOK /\ ~panicked /\ Regs(c) /\ Resting(c) /\ c \in Ctx /\ c \notin Proc
    BY NameAssumption, Zenon DEF IndInv, Ctx
  <1>2. cpu[c] \in Registers /\ x \in Ctx
    BY <1>1, Zenon DEF TypeOK, Registers
  <1>3. Frames(x) /\ pc[x] \in Label
    BY <1>1, <1>2, Zenon DEF IndInv, TypeOK
  <1>4. x \in Proc => /\ States(x) /\ Locked(x) /\ Sleeper(x)
                      /\ proc[x].state = "RUNNING" /\ proc[x] \in Process /\ x # c
    BY <1>1, Zenon DEF IndInv, Apart, TypeOK
  <1>5. x \notin Proc => x = c
    BY <1>2, Zenon DEF Ctx, IndInv, Apart
  <1> QED
    BY <1>1, <1>2, <1>3, <1>4, <1>5, Zenon DEF Resting

\* A step that changes no process, and has x go from one place to another.
LEMMA Alone ==
  ASSUME IndInv, NEW c \in Cpu, NEW x, x = cpu[c].on,
         cpu' \in [Cpu -> Registers], cpu'[c].on = x,
         \A d \in Cpu : d # c => cpu'[d] = cpu[d],
         pc' \in [Ctx -> Label], goal' \in [Ctx -> [upc : Upc, kpc : Label \cup {None}]],
         \A y \in Ctx : y # x => pc'[y] = pc[y] /\ goal'[y] = goal[y],
         frame' = frame, proc' = proc, ticks' = ticks, tickslock' = tickslock, ~panicked',
         Regs(c)', pc'[x] # "restore",
         pc'[x] = "kerneltrap" => goal'[x].kpc \in Open /\ (goal'[x].kpc = "scheduler" <=> x \in Cpu),
         x \notin Proc => pc'[x] \in {"scheduler", "kerneltrap"},
         x \in Proc => /\ pc'[x] \notin {"scheduler", "exited", "while", "sleep"} /\ pc[x] \notin {"while", "sleep"}
                       /\ pc'[x] \notin {"user", "uservec", "save"} => proc[x].epc = goal'[x].upc
  PROVE  IndInv'
  <1>0. /\ TypeOK /\ Resting(c) /\ x \in Ctx /\ (x \notin Proc => x = c) /\ c \notin Proc
        /\ x \in Proc => x # c /\ States(x) /\ Locked(x) /\ Sleeper(x) /\ proc[x].state = "RUNNING"
    BY Here
  <1>1. \A y \in Ctx : y # x => pc'[y] = pc[y] /\ frame'[y] = frame[y] /\ goal'[y] = goal[y]
    BY Zenon
  <1>2. TypeOK'
    BY <1>0, Zenon DEF TypeOK
  <1>3. \A p \in Proc : Kept(p) /\ Counted(p) /\ Woken(p)
    BY Zenon DEF Kept, Counted, Woken
  <1>4. Resting(c)'
    BY <1>0, <1>1, Zenon DEF Resting, Ctx
  <1>5. Frames(x)'
    BY <1>0, <1>1, NameAssumption, Zenon DEF Frames, Ctx
  <1>6. ASSUME x \in Proc PROVE States(x)' /\ Locked(x)' /\ Sleeper(x)'
    <2>1. States(x)'
      BY <1>0, <1>1, <1>6, Zenon DEF States
    <2>2. Locked(x)'
      BY <1>0, <1>1, <1>6, Zenon DEF Locked
    <2>3. Sleeper(x)'
      BY <1>0, <1>1, <1>3, <1>6, SleeperKeeps, Zenon
    <2> QED
      BY <2>1, <2>2, <2>3, Zenon
  <1> QED
    BY <1>0, <1>1, <1>2, <1>3, <1>4, <1>5, <1>6, StepKeeps, Zenon

\* A step that changes the process on c, and no other.
LEMMA Own ==
  ASSUME IndInv, NEW c \in Cpu, NEW x \in Proc, x = cpu[c].on, NEW r \in Process, proc' = [proc EXCEPT ![x] = r],
         cpu' \in [Cpu -> Registers], \A d \in Cpu : d # c => cpu'[d] = cpu[d],
         cpu'[c].on = c \/ (cpu'[c].on = x /\ r.state = "RUNNING"),
         pc' \in [Ctx -> Label], \A y \in Ctx : y # x => pc'[y] = pc[y],
         frame' \in [Ctx -> Frame], \A y \in Ctx : y # x => frame'[y] = frame[y],
         goal' = goal, ticks' = ticks, ~panicked',
         tickslock' \in Proc \cup {None},
         tickslock' = tickslock \/ (tickslock \in {None, x} /\ tickslock' \in {None, x}),
         Regs(c)', pc'[x] \notin {"kerneltrap", "restore"},
         States(x)', Locked(x)', Sleeper(x)'
  PROVE  IndInv'
  <1>0. TypeOK /\ Resting(c) /\ x \in Ctx /\ c \in Ctx /\ x # c
    BY Here, Zenon
  <1>1. proc' \in [Proc -> Process] /\ proc'[x] = r /\ \A p \in Proc : p # x => proc'[p] = proc[p]
    BY <1>0, Zenon DEF TypeOK
  <1>2. TypeOK'
    BY <1>0, <1>1, Zenon DEF TypeOK
  <1>3. \A p \in Proc : p # x => Kept(p) /\ Counted(p) /\ Woken(p)
    BY <1>1, Zenon DEF Kept, Counted, Woken
  <1>4. \A y \in Ctx : y # x => pc'[y] = pc[y] /\ frame'[y] = frame[y] /\ goal'[y] = goal[y]
    BY Zenon
  <1>5. Resting(c)'
    BY <1>0, Zenon DEF Resting
  <1>6. Frames(x)'
    BY Zenon DEF Frames
  <1>7. cpu'[c].on = c \/ (cpu'[c].on = x /\ (x \in Proc => proc'[x].state = "RUNNING"))
    BY <1>1, Zenon
  <1> QED
    BY <1>2, <1>3, <1>4, <1>5, <1>6, <1>7, StepKeeps, Zenon

\* A new goal has the type of a goal.
LEMMA GoalUpc ==
  ASSUME TypeOK, NEW x \in Ctx, NEW u \in Upc
  PROVE  [goal EXCEPT ![x].upc = u] \in [Ctx -> [upc : Upc, kpc : Label \cup {None}]]
  BY Zenon DEF TypeOK

SetSie(c, v) == [cpu EXCEPT ![c].sie = v]
SetOn(c, v) == [cpu EXCEPT ![c].on = v]

\* The registers of a CPU whose interrupts are turned on or off.
LEMMA SieValues ==
  ASSUME TypeOK, NEW c \in Cpu, NEW v \in {0, 1}, NEW t, t = SetSie(c, v)
  PROVE  /\ t \in [Cpu -> Registers] /\ \A d \in Cpu : d # c => t[d] = cpu[d]
         /\ t[c].on = cpu[c].on /\ t[c].mode = cpu[c].mode /\ t[c].sie = v /\ t[c].spp = cpu[c].spp
         /\ t[c].cause = cpu[c].cause /\ t[c].sepc = cpu[c].sepc /\ t[c].stvec = cpu[c].stvec /\ t[c].tp = cpu[c].tp
  <1>1. cpu \in [Cpu -> Registers] /\ cpu[c] \in Registers
    BY Zenon DEF TypeOK
  <1>2. t[c] = [cpu[c] EXCEPT !.sie = v] /\ \A d \in Cpu : d # c => t[d] = cpu[d]
    BY <1>1, Zenon DEF SetSie
  <1>3. [cpu[c] EXCEPT !.sie = v] \in Registers
    BY <1>1, Zenon DEF Registers
  <1>4. t \in [Cpu -> Registers]
    BY <1>1, <1>3, Zenon DEF SetSie
  <1> QED
    BY <1>1, <1>2, <1>4, Zenon DEF Registers

\* The registers of a CPU that goes to another context.
LEMMA OnValues ==
  ASSUME TypeOK, NEW c \in Cpu, NEW v \in Ctx, NEW t, t = SetOn(c, v)
  PROVE  /\ t \in [Cpu -> Registers] /\ \A d \in Cpu : d # c => t[d] = cpu[d]
         /\ t[c].on = v /\ t[c].mode = cpu[c].mode /\ t[c].sie = cpu[c].sie /\ t[c].spp = cpu[c].spp
         /\ t[c].cause = cpu[c].cause /\ t[c].sepc = cpu[c].sepc /\ t[c].stvec = cpu[c].stvec /\ t[c].tp = cpu[c].tp
  <1>1. cpu \in [Cpu -> Registers] /\ cpu[c] \in Registers
    BY Zenon DEF TypeOK
  <1>2. t[c] = [cpu[c] EXCEPT !.on = v] /\ \A d \in Cpu : d # c => t[d] = cpu[d]
    BY <1>1, Zenon DEF SetOn
  <1>3. [cpu[c] EXCEPT !.on = v] \in Registers
    BY <1>1, Zenon DEF Registers
  <1>4. t \in [Cpu -> Registers]
    BY <1>1, <1>3, Zenon DEF SetOn
  <1> QED
    BY <1>1, <1>2, <1>4, Zenon DEF Registers

\* The registers after a trap.
LEMMA TrapValues ==
  ASSUME TypeOK, NEW c \in Cpu, NEW why \in Cause, NEW at \in Label \cup Upc \cup {None},
         NEW t, t = Trapped(c, why, at)
  PROVE  /\ t \in [Cpu -> Registers] /\ \A d \in Cpu : d # c => t[d] = cpu[d]
         /\ t[c].on = cpu[c].on /\ t[c].mode = "S" /\ t[c].sie = 0 /\ t[c].spp = cpu[c].mode
         /\ t[c].cause = why /\ t[c].sepc.at = at /\ t[c].stvec = cpu[c].stvec /\ t[c].tp = cpu[c].tp
  <1> DEFINE Regs1(r, e) == [r EXCEPT !.sepc = e, !.cause = why, !.spp = r.mode, !.mode = "S",
                                      !.spie = r.sie, !.sie = 0]
             e == [own |-> cpu[c].on, at |-> at]
  <1>1. cpu \in [Cpu -> Registers] /\ cpu[c] \in Registers
    BY Zenon DEF TypeOK
  <1>2. e \in Sepc /\ e.at = at
    BY <1>1, Zenon DEF Registers, Sepc
  <1>3. \A r \in Registers, f \in Sepc : Regs1(r, f) \in Registers
    BY Zenon DEF Registers
  <1>a. \A r \in Registers, f \in Sepc :
          /\ Regs1(r, f).on = r.on /\ Regs1(r, f).stvec = r.stvec /\ Regs1(r, f).tp = r.tp
          /\ Regs1(r, f).mode = "S" /\ Regs1(r, f).sie = 0 /\ Regs1(r, f).spp = r.mode
          /\ Regs1(r, f).cause = why /\ Regs1(r, f).sepc = f
    BY SMT DEF Registers
  <1>4. t = [cpu EXCEPT ![c] = Regs1(cpu[c], e)]
    BY Zenon DEF Trapped
  <1> HIDE DEF Regs1, e
  <1>5. t[c] = Regs1(cpu[c], e) /\ \A d \in Cpu : d # c => t[d] = cpu[d]
    BY <1>1, <1>4, Zenon
  <1>6. t \in [Cpu -> Registers]
    <2>1. Regs1(cpu[c], e) \in Registers
      BY <1>1, <1>2, <1>3, Zenon
    <2> QED
      BY <1>1, <1>4, <2>1, Zenon
  <1> QED
    BY <1>1, <1>2, <1>a, <1>5, <1>6

\* A program in user space traps.
LEMMA UserTrapKeeps ==
  ASSUME IndInv, NEW c \in Cpu, NEW x, x = cpu[c].on, NEW why, UserTrap(c, why)
  PROVE  IndInv'
  <1>0. /\ TypeOK /\ ~panicked /\ Regs(c) /\ cpu[c] \in Registers /\ cpu[c].mode = "U" /\ why \in Cause
        /\ x \in Proc /\ x \in Ctx /\ proc[x] \in Process /\ pc[x] = "user" /\ "uservec" \in Label
    <2>1. TypeOK /\ ~panicked /\ Regs(c) /\ cpu[c] \in Registers /\ x \in Ctx /\ pc[x] = "user"
      <3>1. TypeOK /\ ~panicked /\ Regs(c) /\ cpu[c] \in Registers /\ x \in Ctx
        BY Here, Zenon
      <3>2. cpu[c].mode = "U"
        BY Zenon DEF UserTrap
      <3> QED
        BY <3>1, <3>2, Zenon DEF Regs
    <2>2. x \in Proc /\ proc[x] \in Process
      BY <2>1, Here, Zenon
    <2> QED
      BY <2>1, <2>2, Zenon DEF UserTrap, Cause, Interrupts, Label, Masked
  <1>1. /\ cpu' = Trapped(c, why, proc[x].upc)
        /\ goal' = [goal EXCEPT ![x].upc = IF why = "ecall" THEN After(proc[x].upc) ELSE proc[x].upc]
        /\ pc' = [pc EXCEPT ![x] = "uservec"]
        /\ UNCHANGED <<frame, proc, ticks, tickslock, panicked>>
    <2>1. cpu[c].stvec = "uservec"
      BY <1>0, ZenonT(40) DEF Regs
    <2> QED
      BY <2>1, Zenon DEF UserTrap, Goto, Vector
  <1>2. /\ cpu'[c].on = x /\ cpu'[c].mode = "S" /\ cpu'[c].sie = 0 /\ cpu'[c].spp = "U"
        /\ cpu'[c].cause = why /\ cpu'[c].sepc.at = proc[x].upc /\ cpu'[c].stvec = cpu[c].stvec
        /\ \A d \in Cpu : d # c => cpu'[d] = cpu[d]
        /\ cpu' \in [Cpu -> Registers]
    <2>1. proc[x].upc \in Label \cup Upc \cup {None}
      BY <1>0, Zenon DEF Process
    <2>2. cpu' = Trapped(c, why, proc[x].upc)
      BY <1>1, Zenon
    <2>3. ASSUME NEW t, t = Trapped(c, why, proc[x].upc)
          PROVE  /\ t \in [Cpu -> Registers] /\ \A d \in Cpu : d # c => t[d] = cpu[d]
                 /\ t[c].on = cpu[c].on /\ t[c].mode = "S" /\ t[c].sie = 0 /\ t[c].spp = cpu[c].mode
                 /\ t[c].cause = why /\ t[c].sepc.at = proc[x].upc /\ t[c].stvec = cpu[c].stvec
      <3> DEFINE at == proc[x].upc
      <3>1. TypeOK /\ why \in Cause /\ at \in Label \cup Upc \cup {None} /\ t = Trapped(c, why, at)
        BY <1>0, <2>1, <2>3, Zenon
      <3> HIDE DEF at
      <3>2. /\ t \in [Cpu -> Registers] /\ \A d \in Cpu : d # c => t[d] = cpu[d]
            /\ t[c].on = cpu[c].on /\ t[c].mode = "S" /\ t[c].sie = 0 /\ t[c].spp = cpu[c].mode
            /\ t[c].cause = why /\ t[c].sepc.at = at /\ t[c].stvec = cpu[c].stvec
        BY <3>1, TrapValues
      <3> QED
        BY <3>2, Zenon DEF at
    <2> QED
      BY <1>0, <2>2, <2>3, Zenon
  <1>3. /\ goal'[x].upc = IF why = "ecall" THEN After(proc[x].upc) ELSE proc[x].upc
        /\ pc' \in [Ctx -> Label] /\ pc'[x] = "uservec" /\ proc[x].hartid = c /\ cpu[c].stvec = "uservec"
        /\ \A y \in Ctx : y # x => pc'[y] = pc[y] /\ goal'[y] = goal[y]
    BY <1>0, <1>1, Zenon DEF TypeOK, Regs
  <1>4. goal' \in [Ctx -> [upc : Upc, kpc : Label \cup {None}]]
    <2>1. proc[x].upc \in Upc /\ After(proc[x].upc) \in Upc
      BY <1>0, Zenon DEF Process, After, Upc
    <2>2. (IF why = "ecall" THEN After(proc[x].upc) ELSE proc[x].upc) \in Upc
      BY <2>1, Zenon
    <2> QED
      BY <1>0, <1>1, <2>2, GoalUpc, Zenon
  <1>5. proc' = proc /\ frame' = frame /\ ticks' = ticks /\ tickslock' = tickslock /\ ~panicked'
    BY <1>0, <1>1, Zenon
  <1>6. Regs(c)'
    <2>1. why \in Cause
      BY <1>0, Zenon
    <2> QED
      BY <1>2, <1>3, <1>5, <2>1 DEF Regs, Masked
  <1>7. x \in Proc /\ pc[x] = "user"
    BY <1>0, Zenon
  <1> QED
    BY <1>2, <1>3, <1>4, <1>5, <1>6, <1>7, Alone

\* The kernel is interrupted, where it lets itself be.
LEMMA KernelTrapKeeps ==
  ASSUME IndInv, NEW c \in Cpu, NEW x, x = cpu[c].on, NEW why, KernelTrap(c, why)
  PROVE  IndInv'
  <1>0. /\ TypeOK /\ ~panicked /\ Regs(c) /\ cpu[c] \in Registers /\ cpu[c].mode = "S" /\ why \in Interrupts
        /\ x \in Ctx /\ why \in Cause /\ pc[x] \in Label /\ "kerneltrap" \in Label
    <2>1. why \in Interrupts /\ why \in Cause
      BY Zenon DEF KernelTrap, Cause, Interrupts
    <2> QED
      BY <2>1, Here, Zenon DEF KernelTrap, Label, Masked
  <1>1. pc[x] \in Open /\ cpu[c].stvec = "kernelvec" /\ cpu[c].tp = c
    <2>1. pc[x] \notin Masked /\ pc[x] # "user" /\ pc[x] # "exited"
      <3>1. cpu[c].mode = "S" /\ cpu[c].sie = 1
        BY Zenon DEF KernelTrap
      <3>2. pc[x] \notin Masked /\ pc[x] # "user"
        <4>1. cpu[c].sie # 0 /\ cpu[c].mode # "U"
          BY <3>1
        <4> QED
          BY <1>0, <4>1, Zenon DEF Regs
      <3>3. pc[x] # "exited"
        <4>1. x \in Proc => States(x) /\ proc[x].state # "ZOMBIE"
          BY Here, Zenon
        <4>2. x \notin Proc => pc[x] \in {"scheduler", "kerneltrap", "restore"}
          BY Here, Zenon
        <4> QED
          BY <4>1, <4>2, Zenon DEF States
      <3> QED
        BY <3>2, <3>3, Zenon
    <2> QED
      BY <1>0, <2>1, Zenon DEF Regs, Label, Masked
  <1>2. /\ cpu' = Trapped(c, why, pc[x])
        /\ goal' = [goal EXCEPT ![x].kpc = pc[x]]
        /\ pc' = [pc EXCEPT ![x] = "kerneltrap"]
        /\ UNCHANGED <<frame, proc, ticks, tickslock, panicked>>
    BY <1>1, Zenon DEF KernelTrap, Goto, Vector
  <1>3. /\ cpu'[c].on = x /\ cpu'[c].mode = "S" /\ cpu'[c].sie = 0 /\ cpu'[c].spp = "S"
        /\ cpu'[c].cause = why /\ cpu'[c].sepc.at = pc[x] /\ cpu'[c].stvec = cpu[c].stvec /\ cpu'[c].tp = cpu[c].tp
        /\ \A d \in Cpu : d # c => cpu'[d] = cpu[d]
        /\ cpu' \in [Cpu -> Registers]
    <2>1. pc[x] \in Label \cup Upc \cup {None}
      BY <1>0, Zenon
    <2> DEFINE t == cpu'
    <2>2. t = Trapped(c, why, pc[x]) /\ TypeOK /\ why \in Cause /\ cpu[c].on = x /\ cpu[c].mode = "S"
      BY <1>0, <1>2, Zenon
    <2> HIDE DEF t
    <2>3. /\ t \in [Cpu -> Registers] /\ \A d \in Cpu : d # c => t[d] = cpu[d]
          /\ t[c].on = cpu[c].on /\ t[c].mode = "S" /\ t[c].sie = 0 /\ t[c].spp = cpu[c].mode
          /\ t[c].cause = why /\ t[c].sepc.at = pc[x] /\ t[c].stvec = cpu[c].stvec /\ t[c].tp = cpu[c].tp
      BY <2>1, <2>2, TrapValues
    <2> QED
      BY <2>2, <2>3, Zenon DEF t
  <1>4. /\ goal'[x].upc = goal[x].upc /\ goal'[x].kpc = pc[x]
        /\ pc' \in [Ctx -> Label] /\ pc'[x] = "kerneltrap"
        /\ \A y \in Ctx : y # x => pc'[y] = pc[y] /\ goal'[y] = goal[y]
        /\ goal' \in [Ctx -> [upc : Upc, kpc : Label \cup {None}]]
    BY <1>0, <1>2, ZenonT(40) DEF TypeOK
  <1>5. proc' = proc /\ frame' = frame /\ ticks' = ticks /\ tickslock' = tickslock /\ ~panicked'
    BY <1>0, <1>2, Zenon
  <1>6. Regs(c)'
    <2>1. why \in Interrupts
      BY <1>0, Zenon
    <2> QED
      BY <1>1, <1>3, <1>4, <2>1, Zenon DEF Regs, Masked
  <1>7. (pc[x] = "scheduler" <=> x \in Cpu) /\ (x \in Proc => proc[x].epc = goal[x].upc /\ pc[x] \notin {"while", "sleep"})
    BY <1>0, <1>1, Here DEF States, Open, Ctx
  <1> QED
    BY <1>1, <1>3, <1>4, <1>5, <1>6, <1>7, Alone

\* uservec and the first line of usertrap: the CPU is known again.
LEMMA UsertrapKeeps ==
  ASSUME IndInv, NEW c \in Cpu, NEW x, x = cpu[c].on, usertrap(c)
  PROVE  IndInv'
  <1>0. /\ TypeOK /\ Regs(c) /\ cpu[c] \in Registers /\ pc[x] = "uservec" /\ x \in Ctx /\ "save" \in Label
        /\ x \in Proc /\ proc[x].hartid = c /\ cpu[c].spp = "U" /\ cpu[c].sie = 0 /\ cpu[c].mode = "S"
        /\ cpu[c].cause \in Cause /\ cpu[c].sepc.at = proc[x].upc
        /\ goal[x].upc = IF cpu[c].cause = "ecall" THEN After(proc[x].upc) ELSE proc[x].upc
    <2>1. TypeOK /\ Regs(c) /\ cpu[c] \in Registers /\ x \in Ctx /\ pc[x] = "uservec" /\ x \in Proc
      BY Here, Zenon DEF usertrap, At
    <2>2. cpu[c].mode = "S"
      BY <2>1, Zenon DEF Regs, Registers
    <2> QED
      BY <2>1, <2>2, Zenon DEF Regs, Label, Masked
  <1>1. /\ cpu' = [cpu EXCEPT ![c] = [@ EXCEPT !.stvec = "kernelvec", !.tp = c]]
        /\ pc' = [pc EXCEPT ![x] = "save"] /\ ~panicked'
        /\ proc' = proc /\ frame' = frame /\ ticks' = ticks /\ tickslock' = tickslock /\ goal' = goal
    BY <1>0, Zenon DEF usertrap, Goto
  <1>2. /\ cpu' \in [Cpu -> Registers] /\ \A d \in Cpu : d # c => cpu'[d] = cpu[d]
        /\ cpu'[c].on = x /\ cpu'[c].mode = "S" /\ cpu'[c].sie = 0 /\ cpu'[c].stvec = "kernelvec" /\ cpu'[c].tp = c
        /\ cpu'[c].cause = cpu[c].cause /\ cpu'[c].sepc = cpu[c].sepc
    <2>1. cpu' = [cpu EXCEPT ![c] = [cpu[c] EXCEPT !.stvec = "kernelvec", !.tp = c]] /\ cpu \in [Cpu -> Registers]
      BY <1>0, <1>1, Zenon DEF TypeOK
    <2>2. [cpu[c] EXCEPT !.stvec = "kernelvec", !.tp = c] \in Registers
      BY <1>0, Zenon DEF Registers
    <2>3. cpu'[c] = [cpu[c] EXCEPT !.stvec = "kernelvec", !.tp = c] /\ \A d \in Cpu : d # c => cpu'[d] = cpu[d]
      BY <2>1, Zenon
    <2>4. cpu' \in [Cpu -> Registers]
      BY <2>1, <2>2, Zenon
    <2> QED
      BY <1>0, <2>3, <2>4 DEF Registers
  <1>3. pc' \in [Ctx -> Label] /\ pc'[x] = "save" /\ \A y \in Ctx : y # x => pc'[y] = pc[y]
    BY <1>0, <1>1, Zenon DEF TypeOK
  <1>4. /\ goal' \in [Ctx -> [upc : Upc, kpc : Label \cup {None}]] /\ goal' = goal /\ proc' = proc
        /\ frame' = frame /\ ticks' = ticks /\ tickslock' = tickslock /\ ~panicked'
    BY <1>0, <1>1, Zenon DEF TypeOK
  <1>5. Regs(c)'
    <2>1. /\ cpu[c].cause \in Cause /\ cpu[c].sepc.at = proc[x].upc
          /\ goal[x].upc = IF cpu[c].cause = "ecall" THEN After(proc[x].upc) ELSE proc[x].upc
      BY <1>0, Zenon
    <2> QED
      BY <1>2, <1>3, <1>4, <2>1, Zenon DEF Regs, Masked
  <1>6. x \in Proc /\ pc[x] = "uservec"
    BY <1>0, Zenon
  <1> QED
    BY <1>2, <1>3, <1>4, <1>5, <1>6, Alone

\* A new process, and usertrapret's intr_off.
LEMMA ReturnKeeps ==
  ASSUME IndInv, NEW c \in Cpu, NEW x, x = cpu[c].on, forkret(c) \/ usertrapret(c)
  PROVE  IndInv'
  <1>0. /\ TypeOK /\ ~panicked /\ Regs(c) /\ cpu[c] \in Registers /\ pc[x] \in {"forkret", "usertrapret"} /\ x \in Ctx
        /\ x \in Proc /\ States(x) /\ "userret" \in Label /\ "usertrapret" \in Label
    <2>1. pc[x] \in {"forkret", "usertrapret"}
      BY Zenon DEF forkret, usertrapret, At
    <2> QED
      BY <2>1, Here DEF Label, Masked, Open
  <1>1. /\ pc' = [pc EXCEPT ![x] = IF pc[x] = "forkret" THEN "usertrapret" ELSE "userret"]
        /\ cpu' = IF pc[x] = "forkret" THEN cpu ELSE [cpu EXCEPT ![c].sie = 0]
        /\ proc' = proc /\ frame' = frame /\ ticks' = ticks /\ tickslock' = tickslock /\ goal' = goal /\ ~panicked'
    BY <1>0 DEF forkret, usertrapret, Goto, At
  <1>2. /\ cpu' \in [Cpu -> Registers] /\ \A d \in Cpu : d # c => cpu'[d] = cpu[d]
        /\ cpu'[c].on = x /\ cpu'[c].mode = cpu[c].mode /\ cpu'[c].stvec = cpu[c].stvec /\ cpu'[c].tp = cpu[c].tp
        /\ pc[x] # "forkret" => cpu'[c].sie = 0
    <2>1. CASE pc[x] = "forkret"
      BY <1>0, <1>1, <2>1, Zenon DEF TypeOK
    <2>2. CASE pc[x] # "forkret"
      <3>1. cpu' = SetSie(c, 0)
        BY <1>1, <2>2, Zenon DEF SetSie
      <3>2. TypeOK /\ 0 \in {0, 1}
        BY <1>0, Zenon
      <3> QED
        BY <3>1, <3>2, SieValues
    <2> QED
      BY <2>1, <2>2, Zenon
  <1>3. /\ pc' \in [Ctx -> Label] /\ \A y \in Ctx : y # x => pc'[y] = pc[y]
        /\ pc'[x] = IF pc[x] = "forkret" THEN "usertrapret" ELSE "userret"
    <2>1. (IF pc[x] = "forkret" THEN "usertrapret" ELSE "userret") \in Label
      BY <1>0, Zenon
    <2> QED
      BY <1>0, <1>1, <2>1, Zenon DEF TypeOK
  <1>4. /\ goal' \in [Ctx -> [upc : Upc, kpc : Label \cup {None}]] /\ goal' = goal /\ proc' = proc
        /\ frame' = frame /\ ticks' = ticks /\ tickslock' = tickslock /\ ~panicked'
    BY <1>0, <1>1, Zenon DEF TypeOK
  <1>5. /\ cpu[c].mode # "U" /\ cpu[c].stvec = "kernelvec" /\ cpu[c].tp = c
        /\ proc[x].epc = goal[x].upc
    BY <1>0, Zenon DEF Regs, States
  <1>6. Regs(c)'
    BY <1>2, <1>3, <1>4, <1>5, Zenon DEF Regs, Masked
  <1>7. x \in Proc /\ pc[x] \in {"forkret", "usertrapret"}
    BY <1>0, Zenon
  <1> QED
    BY <1>2, <1>3, <1>4, <1>5, <1>6, <1>7, Alone, ZenonT(40)

\* sys_uptime.
LEMMA UptimeKeeps ==
  ASSUME IndInv, NEW c \in Cpu, NEW x, x = cpu[c].on, sys_uptime(c)
  PROVE  IndInv'
  <1>0. /\ TypeOK /\ ~panicked /\ Regs(c) /\ pc[x] = "syscall" /\ x \in Ctx /\ x \in Proc /\ States(x) /\ "handled" \in Label
    <2>1. pc[x] = "syscall"
      BY Zenon DEF sys_uptime, At
    <2> QED
      BY <2>1, Here DEF Label, Open
  <1>1. /\ pc' = [pc EXCEPT ![x] = "handled"] /\ cpu' = cpu
        /\ proc' = proc /\ frame' = frame /\ ticks' = ticks /\ tickslock' = tickslock /\ goal' = goal /\ ~panicked'
    BY <1>0, Zenon DEF sys_uptime, Goto
  <1>2. pc' \in [Ctx -> Label] /\ pc'[x] = "handled" /\ \A y \in Ctx : y # x => pc'[y] = pc[y]
    BY <1>0, <1>1, Zenon DEF TypeOK
  <1>3. /\ goal' \in [Ctx -> [upc : Upc, kpc : Label \cup {None}]] /\ goal' = goal /\ proc' = proc /\ cpu' = cpu
        /\ cpu' \in [Cpu -> Registers]
        /\ frame' = frame /\ ticks' = ticks /\ tickslock' = tickslock /\ ~panicked'
    BY <1>0, <1>1, Zenon DEF TypeOK
  <1>4. Regs(c)' /\ proc[x].epc = goal[x].upc
    BY <1>0, <1>2, <1>3, Zenon DEF Regs, Masked, States
  <1>5. x \in Proc /\ pc[x] = "syscall"
    BY <1>0, Zenon
  <1> QED
    BY <1>2, <1>3, <1>4, <1>5, Alone

\* The scheduler turns interrupts on.
LEMMA SchedulerKeeps ==
  ASSUME IndInv, NEW c \in Cpu, NEW x, x = cpu[c].on, scheduler(c)
  PROVE  IndInv'
  <1>0. TypeOK /\ ~panicked /\ Regs(c) /\ x = c /\ pc[x] = "scheduler" /\ x \notin Proc /\ 1 \in {0, 1}
    BY Here, Zenon DEF scheduler, At
  <1>1. /\ pc' = pc /\ cpu' = SetSie(c, 1)
        /\ proc' = proc /\ frame' = frame /\ ticks' = ticks /\ tickslock' = tickslock /\ goal' = goal /\ ~panicked'
    BY <1>0, Zenon DEF scheduler, SetSie
  <1>2. /\ cpu' \in [Cpu -> Registers] /\ \A d \in Cpu : d # c => cpu'[d] = cpu[d]
        /\ cpu'[c].on = x /\ cpu'[c].mode = cpu[c].mode /\ cpu'[c].stvec = cpu[c].stvec /\ cpu'[c].tp = cpu[c].tp
    <2>1. TypeOK /\ 1 \in {0, 1} /\ cpu' = SetSie(c, 1)
      BY <1>0, <1>1, Zenon
    <2> QED
      BY <2>1, SieValues
  <1>3. /\ goal' \in [Ctx -> [upc : Upc, kpc : Label \cup {None}]] /\ pc' \in [Ctx -> Label]
        /\ goal' = goal /\ proc' = proc /\ pc' = pc /\ pc'[x] = "scheduler"
        /\ frame' = frame /\ ticks' = ticks /\ tickslock' = tickslock /\ ~panicked'
    BY <1>0, <1>1, Zenon DEF TypeOK
  <1>4. Regs(c)'
    BY <1>0, <1>2, <1>3, Zenon DEF Regs, Masked
  <1>5. x \notin Proc
    BY <1>0, Zenon
  <1> QED
    BY <1>2, <1>3, <1>4, <1>5, Alone, Zenon

\* exit(), from usertrap: the process leaves its CPU to the scheduler.
LEMMA ExitKeeps ==
  ASSUME IndInv, NEW c \in Cpu, NEW x, x = cpu[c].on, pc[x] \in {"save", "handled"},
         proc' = Exited(proc, x), cpu' = SetOn(c, c), pc' = [pc EXCEPT ![x] = "exited"],
         frame' = frame, ticks' = ticks, tickslock' = tickslock, goal' = goal, ~panicked'
  PROVE  IndInv'
  <1>0. /\ TypeOK /\ Regs(c) /\ Resting(c) /\ x \in Ctx /\ c \in Ctx /\ x \in Proc /\ x # c
        /\ Locked(x) /\ Sleeper(x) /\ pc[x] \notin {"while", "sleep"} /\ proc[x] \in Process
    BY Here, Zenon
  <1> DEFINE r == [proc[x] EXCEPT !.state = "ZOMBIE"]
  <1>1. /\ cpu' \in [Cpu -> Registers] /\ \A d \in Cpu : d # c => cpu'[d] = cpu[d]
        /\ cpu'[c].on = c /\ cpu'[c].mode = cpu[c].mode /\ cpu'[c].stvec = cpu[c].stvec /\ cpu'[c].tp = cpu[c].tp
    <2>1. TypeOK /\ c \in Ctx
      BY <1>0, Zenon
    <2> QED
      BY <2>1, OnValues
  <1>2. /\ pc' \in [Ctx -> Label] /\ pc'[x] = "exited" /\ pc'[c] = "scheduler"
        /\ \A y \in Ctx : y # x => pc'[y] = pc[y]
    <2>1. "exited" \in Label /\ pc[c] = "scheduler"
      BY <1>0, Zenon DEF Label, Resting
    <2> QED
      BY <1>0, <2>1, Zenon DEF TypeOK
  <1>3. r \in Process /\ proc' = [proc EXCEPT ![x] = r] /\ proc'[x] = r
    BY <1>0, Zenon DEF Exited, TypeOK, Process
  <1>4. /\ r.state = "ZOMBIE" /\ r.n = proc[x].n /\ r.ticks0 = proc[x].ticks0 /\ r.slept = proc[x].slept
        /\ r.ret = proc[x].ret /\ r.killed = proc[x].killed /\ r.seen = proc[x].seen
    BY <1>0, Zenon DEF Process
  <1> HIDE DEF r
  <1>5. Regs(c)'
    <2>1. cpu[c].mode # "U" /\ cpu[c].stvec = "kernelvec" /\ cpu[c].tp = c
      BY <1>0, Zenon DEF Regs
    <2> QED
      BY <1>1, <1>2, <2>1, Zenon DEF Regs, Masked
  <1>6. States(x)' /\ Locked(x)'
    BY <1>0, <1>2, <1>3, <1>4, Zenon DEF States, Locked
  <1>7. Sleeper(x)'
    <2>1. Counted(x)
      BY <1>3, <1>4, Zenon DEF Counted
    <2> QED
      BY <1>0, <1>2, <1>3, <1>4, <2>1, SleeperKeeps, Zenon
  <1>8. /\ x \in Proc /\ frame' \in [Ctx -> Frame] /\ \A y \in Ctx : y # x => frame'[y] = frame[y]
        /\ tickslock' \in Proc \cup {None}
    BY <1>0, Zenon DEF TypeOK
  <1>9. pc'[x] \notin {"kerneltrap", "restore"}
    BY <1>2, ZenonT(40)
  <1> QED
    BY <1>1, <1>2, <1>3, <1>5, <1>6, <1>7, <1>8, <1>9, Own, Zenon

\* usertrap saves sepc and goes to the system call, or finds a fault.
LEMMA SaveKeeps ==
  ASSUME IndInv, NEW c \in Cpu, NEW x, x = cpu[c].on, pc[x] = "save", NEW why, why = cpu[c].cause,
         why \in {"ecall", "fault"},
         proc' = [proc EXCEPT ![x] = IF why = "ecall" THEN [@ EXCEPT !.epc = After(cpu[c].sepc.at), !.timer = FALSE]
                                     ELSE [@ EXCEPT !.epc = cpu[c].sepc.at, !.timer = FALSE, !.killed = TRUE]],
         cpu' = IF why = "ecall" THEN SetSie(c, 1) ELSE cpu,
         pc' = [pc EXCEPT ![x] = IF why = "ecall" THEN "syscall" ELSE "handled"],
         frame' = frame, ticks' = ticks, tickslock' = tickslock, goal' = goal, ~panicked'
  PROVE  IndInv'
  <1>0. /\ TypeOK /\ Regs(c) /\ x \in Ctx /\ x \in Proc /\ States(x) /\ Locked(x) /\ Sleeper(x)
        /\ proc[x] \in Process /\ proc[x].state = "RUNNING" /\ cpu[c] \in Registers
    BY Here, Zenon
  <1>a. /\ cpu[c].mode # "U" /\ cpu[c].stvec = "kernelvec" /\ cpu[c].tp = c
        /\ goal[x].upc = (IF why = "ecall" THEN After(cpu[c].sepc.at) ELSE cpu[c].sepc.at)
        /\ cpu[c].sepc.at \in Upc /\ After(cpu[c].sepc.at) \in Upc
    <2>1. cpu[c].sepc.at = proc[x].upc /\ goal[x].upc = (IF why = "ecall" THEN After(proc[x].upc) ELSE proc[x].upc)
      BY <1>0, Zenon DEF Regs
    <2>2. proc[x].upc \in Upc /\ After(proc[x].upc) \in Upc
      BY <1>0, Zenon DEF Process, After, Upc
    <2> QED
      BY <1>0, <2>1, <2>2, Zenon DEF Regs
  <1> DEFINE r == IF why = "ecall" THEN [proc[x] EXCEPT !.epc = After(cpu[c].sepc.at), !.timer = FALSE]
                  ELSE [proc[x] EXCEPT !.epc = cpu[c].sepc.at, !.timer = FALSE, !.killed = TRUE]
  <1>1. /\ cpu' \in [Cpu -> Registers] /\ \A d \in Cpu : d # c => cpu'[d] = cpu[d]
        /\ cpu'[c].on = x /\ cpu'[c].mode = cpu[c].mode /\ cpu'[c].stvec = cpu[c].stvec /\ cpu'[c].tp = cpu[c].tp
    <2>1. CASE why = "ecall"
      <3>1. TypeOK /\ 1 \in {0, 1} /\ cpu' = SetSie(c, 1)
        BY <1>0, <2>1, Zenon
      <3> QED
        BY <3>1, SieValues
    <2>2. CASE why # "ecall"
      BY <1>0, <2>2, Zenon DEF TypeOK
    <2> QED
      BY <2>1, <2>2, Zenon
  <1>2. /\ pc' \in [Ctx -> Label] /\ pc'[x] \in {"syscall", "handled"}
        /\ \A y \in Ctx : y # x => pc'[y] = pc[y]
    <2>1. /\ (IF why = "ecall" THEN "syscall" ELSE "handled") \in Label
          /\ (IF why = "ecall" THEN "syscall" ELSE "handled") \in {"syscall", "handled"}
      BY Zenon DEF Label, Open
    <2> QED
      BY <1>0, <2>1, Zenon DEF TypeOK
  <1>3. r \in Process
    <2>1. [proc[x] EXCEPT !.epc = After(cpu[c].sepc.at), !.timer = FALSE] \in Process
      BY <1>0, <1>a, Zenon DEF Process
    <2>2. [proc[x] EXCEPT !.epc = cpu[c].sepc.at, !.timer = FALSE, !.killed = TRUE] \in Process
      BY <1>0, <1>a, Zenon DEF Process
    <2> QED
      BY <2>1, <2>2, Zenon
  <1>4. proc' = [proc EXCEPT ![x] = r] /\ proc'[x] = r
    BY <1>0, Zenon DEF TypeOK
  <1>5. /\ r.state = "RUNNING" /\ r.n = proc[x].n /\ r.ticks0 = proc[x].ticks0 /\ r.slept = proc[x].slept
        /\ r.ret = proc[x].ret /\ (proc[x].killed => r.killed) /\ r.seen = proc[x].seen
        /\ r.epc = goal[x].upc
    BY <1>0, <1>a, Zenon DEF Process
  <1> HIDE DEF r
  <1>6. Regs(c)'
    BY <1>1, <1>2, <1>a, Zenon DEF Regs, Masked
  <1>7. States(x)' /\ Locked(x)'
    BY <1>0, <1>2, <1>4, <1>5, Zenon DEF States, Locked
  <1>8. Sleeper(x)'
    <2>1. Counted(x)
      BY <1>4, <1>5, Zenon DEF Counted
    <2> QED
      BY <1>0, <1>2, <1>4, <1>5, <2>1, SleeperKeeps, Zenon
  <1>9. /\ x \in Proc /\ frame' \in [Ctx -> Frame] /\ \A y \in Ctx : y # x => frame'[y] = frame[y]
        /\ tickslock' \in Proc \cup {None}
    BY <1>0, Zenon DEF TypeOK
  <1>10. pc'[x] \notin {"kerneltrap", "restore"}
    BY <1>2, Zenon
  <1> QED
    BY <1>1, <1>2, <1>3, <1>4, <1>5, <1>6, <1>7, <1>8, <1>9, <1>10, Own, Zenon

\* The end of usertrap, for a process that goes on: at once, or after yield().
LEMMA HandledKeeps ==
  ASSUME IndInv, NEW c \in Cpu, NEW x, x = cpu[c].on, pc[x] = "handled",
         NEW y, y \in {"RUNNING", "RUNNABLE"},
         proc' = IF y = "RUNNING" THEN Returned(x) ELSE [Returned(x) EXCEPT ![x].state = "RUNNABLE"],
         cpu' = IF y = "RUNNING" THEN cpu ELSE SetOn(c, c),
         pc' = [pc EXCEPT ![x] = "usertrapret"],
         frame' = frame, ticks' = ticks, tickslock' = tickslock, goal' = goal, ~panicked'
  PROVE  IndInv'
  <1>0. /\ TypeOK /\ Regs(c) /\ Resting(c) /\ x \in Ctx /\ c \in Ctx /\ x # c /\ x \in Proc
        /\ States(x) /\ Locked(x) /\ proc[x] \in Process /\ proc[x].state = "RUNNING" /\ cpu[c] \in Registers
    BY Here, Zenon
  <1>a. cpu[c].mode # "U" /\ cpu[c].stvec = "kernelvec" /\ cpu[c].tp = c /\ proc[x].epc = goal[x].upc /\ pc[c] = "scheduler"
    BY <1>0, Zenon DEF Regs, States, Resting
  <1> DEFINE r == [proc[x] EXCEPT !.timer = FALSE, !.n = 0, !.ticks0 = 0, !.slept = 0, !.seen = None,
                                  !.ret = None, !.state = y]
  <1>1. /\ cpu' \in [Cpu -> Registers] /\ \A d \in Cpu : d # c => cpu'[d] = cpu[d]
        /\ cpu'[c].on = (IF y = "RUNNING" THEN x ELSE c)
        /\ cpu'[c].mode = cpu[c].mode /\ cpu'[c].stvec = cpu[c].stvec /\ cpu'[c].tp = cpu[c].tp
    <2>1. CASE y # "RUNNING"
      <3>1. TypeOK /\ c \in Ctx /\ cpu' = SetOn(c, c)
        BY <1>0, <2>1, Zenon
      <3> QED
        BY <2>1, <3>1, OnValues
    <2>2. CASE y = "RUNNING"
      BY <1>0, <2>2, Zenon DEF TypeOK
    <2> QED
      BY <2>1, <2>2, Zenon
  <1>2. pc' \in [Ctx -> Label] /\ pc'[x] = "usertrapret" /\ \A z \in Ctx : z # x => pc'[z] = pc[z]
    <2>1. "usertrapret" \in Label
      BY Zenon DEF Label, Open
    <2> QED
      BY <1>0, <2>1, Zenon DEF TypeOK
  <1>3. r \in Process
    <2>1. 0 \in Tick /\ 0 \in 0 .. WRAP
      BY SizeAssumption DEF Tick
    <2> QED
      BY <1>0, <2>1, Zenon DEF Process
  <1>4. proc' = [proc EXCEPT ![x] = r] /\ proc'[x] = r
    <2>1. Returned(x) = [proc EXCEPT ![x] = [proc[x] EXCEPT !.timer = FALSE, !.n = 0, !.ticks0 = 0, !.slept = 0,
                                                            !.seen = None, !.ret = None]]
      BY Zenon DEF Returned
    <2>2. CASE y = "RUNNING"
      <3>1. r = [proc[x] EXCEPT !.timer = FALSE, !.n = 0, !.ticks0 = 0, !.slept = 0, !.seen = None, !.ret = None]
        BY <1>0, <2>2, Zenon DEF Process
      <3> QED
        BY <1>0, <2>1, <2>2, <3>1, Zenon DEF TypeOK
    <2>3. CASE y = "RUNNABLE"
      BY <1>0, <2>1, <2>3, Zenon DEF TypeOK, Process
    <2> QED
      BY <2>2, <2>3, Zenon
  <1>5. /\ r.state = y /\ r.n = 0 /\ r.ticks0 = 0 /\ r.slept = 0 /\ r.ret = None /\ r.epc = goal[x].upc
    BY <1>0, <1>a, Zenon DEF Process
  <1> HIDE DEF r
  <1>6. Regs(c)'
    BY <1>0, <1>1, <1>2, <1>a, Zenon DEF Regs, Masked
  <1>7. States(x)' /\ Locked(x)'
    BY <1>0, <1>2, <1>4, <1>5, Zenon DEF States, Locked
  <1>8. Sleeper(x)'
    BY <1>2, <1>4, <1>5, NameAssumption, Zenon DEF Sleeper
  <1>9. /\ x \in Proc /\ frame' \in [Ctx -> Frame] /\ \A z \in Ctx : z # x => frame'[z] = frame[z]
        /\ tickslock' \in Proc \cup {None}
    BY <1>0, Zenon DEF TypeOK
  <1>10. pc'[x] \notin {"kerneltrap", "restore"}
    BY <1>2, Zenon
  <1> QED
    BY <1>1, <1>2, <1>3, <1>4, <1>5, <1>6, <1>7, <1>8, <1>9, <1>10, Own, Zenon

---------------------------------------------------------------------------
(* Interrupts                                                              *)

\* What devintr makes of the processes: after the clock, each has one tick more
\* and none sleeps.
Ticked(p, q) ==
  /\ q.epc = p.epc /\ q.hartid = p.hartid /\ q.upc = p.upc /\ q.n = p.n /\ q.ticks0 = p.ticks0
  /\ q.ret = p.ret /\ q.seen = p.seen /\ q.killed = p.killed
  /\ q.state = p.state \/ (p.state = "SLEEPING" /\ q.state = "RUNNABLE")
  /\ \/ ticks' = ticks /\ q.slept = p.slept
     \/ /\ tickslock = None /\ ticks' = (ticks + 1) % WRAP
        /\ q.state # "SLEEPING"
        /\ q.slept = IF p.n = 0 THEN 0 ELSE lesser(p.slept + 1, WRAP)

\* A process devintr is all that happened to.
LEMMA TickedKeeps ==
  ASSUME NEW p, Ticked(proc[p], proc'[p])
  PROVE  Kept(p) /\ Counted(p) /\ Woken(p)
  <1>1. Kept(p)
    BY Zenon DEF Ticked, Kept
  <1>2. Counted(p)
    BY Zenon DEF Ticked, Counted
  <1>3. Woken(p)
    BY Zenon DEF Ticked, Woken
  <1> QED
    BY <1>1, <1>2, <1>3, Zenon

\* The process that was interrupted: devintr made q of it, and the handler keeps
\* what the clock counts.
LEMMA TickedRuns ==
  ASSUME NEW p, NEW q, Ticked(proc[p], q), proc[p].state = "RUNNING",
         /\ proc'[p].n = q.n /\ proc'[p].ticks0 = q.ticks0 /\ proc'[p].slept = q.slept
         /\ proc'[p].ret = q.ret /\ proc'[p].killed = q.killed /\ proc'[p].seen = q.seen,
         proc'[p].state # "SLEEPING"
  PROVE  Counted(p) /\ q.state = "RUNNING"
  <1>1. Counted(p)
    BY Zenon DEF Ticked, Counted
  <1>2. q.state = "RUNNING"
    BY Zenon DEF Ticked
  <1> QED
    BY <1>1, <1>2, Zenon

LEMMA ServedValues ==
  ASSUME TypeOK, NEW c \in Cpu, devintr(c), NEW s, s = Served(c)
  PROVE  /\ s \in [Proc -> Process] /\ ticks' \in Tick
         /\ \A p \in Proc : Ticked(proc[p], s[p])
  <1>0. WRAP \in Nat /\ WRAP > 0 /\ ticks \in 0 .. WRAP - 1 /\ proc \in [Proc -> Process]
    BY SizeAssumption DEF TypeOK, Tick
  <1>1. CASE ~Clock(c)
    <2>1. s = proc /\ ticks' = ticks
      BY <1>1, Zenon DEF Served, devintr
    <2> QED
      BY <1>0, <2>1, Zenon DEF Ticked, Tick
  <1>2. CASE Clock(c)
    <2>1. s = clockintr(proc) /\ ticks' = (ticks + 1) % WRAP /\ tickslock = None
      BY <1>2, Zenon DEF Served, devintr
    <2>2. ticks' \in Tick
      BY <1>0, <2>1, Succ DEF Tick
    <2> DEFINE st(p) == IF p.state = "SLEEPING" THEN "RUNNABLE" ELSE p.state
               sl(p) == IF p.n = 0 THEN 0 ELSE lesser(p.slept + 1, WRAP)
               R(p) == [p EXCEPT !.state = st(p), !.slept = sl(p)]
    <2>3. s = [p \in Proc |-> R(proc[p])]
      BY <2>1, Zenon DEF clockintr
    <2>4. \A p \in Process : st(p) \in {"RUNNABLE", "RUNNING", "SLEEPING", "ZOMBIE"} /\ sl(p) \in 0 .. WRAP
      BY <1>0 DEF Process, lesser, Tick
    <2>5. \A p \in Process : R(p) \in Process
      <3> HIDE DEF st, sl
      <3> QED
        BY <2>4, Zenon DEF Process
    <2>6. \A p \in Process :
            LET q == R(p) IN
            /\ q.epc = p.epc /\ q.hartid = p.hartid /\ q.upc = p.upc /\ q.n = p.n /\ q.ticks0 = p.ticks0
            /\ q.ret = p.ret /\ q.seen = p.seen /\ q.killed = p.killed
            /\ q.state = st(p) /\ q.slept = sl(p)
      <3> HIDE DEF st, sl
      <3> QED
        BY Zenon DEF Process
    <2> HIDE DEF R
    <2>7. ASSUME NEW p \in Process PROVE Ticked(p, R(p))
      BY <2>1, <2>6, Zenon DEF Ticked
    <2>8. s \in [Proc -> Process] /\ \A p \in Proc : s[p] = R(proc[p])
      BY <1>0, <2>3, <2>5, Zenon
    <2>9. \A p \in Proc : Ticked(proc[p], s[p])
      BY <1>0, <2>7, <2>8, Zenon
    <2> QED
      BY <2>2, <2>8, <2>9, Zenon
  <1> QED
    BY <1>1, <1>2, Zenon

\* usertrap serves an interrupt.
LEMMA InterruptKeeps ==
  ASSUME IndInv, NEW c \in Cpu, NEW x, x = cpu[c].on, pc[x] = "save", NEW why, why = cpu[c].cause,
         why \in Interrupts, devintr(c), NEW s, s = Served(c),
         NEW r \in Process, proc' = [s EXCEPT ![x] = r],
         /\ r.state = s[x].state /\ r.n = s[x].n /\ r.ticks0 = s[x].ticks0 /\ r.slept = s[x].slept
         /\ r.ret = s[x].ret /\ r.killed = s[x].killed /\ r.seen = s[x].seen
         /\ r.epc = cpu[c].sepc.at,
         cpu' = cpu, pc' = [pc EXCEPT ![x] = "handled"],
         frame' = frame, tickslock' = tickslock, goal' = goal, ~panicked'
  PROVE  IndInv'
  <1>0. /\ TypeOK /\ Regs(c) /\ Resting(c) /\ x \in Ctx /\ c \in Ctx /\ x \in Proc /\ x # c /\ Locked(x) /\ Sleeper(x)
        /\ proc[x] \in Process /\ proc[x].state = "RUNNING" /\ cpu[c] \in Registers
    BY Here
  <1>a. /\ cpu[c].mode # "U" /\ cpu[c].stvec = "kernelvec" /\ cpu[c].tp = c
        /\ goal[x].upc = cpu[c].sepc.at /\ cpu[c].sepc.at \in Upc
    <2>1. cpu[c].sepc.at = proc[x].upc /\ goal[x].upc = (IF why = "ecall" THEN After(proc[x].upc) ELSE proc[x].upc)
      BY <1>0, Zenon DEF Regs
    <2>2. proc[x].upc \in Upc
      BY <1>0, Zenon DEF Process
    <2> QED
      BY <1>0, <2>1, <2>2, Zenon DEF Regs, Interrupts
  <1>1. s \in [Proc -> Process] /\ ticks' \in Tick /\ (\A p \in Proc : Ticked(proc[p], s[p])) /\ s[x] \in Process
    BY <1>0, ServedValues, Zenon
  <1>2. pc' \in [Ctx -> Label] /\ pc'[x] = "handled" /\ \A y \in Ctx : y # x => pc'[y] = pc[y]
    <2>1. "handled" \in Label
      BY Zenon DEF Label, Open
    <2> QED
      BY <1>0, <2>1, Zenon DEF TypeOK
  <1>6. proc' \in [Proc -> Process] /\ proc'[x] = r /\ \A p \in Proc : p # x => proc'[p] = s[p]
    <2>1. x \in Proc /\ s \in [Proc -> Process] /\ r \in Process
      BY <1>0, <1>1
    <2> QED
      BY <2>1, Zenon
  <1>7. TypeOK'
    BY <1>0, <1>1, <1>2, <1>6, Zenon DEF TypeOK
  <1>8. \A p \in Proc : p # x => Kept(p) /\ Counted(p) /\ Woken(p)
    <2> SUFFICES ASSUME NEW p \in Proc, p # x PROVE Kept(p) /\ Counted(p) /\ Woken(p)
      BY Zenon
    <2>1. Ticked(proc[p], proc'[p])
      BY <1>1, <1>6, Zenon
    <2> QED
      BY <2>1, TickedKeeps, Zenon
  <1>9. Counted(x) /\ proc'[x].state = "RUNNING" /\ proc'[x].epc = goal[x].upc
    <2>1. x \in Proc /\ Ticked(proc[x], s[x]) /\ proc[x].state = "RUNNING" /\ proc[x].state # "SLEEPING" /\ proc'[x] = r
      BY <1>0, <1>1, <1>6, Zenon
    <2>2. s[x].state = "RUNNING"
      BY <2>1, Zenon DEF Ticked
    <2>3. proc'[x].state = "RUNNING" /\ proc'[x].state # "SLEEPING"
      BY <2>1, <2>2, Zenon
    <2>4. /\ proc'[x].n = s[x].n /\ proc'[x].ticks0 = s[x].ticks0 /\ proc'[x].slept = s[x].slept
          /\ proc'[x].ret = s[x].ret /\ proc'[x].killed = s[x].killed /\ proc'[x].seen = s[x].seen
      BY <2>1, ZenonT(40)
    <2>5. Counted(x)
      BY <2>1, <2>3, <2>4, TickedRuns, ZenonT(40)
    <2> QED
      BY <1>a, <2>1, <2>3, <2>5, Zenon
  <1>10. Regs(c)' /\ Resting(c)'
    BY <1>0, <1>2, <1>a DEF Regs, Masked, Resting
  <1>11. Frames(x)'
    BY <1>2, Zenon DEF Frames
  <1>12. States(x)' /\ Locked(x)'
    BY <1>0, <1>2, <1>9, Zenon DEF States, Locked
  <1>13. Sleeper(x)'
    BY <1>0, <1>2, <1>9, SleeperKeeps, Zenon
  <1>14. /\ \A d \in Cpu : d # c => cpu'[d] = cpu[d]
         /\ \A y \in Ctx : y # x => pc'[y] = pc[y] /\ frame'[y] = frame[y] /\ goal'[y] = goal[y]
         /\ cpu'[c].on = x /\ (x \in Proc => proc'[x].state = "RUNNING")
    BY <1>2, <1>9, ZenonT(40)
  <1> QED
    BY <1>7, <1>8, <1>10, <1>11, <1>12, <1>13, <1>14, StepKeeps, Zenon

\* kerneltrap, which may yield.
LEMMA KerneltrapKeeps ==
  ASSUME IndInv, NEW c \in Cpu, NEW x, x = cpu[c].on, kerneltrap(c)
  PROVE  IndInv'
  <1> DEFINE yields == cpu[c].cause = "timer" /\ x \in Proc
             s == Served(c)
             f == [sepc |-> cpu[c].sepc, spp |-> cpu[c].spp, spie |-> cpu[c].spie]
  <1>0. /\ TypeOK /\ Regs(c) /\ Resting(c) /\ x \in Ctx /\ c \in Ctx /\ c \notin Proc /\ Frames(x) /\ pc[x] = "kerneltrap"
        /\ cpu[c] \in Registers /\ (x \notin Proc => x = c)
        /\ x \in Proc => x # c /\ States(x) /\ Locked(x) /\ Sleeper(x) /\ proc[x].state = "RUNNING"
    BY Here, Zenon DEF kerneltrap, At
  <1>a. /\ cpu[c].mode = "S" /\ cpu[c].stvec = "kernelvec" /\ cpu[c].tp = c /\ cpu[c].sie = 0 /\ cpu[c].spp = "S"
        /\ cpu[c].sepc.at = goal[x].kpc
        /\ x # c => pc[c] = "scheduler"
    <2>1. cpu[c].mode # "U" /\ cpu[c].stvec = "kernelvec" /\ cpu[c].tp = c /\ cpu[c].sie = 0 /\ cpu[c].spp = "S"
          /\ cpu[c].sepc.at = goal[x].kpc
      BY <1>0, Zenon DEF Regs, Masked
    <2> QED
      BY <1>0, <2>1, Zenon DEF Resting, Registers
  <1>b. /\ frame' = [frame EXCEPT ![x] = f] /\ devintr(c) /\ tickslock' = tickslock /\ goal' = goal
        /\ proc' = (IF yields THEN [s EXCEPT ![x].state = "RUNNABLE"] ELSE s)
        /\ cpu' = SetOn(c, IF yields THEN c ELSE x)
        /\ pc' = [pc EXCEPT ![x] = "restore"]
    BY Zenon DEF kerneltrap, SetOn, Goto
  <1>c. ~panicked'
    <2>1. panicked' = (cpu[c].spp = "U" \/ cpu[c].sie = 1)
      BY Zenon DEF kerneltrap
    <2>2. cpu[c].spp # "U" /\ cpu[c].sie # 1
      BY <1>a
    <2> QED
      BY <2>1, <2>2, Zenon
  <1>1. s \in [Proc -> Process] /\ ticks' \in Tick /\ \A p \in Proc : Ticked(proc[p], s[p])
    BY <1>0, <1>b, ServedValues, Zenon
  <1> HIDE DEF s
  <1>2. /\ cpu' \in [Cpu -> Registers] /\ \A d \in Cpu : d # c => cpu'[d] = cpu[d]
        /\ cpu'[c].on = (IF yields THEN c ELSE x)
        /\ cpu'[c].mode = cpu[c].mode /\ cpu'[c].sie = cpu[c].sie
        /\ cpu'[c].stvec = cpu[c].stvec /\ cpu'[c].tp = cpu[c].tp
    <2>1. TypeOK /\ (IF yields THEN c ELSE x) \in Ctx /\ cpu' = SetOn(c, IF yields THEN c ELSE x)
      BY <1>0, <1>b, Zenon
    <2> HIDE DEF yields
    <2> QED
      BY <2>1, OnValues
  <1>3. pc' \in [Ctx -> Label] /\ pc'[x] = "restore" /\ \A y \in Ctx : y # x => pc'[y] = pc[y]
    <2>1. "restore" \in Label
      BY Zenon DEF Label, Masked
    <2> QED
      BY <1>0, <1>b, <2>1, Zenon DEF TypeOK
  <1>4. f \in Frame /\ f.spp = "S" /\ f.sepc.at = goal[x].kpc
    <2>1. f \in Frame
      BY <1>0, Zenon DEF Frame, Registers
    <2> QED
      BY <2>1, <1>a, Zenon
  <1> HIDE DEF f
  <1>5. frame' \in [Ctx -> Frame] /\ frame'[x] = f /\ \A y \in Ctx : y # x => frame'[y] = frame[y]
    BY <1>0, <1>b, <1>4, Zenon DEF TypeOK
  <1>6. /\ proc' \in [Proc -> Process] /\ \A p \in Proc : p # x => proc'[p] = s[p]
        /\ x \in Proc => /\ proc'[x].state = (IF yields THEN "RUNNABLE" ELSE s[x].state)
                         /\ proc'[x].n = s[x].n /\ proc'[x].ticks0 = s[x].ticks0 /\ proc'[x].slept = s[x].slept
                         /\ proc'[x].ret = s[x].ret /\ proc'[x].killed = s[x].killed /\ proc'[x].seen = s[x].seen
                         /\ proc'[x].epc = s[x].epc
    <2>1. CASE yields
      <3>1. s[x] \in Process /\ x \in Proc
        BY <1>1, <2>1, Zenon
      <3> DEFINE r == [s[x] EXCEPT !.state = "RUNNABLE"]
      <3>2. r \in Process
        BY <3>1, Zenon DEF Process
      <3>3. /\ r.state = "RUNNABLE" /\ r.n = s[x].n /\ r.ticks0 = s[x].ticks0 /\ r.slept = s[x].slept
            /\ r.ret = s[x].ret /\ r.killed = s[x].killed /\ r.seen = s[x].seen /\ r.epc = s[x].epc
        BY <3>1, Zenon DEF Process
      <3>4. proc' = [s EXCEPT ![x] = r]
        BY <1>b, <2>1, Zenon
      <3> HIDE DEF r
      <3>5. proc' \in [Proc -> Process] /\ proc'[x] = r /\ \A p \in Proc : p # x => proc'[p] = s[p]
        BY <1>1, <3>1, <3>2, <3>4, Zenon
      <3> QED
        BY <2>1, <3>3, <3>5, Zenon
    <2>2. CASE ~yields
      BY <1>1, <1>b, <2>2, Zenon
    <2> QED
      BY <2>1, <2>2, Zenon
  <1>7. TypeOK'
    BY <1>0, <1>1, <1>2, <1>3, <1>5, <1>6, <1>b, Zenon DEF TypeOK
  <1>8. \A p \in Proc : p # x => Kept(p) /\ Counted(p) /\ Woken(p)
    <2> SUFFICES ASSUME NEW p \in Proc, p # x PROVE Kept(p) /\ Counted(p) /\ Woken(p)
      BY Zenon
    <2>1. Ticked(proc[p], proc'[p])
      BY <1>1, <1>6, Zenon
    <2> QED
      BY <2>1, TickedKeeps, Zenon
  <1>9. x \in Proc => /\ Counted(x) /\ proc'[x].epc = proc[x].epc
                      /\ proc'[x].state = (IF yields THEN "RUNNABLE" ELSE "RUNNING")
    <2> SUFFICES ASSUME x \in Proc
                 PROVE  /\ Counted(x) /\ proc'[x].epc = proc[x].epc
                        /\ proc'[x].state = (IF yields THEN "RUNNABLE" ELSE "RUNNING")
      BY Zenon
    <2>1. Ticked(proc[x], s[x]) /\ proc[x].state = "RUNNING"
      BY <1>0, <1>1, Zenon
    <2>2. s[x].state = "RUNNING" /\ s[x].epc = proc[x].epc
      BY <2>1, Zenon DEF Ticked
    <2>3. proc'[x].state = (IF yields THEN "RUNNABLE" ELSE "RUNNING")
      BY <1>6, <2>2, Zenon
    <2>4. proc'[x].state # "SLEEPING"
      BY <2>3, Zenon
    <2>5. Counted(x)
      BY <1>6, <2>1, <2>4, TickedRuns, ZenonT(40)
    <2> QED
      BY <1>6, <2>2, <2>3, <2>5, Zenon
  <1>10. Resting(c)'
    BY <1>0, <1>2, <1>3, <1>a DEF Resting
  <1>11. Regs(c)'
    <2>1. CASE yields
      <3>1. cpu'[c].on = c /\ pc'[c] = "scheduler"
        BY <1>0, <1>2, <1>3, <1>a, <2>1, ZenonT(40)
      <3> QED
        BY <1>2, <1>a, <3>1, Zenon DEF Regs, Masked
    <2>2. CASE ~yields
      <3>1. cpu'[c].on = x /\ pc'[x] = "restore"
        BY <1>2, <1>3, <2>2, Zenon
      <3> QED
        BY <1>2, <1>a, <3>1, Zenon DEF Regs, Masked
    <2> QED
      BY <2>1, <2>2, Zenon
  <1>12. Frames(x)'
    BY <1>0, <1>3, <1>4, <1>5, <1>b, Zenon DEF Frames
  <1>13. ASSUME x \in Proc PROVE States(x)' /\ Locked(x)' /\ Sleeper(x)'
    <2>1. States(x)' /\ Locked(x)'
      BY <1>0, <1>3, <1>9, <1>13, <1>b DEF States, Locked
    <2>2. Sleeper(x)'
      BY <1>0, <1>3, <1>9, <1>13, SleeperKeeps, Zenon
    <2> QED
      BY <2>1, <2>2, Zenon
  <1>14. /\ \A y \in Ctx : y # x => pc'[y] = pc[y] /\ frame'[y] = frame[y] /\ goal'[y] = goal[y]
         /\ cpu'[c].on = c \/ (cpu'[c].on = x /\ (x \in Proc => proc'[x].state = "RUNNING"))
         /\ tickslock' = tickslock
    BY <1>2, <1>3, <1>5, <1>9, <1>b, Zenon
  <1> QED
    BY <1>2, <1>7, <1>8, <1>10, <1>11, <1>12, <1>13, <1>14, <1>c, StepKeeps, ZenonT(40)

---------------------------------------------------------------------------
(* Back from a trap                                                        *)

\* What sret makes of the registers r.
LEMMA SretValues ==
  ASSUME TypeOK, NEW c \in Cpu, NEW r \in Registers, NEW procs, Sret(c, r, procs)
  PROVE  /\ cpu' \in [Cpu -> Registers] /\ \A d \in Cpu : d # c => cpu'[d] = cpu[d]
         /\ cpu'[c].on = r.on /\ cpu'[c].mode = r.spp /\ cpu'[c].stvec = r.stvec /\ cpu'[c].tp = r.tp
  <1> DEFINE q == [r EXCEPT !.mode = r.spp, !.sie = r.spie, !.spp = "U", !.spie = 1]
  <1>1. q \in Registers
    BY Zenon DEF Registers
  <1>2. q.on = r.on /\ q.mode = r.spp /\ q.stvec = r.stvec /\ q.tp = r.tp
    BY Zenon DEF Registers
  <1>3. cpu' = [cpu EXCEPT ![c] = q] /\ cpu \in [Cpu -> Registers]
    BY Zenon DEF Sret, TypeOK
  <1> HIDE DEF q
  <1>4. cpu' \in [Cpu -> Registers] /\ cpu'[c] = q /\ \A d \in Cpu : d # c => cpu'[d] = cpu[d]
    BY <1>1, <1>3, Zenon
  <1> QED
    BY <1>2, <1>4, Zenon

\* userret: user space goes on where the trapframe says.
LEMMA UserretKeeps ==
  ASSUME IndInv, NEW c \in Cpu, NEW x, x = cpu[c].on, userret(c)
  PROVE  IndInv' /\ cpu'[c].mode = "U" /\ pc'[x] = "user" /\ proc'[x].upc = goal[x].upc
  <1>0. /\ TypeOK /\ ~panicked /\ Regs(c) /\ pc[x] = "userret" /\ x \in Ctx /\ x \in Proc /\ States(x) /\ Locked(x)
        /\ Sleeper(x) /\ proc[x] \in Process /\ proc[x].state = "RUNNING" /\ cpu[c] \in Registers
    BY Here, Zenon DEF userret, At
  <1>a. cpu[c].tp = c /\ proc[x].epc = goal[x].upc /\ proc[x].epc \in Upc
    <2>1. proc[x].epc \in Upc
      BY <1>0, Zenon DEF Process
    <2> QED
      BY <1>0, <2>1, Zenon DEF Regs, States
  <1> DEFINE e == [own |-> x, at |-> proc[x].epc]
             R == [cpu[c] EXCEPT !.stvec = "uservec", !.spp = "U", !.spie = 1, !.sepc = e]
             r == [proc[x] EXCEPT !.hartid = cpu[c].tp, !.upc = proc[x].epc]
  <1>1. e \in Sepc /\ e.at = proc[x].epc
    BY <1>0, <1>a, Zenon DEF Sepc
  <1>2. /\ Sret(c, R, [proc EXCEPT ![x].hartid = cpu[c].tp])
        /\ frame' = frame /\ ticks' = ticks /\ tickslock' = tickslock /\ goal' = goal /\ ~panicked'
    BY <1>0, ZenonT(40) DEF userret
  <1>b. \A f \in Sepc : LET q == [cpu[c] EXCEPT !.stvec = "uservec", !.spp = "U", !.spie = 1, !.sepc = f] IN
                     /\ q \in Registers /\ q.on = x /\ q.stvec = "uservec" /\ q.tp = cpu[c].tp
                     /\ q.spp = "U" /\ q.sepc = f
    <2>1. \A f \in Sepc : [cpu[c] EXCEPT !.stvec = "uservec", !.spp = "U", !.spie = 1, !.sepc = f] \in Registers
      BY <1>0, Zenon DEF Registers
    <2> QED
      BY <1>0, <2>1, ZenonT(40) DEF Registers
  <1> HIDE DEF e
  <1>3. R \in Registers /\ R.on = x /\ R.stvec = "uservec" /\ R.tp = cpu[c].tp /\ R.spp = "U" /\ R.sepc = e
    BY <1>1, <1>b, ZenonT(40)
  <1> HIDE DEF R
  <1>4. /\ cpu' \in [Cpu -> Registers] /\ \A d \in Cpu : d # c => cpu'[d] = cpu[d]
        /\ cpu'[c].on = x /\ cpu'[c].mode = "U" /\ cpu'[c].stvec = "uservec"
    <2>1. TypeOK
      BY <1>0, Zenon
    <2> QED
      BY <1>2, <1>3, <2>1, SretValues, Zenon
  <1>5. /\ pc' = [pc EXCEPT ![x] = "user"]
        /\ proc' = [[proc EXCEPT ![x].hartid = cpu[c].tp] EXCEPT ![x].upc = proc[x].epc]
    BY <1>1, <1>2, <1>3, Zenon DEF Sret, Goto
  <1>6. pc' \in [Ctx -> Label] /\ pc'[x] = "user" /\ \A y \in Ctx : y # x => pc'[y] = pc[y]
    <2>1. "user" \in Label
      BY Zenon DEF Label
    <2> QED
      BY <1>0, <1>5, <2>1, Zenon DEF TypeOK
  <1>7. r \in Process
    <2>1. cpu[c].tp \in Cpu
      BY <1>0, Zenon DEF Registers
    <2> QED
      BY <1>0, <1>a, <2>1, Zenon DEF Process
  <1>8. /\ r.state = "RUNNING" /\ r.n = proc[x].n /\ r.ticks0 = proc[x].ticks0 /\ r.slept = proc[x].slept
        /\ r.ret = proc[x].ret /\ r.killed = proc[x].killed /\ r.seen = proc[x].seen
        /\ r.hartid = c /\ r.upc = goal[x].upc
    BY <1>0, <1>a, Zenon DEF Process
  <1>9. proc' = [proc EXCEPT ![x] = r] /\ proc'[x] = r
    BY <1>0, <1>5, Zenon DEF TypeOK, Process
  <1> HIDE DEF r
  <1>10. Regs(c)'
    BY <1>4, <1>6, <1>8, <1>9, Zenon DEF Regs, Masked
  <1>11. States(x)' /\ Locked(x)'
    BY <1>0, <1>2, <1>6, <1>8, <1>9, Zenon DEF States, Locked
  <1>12. Sleeper(x)'
    <2>1. Counted(x)
      BY <1>2, <1>8, <1>9, Zenon DEF Counted
    <2> QED
      BY <1>0, <1>6, <1>8, <1>9, <2>1, SleeperKeeps, Zenon
  <1>13. /\ x \in Proc /\ frame' \in [Ctx -> Frame] /\ \A y \in Ctx : y # x => frame'[y] = frame[y]
         /\ tickslock' \in Proc \cup {None} /\ goal' = goal /\ ticks' = ticks /\ tickslock' = tickslock /\ ~panicked'
    BY <1>0, <1>2, Zenon DEF TypeOK
  <1>14. pc'[x] \notin {"kerneltrap", "restore"}
    BY <1>6, Zenon
  <1>15. IndInv'
    BY <1>4, <1>6, <1>7, <1>8, <1>9, <1>10, <1>11, <1>12, <1>13, <1>14, Own, Zenon
  <1> QED
    BY <1>4, <1>6, <1>8, <1>9, <1>15, Zenon

\* The end of kerneltrap: the kernel goes on where it was interrupted.
LEMMA RestoreKeeps ==
  ASSUME IndInv, NEW c \in Cpu, NEW x, x = cpu[c].on, kerneltrap_end(c)
  PROVE  IndInv' /\ cpu'[c].mode = "S" /\ pc'[x] = goal[x].kpc
  <1>0. /\ TypeOK /\ ~panicked /\ Regs(c) /\ Resting(c) /\ pc[x] = "restore" /\ x \in Ctx /\ Frames(x)
        /\ c \in Ctx /\ c \notin Proc /\ (x \notin Proc => x = c)
        /\ x \in Proc => States(x) /\ Locked(x) /\ Sleeper(x) /\ proc[x].state = "RUNNING" /\ x # c
        /\ cpu[c] \in Registers /\ frame[x] \in Frame
    <2>1. pc[x] = "restore"
      BY Zenon DEF kerneltrap_end, At
    <2>2. TypeOK /\ x \in Ctx
      BY Here, Zenon
    <2>3. frame[x] \in Frame
      BY <2>2, Zenon DEF TypeOK
    <2> QED
      BY <2>1, <2>3, Here, Zenon
  <1>a. /\ cpu[c].stvec = "kernelvec" /\ cpu[c].tp = c
        /\ frame[x].spp = "S" /\ frame[x].sepc.at = goal[x].kpc /\ goal[x].kpc \in Open
        /\ goal[x].kpc = "scheduler" <=> x \in Cpu
    BY <1>0, Zenon DEF Regs, Frames
  <1> DEFINE f == frame[x]
             R == [cpu[c] EXCEPT !.sepc = f.sepc, !.spp = f.spp, !.spie = f.spie]
  <1>1. /\ Sret(c, R, proc) /\ frame' = [frame EXCEPT ![x] = NoFrame]
        /\ ticks' = ticks /\ tickslock' = tickslock /\ goal' = goal /\ ~panicked'
    BY <1>0, Zenon DEF kerneltrap_end
  <1>2. f \in Frame /\ f.spp \in {"U", "S"} /\ f.spp = "S" /\ f.sepc \in Sepc /\ f.spie \in {0, 1}
    <2>1. f.sepc \in Sepc /\ f.spie \in {0, 1}
      BY <1>0, Zenon DEF Frame
    <2> QED
      BY <1>0, <1>a, <2>1, Zenon
  <1> HIDE DEF f
  <1>3. R \in Registers /\ R.on = x /\ R.stvec = "kernelvec" /\ R.tp = c /\ R.spp = "S" /\ R.sepc = f.sepc
    <2>1. R \in Registers
      BY <1>0, <1>2, Zenon DEF Registers
    <2> QED
      BY <1>0, <1>2, <1>a, <2>1, Zenon DEF Registers
  <1> HIDE DEF R
  <1>4. /\ cpu' \in [Cpu -> Registers] /\ \A d \in Cpu : d # c => cpu'[d] = cpu[d]
        /\ cpu'[c].on = x /\ cpu'[c].mode = "S" /\ cpu'[c].stvec = "kernelvec" /\ cpu'[c].tp = c
    <2>1. TypeOK
      BY <1>0, Zenon
    <2> QED
      BY <1>1, <1>3, <2>1, SretValues, Zenon
  <1>5. pc' = [pc EXCEPT ![x] = goal[x].kpc] /\ proc' = proc
    <2>1. R.spp # "U" /\ R.sepc.at = goal[x].kpc
      BY <1>3, <1>a, Zenon DEF f
    <2> QED
      BY <1>1, <2>1, Zenon DEF Sret, Goto
  <1>6. pc' \in [Ctx -> Label] /\ pc'[x] = goal[x].kpc /\ \A y \in Ctx : y # x => pc'[y] = pc[y]
    <2>1. goal[x].kpc \in Label
      BY <1>a, Zenon DEF Label
    <2> QED
      BY <1>0, <1>5, <2>1, Zenon DEF TypeOK
  <1>7. NoFrame \in Frame
    <2>1. [own |-> None, at |-> None] \in Sepc
      BY Zenon DEF Sepc
    <2> QED
      BY <2>1, Zenon DEF NoFrame, Frame
  <1>8. frame' \in [Ctx -> Frame] /\ \A y \in Ctx : y # x => frame'[y] = frame[y]
    BY <1>0, <1>1, <1>7, Zenon DEF TypeOK
  <1>9. TypeOK'
    BY <1>0, <1>1, <1>4, <1>5, <1>6, <1>8, Zenon DEF TypeOK
  <1>10. \A p \in Proc : Kept(p) /\ Counted(p) /\ Woken(p)
    BY <1>1, <1>5, Zenon DEF Kept, Counted, Woken
  <1>11. pc'[x] \in Open
    BY <1>6, <1>a, Zenon
  <1>12. Regs(c)' /\ Frames(x)'
    <2>1. pc'[x] \notin Masked /\ pc'[x] \notin {"user", "uservec", "save", "kerneltrap", "restore"}
      BY <1>11, Zenon DEF Open, Masked
    <2> QED
      BY <1>4, <2>1, Zenon DEF Regs, Frames
  <1>13. Resting(c)'
    BY <1>0, <1>4, <1>6, <1>a, ZenonT(40) DEF Resting
  <1>14. ASSUME x \in Proc PROVE States(x)' /\ Locked(x)' /\ Sleeper(x)'
    <2>1. pc'[x] \notin {"scheduler", "exited", "while", "sleep"}
      BY <1>6, <1>11, <1>14, <1>a, NameAssumption, Zenon DEF Open
    <2>2. States(x)' /\ Locked(x)'
      BY <1>0, <1>1, <1>5, <1>14, <2>1, ZenonT(40) DEF States, Locked
    <2>3. Sleeper(x)'
      BY <1>0, <1>5, <1>10, <1>14, <2>1, SleeperKeeps, SMTT(30)
    <2> QED
      BY <2>2, <2>3, Zenon
  <1>15. /\ \A y \in Ctx : y # x => pc'[y] = pc[y] /\ frame'[y] = frame[y] /\ goal'[y] = goal[y]
         /\ cpu'[c].on = x /\ (x \in Proc => proc'[x].state = "RUNNING") /\ tickslock' = tickslock /\ ~panicked'
    BY <1>0, <1>1, <1>4, <1>5, <1>6, <1>8, ZenonT(40)
  <1>16. IndInv'
    BY <1>4, <1>9, <1>10, <1>12, <1>13, <1>14, <1>15, StepKeeps, Zenon
  <1> QED
    BY <1>4, <1>6, <1>16, Zenon

---------------------------------------------------------------------------
(* The switch to a process, kill and sleep                                 *)

\* The scheduler goes to a process that is on no CPU.
LEMMA SwtchKeeps ==
  ASSUME IndInv, NEW c \in Cpu, NEW p \in Proc, swtch(c, p)
  PROVE  IndInv'
  <1> DEFINE i == CASE pc[p] = "woken" -> 1 [] pc[p] = "forkret" -> cpu[c].sie [] OTHER -> 0
             r == [proc[p] EXCEPT !.state = "RUNNING"]
             R == [cpu[c] EXCEPT !.on = p, !.sie = i]
  <1>0. /\ TypeOK /\ ~panicked /\ Regs(c) /\ Resting(c) /\ cpu[c].on = c /\ pc[c] = "scheduler" /\ cpu[c] \in Registers
        /\ c \in Ctx /\ c \notin Proc /\ p \in Ctx /\ p # c /\ p \notin Cpu
        /\ States(p) /\ Locked(p) /\ Sleeper(p) /\ proc[p] \in Process /\ proc[p].state = "RUNNABLE"
    <2>1. /\ TypeOK /\ ~panicked /\ Regs(c) /\ Resting(c) /\ cpu[c].on = c /\ pc[c] = "scheduler" /\ cpu[c] \in Registers
          /\ c \in Ctx /\ c \notin Proc
      BY Here, Zenon DEF swtch, At
    <2>2. p \in Ctx /\ p # c /\ p \notin Cpu /\ States(p) /\ Locked(p) /\ Sleeper(p)
      BY <2>1, NameAssumption, Zenon DEF Ctx, IndInv
    <2>3. proc[p] \in Process
      BY <2>1, Zenon DEF TypeOK
    <2> QED
      BY <2>1, <2>2, <2>3, Zenon DEF swtch
  <1>a. /\ pc[p] \in {"forkret", "woken", "restore", "usertrapret"}
        /\ cpu[c].mode # "U" /\ cpu[c].stvec = "kernelvec" /\ cpu[c].tp = c
        /\ \A d \in Cpu : cpu[d].on # p
    <2>1. \A d \in Cpu : cpu[d].on = p => proc[p].state = "RUNNING"
      BY Zenon DEF IndInv, Apart
    <2>2. proc[p].state # "RUNNING"
      BY <1>0
    <2> QED
      BY <1>0, <2>1, <2>2 DEF States, Regs
  <1>1. i \in {0, 1} /\ (pc[p] = "restore" => i = 0)
    <2>1. cpu[c].sie \in {0, 1}
      BY <1>0, Zenon DEF Registers
    <2> QED
      BY <1>a, <2>1, Zenon
  <1>2. /\ proc' = [proc EXCEPT ![p] = r] /\ cpu' = [cpu EXCEPT ![c] = R]
        /\ pc' = pc /\ frame' = frame /\ ticks' = ticks /\ tickslock' = tickslock /\ goal' = goal /\ ~panicked'
    <2>1. proc' = [proc EXCEPT ![p] = r]
      BY Zenon DEF swtch
    <2>2. cpu' = [cpu EXCEPT ![c] = R]
      BY Zenon DEF swtch
    <2> QED
      BY <1>0, <2>1, <2>2, Zenon DEF swtch
  <1> HIDE DEF i
  <1>3. R \in Registers /\ r \in Process
    BY <1>0, <1>1, Zenon DEF Registers, Process
  <1>4. R.on = p /\ R.sie = i /\ R.mode = cpu[c].mode /\ R.stvec = cpu[c].stvec /\ R.tp = cpu[c].tp
    BY <1>0, Zenon DEF Registers
  <1>5. /\ r.state = "RUNNING" /\ r.n = proc[p].n /\ r.ticks0 = proc[p].ticks0 /\ r.slept = proc[p].slept
        /\ r.ret = proc[p].ret /\ r.killed = proc[p].killed /\ r.seen = proc[p].seen
        /\ r.epc = proc[p].epc
    BY <1>0, Zenon DEF Process
  <1> HIDE DEF r, R
  <1>6. /\ proc' \in [Proc -> Process] /\ proc'[p] = r /\ \A q \in Proc : q # p => proc'[q] = proc[q]
        /\ cpu' \in [Cpu -> Registers] /\ cpu'[c] = R /\ \A d \in Cpu : d # c => cpu'[d] = cpu[d]
    BY <1>0, <1>2, <1>3, Zenon DEF TypeOK
  <1>7. TypeOK'
    BY <1>0, <1>2, <1>6, Zenon DEF TypeOK
  <1>8. cpu'[c].on = p /\ cpu'[c].mode # "U" /\ cpu'[c].stvec = "kernelvec" /\ cpu'[c].tp = c
    BY <1>4, <1>6, <1>a, Zenon
  <1>9. Apart'
    <2>1. \A d \in Cpu : d # c => cpu'[d].on = cpu[d].on /\ cpu[d].on # p
      BY <1>6, <1>a, Zenon
    <2>2. \A d \in Cpu : cpu[d].on \in Proc => cpu[d].on # p /\ proc'[cpu[d].on].state = "RUNNING"
      BY <1>6, <1>a, Zenon DEF IndInv, Apart
    <2>3. proc'[p].state = "RUNNING" /\ p \notin Cpu
      BY <1>0, <1>5, <1>6, Zenon
    <2> QED
      BY <1>8, <2>1, <2>2, <2>3 DEF IndInv, Apart
  <1>10. Regs(c)' /\ Resting(c)'
    <2>1. pc'[p] = pc[p] /\ pc'[c] = "scheduler"
      BY <1>0, <1>2
    <2>2. pc[p] = "restore" => cpu'[c].sie = 0
      BY <1>1, <1>4, <1>6, ZenonT(40)
    <2> QED
      BY <1>8, <1>a, <2>1, <2>2, Zenon DEF Regs, Resting, Masked
  <1>11. ASSUME NEW d \in Cpu, d # c PROVE Regs(d)' /\ Resting(d)'
    <2>1. cpu'[d] = cpu[d] /\ cpu[d].on # p /\ pc' = pc /\ goal' = goal /\ Regs(d) /\ Resting(d)
      BY <1>2, <1>6, <1>11, <1>a, SMTT(30) DEF IndInv
    <2>2. cpu[d].on \in Proc => proc'[cpu[d].on] = proc[cpu[d].on]
      BY <1>6, <2>1
    <2>3. cpu[d].on \notin Proc => pc[cpu[d].on] \notin {"user", "uservec", "save"}
      BY Here, Zenon
    <2> QED
      BY <2>1, <2>2, <2>3, ZenonT(40) DEF Regs, Resting
  <1>12. \A x \in Ctx : Frames(x)'
    BY <1>2, Zenon DEF IndInv, Frames
  <1>13. States(p)' /\ Locked(p)'
    BY <1>0, <1>2, <1>5, <1>6, <1>a, Zenon DEF States, Locked
  <1>14. Sleeper(p)'
    <2>1. Counted(p)
      BY <1>2, <1>5, <1>6, Zenon DEF Counted
    <2> QED
      BY <1>0, <1>2, <1>5, <1>6, <2>1, SleeperKeeps, Zenon
  <1>15. ASSUME NEW q \in Proc, q # p PROVE States(q)' /\ Locked(q)' /\ Sleeper(q)'
    <2>1. proc'[q] = proc[q] /\ States(q) /\ Locked(q) /\ Sleeper(q)
      BY <1>6, <1>15, Zenon DEF IndInv
    <2> QED
      BY <1>2, <2>1, Zenon DEF States, Locked, Sleeper, TooEarly
  <1> QED
    BY <1>2, <1>7, <1>9, <1>10, <1>11, <1>12, <1>13, <1>14, <1>15, Zenon DEF IndInv

\* kill() marks a process, which may be this one, and wakes it up.
LEMMA KillKeeps ==
  ASSUME IndInv, NEW c \in Cpu, NEW x, x = cpu[c].on, NEW q \in Proc, sys_kill(c, q)
  PROVE  IndInv'
  <1> DEFINE st == IF proc[q].state = "SLEEPING" THEN "RUNNABLE" ELSE proc[q].state
             r == [proc[q] EXCEPT !.killed = TRUE, !.state = st]
  <1>0. /\ TypeOK /\ ~panicked /\ Regs(c) /\ Resting(c) /\ pc[x] = "syscall" /\ x \in Ctx /\ c \in Ctx /\ x \in Proc /\ x # c
        /\ States(x) /\ Locked(x) /\ Sleeper(x) /\ proc[x].state = "RUNNING" /\ proc[q] \in Process
    <2>1. pc[x] = "syscall" /\ TypeOK
      BY Here, Zenon DEF sys_kill, At
    <2>2. proc[q] \in Process
      BY <2>1, Zenon DEF TypeOK
    <2> QED
      BY <2>1, <2>2, Here, Zenon
  <1>1. /\ proc' = [proc EXCEPT ![q] = r] /\ pc' = [pc EXCEPT ![x] = "handled"] /\ cpu' = cpu
        /\ frame' = frame /\ ticks' = ticks /\ tickslock' = tickslock /\ goal' = goal /\ ~panicked'
    <2>1. proc' = [proc EXCEPT ![q] = r]
      BY Zenon DEF sys_kill
    <2> QED
      BY <1>0, <2>1, Zenon DEF sys_kill, Goto
  <1>2. r \in Process
    <2>1. st \in {"RUNNABLE", "RUNNING", "SLEEPING", "ZOMBIE"}
      BY <1>0, Zenon DEF Process
    <2> HIDE DEF st
    <2> QED
      BY <1>0, <2>1, Zenon DEF Process
  <1>3. /\ r.state = st /\ r.n = proc[q].n /\ r.ticks0 = proc[q].ticks0 /\ r.slept = proc[q].slept
        /\ r.ret = proc[q].ret /\ r.killed /\ r.seen = proc[q].seen
        /\ r.epc = proc[q].epc /\ r.hartid = proc[q].hartid /\ r.upc = proc[q].upc
    <2> HIDE DEF st
    <2> QED
      BY <1>0, Zenon DEF Process
  <1> HIDE DEF r
  <1>4. proc' \in [Proc -> Process] /\ proc'[q] = r /\ \A p \in Proc : p # q => proc'[p] = proc[p]
    BY <1>0, <1>1, <1>2, Zenon DEF TypeOK
  <1>5. pc' \in [Ctx -> Label] /\ pc'[x] = "handled" /\ \A y \in Ctx : y # x => pc'[y] = pc[y]
    <2>1. "handled" \in Label
      BY Zenon DEF Label, Open
    <2> QED
      BY <1>0, <1>1, <2>1, Zenon DEF TypeOK
  <1>6. TypeOK'
    BY <1>0, <1>1, <1>4, <1>5, Zenon DEF TypeOK
  <1>7. \A p \in Proc : Kept(p) /\ Counted(p) /\ Woken(p)
    <2>1. Kept(q) /\ Counted(q) /\ Woken(q)
      BY <1>1, <1>3, <1>4, Zenon DEF Kept, Counted, Woken
    <2>2. ASSUME NEW p \in Proc, p # q PROVE Kept(p) /\ Counted(p) /\ Woken(p)
      BY <1>1, <1>4, <2>2, Zenon DEF Kept, Counted, Woken
    <2> QED
      BY <2>1, <2>2, Zenon
  <1>8. proc'[x].state = "RUNNING" /\ proc'[x].epc = goal[x].upc
    BY <1>0, <1>7, ZenonT(40) DEF Woken, Kept, States
  <1>9. Regs(c)' /\ Resting(c)' /\ Frames(x)'
    BY <1>0, <1>1, <1>5, ZenonT(40) DEF Regs, Resting, Frames, Masked
  <1>10. States(x)' /\ Locked(x)'
    BY <1>0, <1>1, <1>5, <1>8, ZenonT(40) DEF States, Locked
  <1>11. Sleeper(x)'
    BY <1>0, <1>5, <1>7, <1>8, SleeperKeeps, ZenonT(40)
  <1>12. /\ \A d \in Cpu : d # c => cpu'[d] = cpu[d]
         /\ \A y \in Ctx : y # x => pc'[y] = pc[y] /\ frame'[y] = frame[y] /\ goal'[y] = goal[y]
         /\ cpu'[c].on = x /\ tickslock' = tickslock /\ ~panicked'
    BY <1>1, <1>5
  <1> QED
    BY <1>6, <1>7, <1>8, <1>9, <1>10, <1>11, <1>12, StepKeeps, Zenon

\* A step of sys_sleep: between its tests and sleep(), the process holds tickslock.
LEMMA SleepStep ==
  ASSUME IndInv, NEW c \in Cpu, NEW x, x = cpu[c].on, pc[x] \in {"syscall", "while", "sleep", "woken"},
         NEW l \in {"while", "sleep", "woken", "handled"}, pc' = [pc EXCEPT ![x] = l],
         NEW r \in Process, proc' = [proc EXCEPT ![x] = r], r.epc = proc[x].epc,
         cpu' \in [Cpu -> Registers], \A d \in Cpu : d # c => cpu'[d] = cpu[d],
         cpu'[c].mode = cpu[c].mode, cpu'[c].stvec = cpu[c].stvec, cpu'[c].tp = cpu[c].tp,
         \/ cpu'[c].on = c /\ l = "woken" /\ r.state = "SLEEPING"
         \/ cpu'[c].on = x /\ r.state = "RUNNING",
         l \in {"while", "sleep"} => cpu'[c].sie = 0,
         tickslock \in {None, x}, tickslock' = (IF l \in {"while", "sleep"} THEN x ELSE None),
         frame' = frame, ticks' = ticks, goal' = goal, panicked' = panicked, Sleeper(x)'
  PROVE  IndInv'
  <1>0. /\ TypeOK /\ ~panicked /\ Regs(c) /\ Resting(c) /\ x \in Ctx /\ c \in Ctx /\ x \in Proc /\ x # c /\ States(x)
    BY Here, SMTT(30)
  <1>1. /\ cpu[c].mode # "U" /\ cpu[c].stvec = "kernelvec" /\ cpu[c].tp = c /\ pc[c] = "scheduler"
        /\ proc[x].epc = goal[x].upc
    BY <1>0 DEF Regs, Resting, States
  <1>2. pc' \in [Ctx -> Label] /\ pc'[x] = l /\ \A y \in Ctx : y # x => pc'[y] = pc[y]
    <2>1. l \in Label
      BY DEF Label, Open, Masked
    <2> QED
      BY <1>0, <2>1, ZenonT(40) DEF TypeOK
  <1>3. proc'[x] = r
    BY <1>0, Zenon DEF TypeOK
  <1>4. Regs(c)'
    <2>1. CASE cpu'[c].on = c
      <3>1. pc'[c] = "scheduler"
        BY <1>0, <1>1, <1>2, SMTT(30)
      <3> QED
        BY <1>1, <2>1, <3>1, Zenon DEF Regs, Masked
    <2>2. CASE cpu'[c].on = x
      BY <1>1, <1>2, <2>2, ZenonT(40) DEF Regs, Masked
    <2> QED
      BY <2>1, <2>2, Zenon
  <1>5. States(x)'
    BY <1>1, <1>2, <1>3 DEF States
  <1>6. Locked(x)'
    BY <1>0, <1>2, NameAssumption, Zenon DEF Locked
  <1>7. /\ x \in Proc /\ frame' \in [Ctx -> Frame] /\ \A y \in Ctx : y # x => frame'[y] = frame[y]
        /\ tickslock' \in Proc \cup {None} /\ tickslock' \in {None, x} /\ ~panicked'
    BY <1>0, Zenon DEF TypeOK
  <1>8. pc'[x] \notin {"kerneltrap", "restore"}
    BY <1>2, Zenon
  <1>9. cpu'[c].on = c \/ (cpu'[c].on = x /\ r.state = "RUNNING")
    BY ZenonT(40)
  <1> QED
    BY <1>2, <1>4, <1>5, <1>6, <1>7, <1>8, <1>9, Own, Zenon

\* sys_sleep notes the time and takes tickslock.
LEMMA SysSleepKeeps ==
  ASSUME IndInv, NEW c \in Cpu, NEW x, x = cpu[c].on, NEW n \in 0 .. WRAP - 1, sys_sleep(c, n)
  PROVE  IndInv'
  <1>0. TypeOK /\ pc[x] = "syscall" /\ x \in Proc /\ proc[x] \in Process /\ proc[x].state = "RUNNING" /\ ticks \in Tick
    BY Here, Zenon DEF sys_sleep, At, TypeOK
  <1> DEFINE r == [proc[x] EXCEPT !.n = n, !.ticks0 = ticks, !.slept = 0, !.ret = None]
  <1>1. /\ proc' = [proc EXCEPT ![x] = r] /\ cpu' = SetSie(c, 0) /\ pc' = [pc EXCEPT ![x] = "while"]
        /\ tickslock = None /\ tickslock' = x /\ frame' = frame /\ ticks' = ticks /\ goal' = goal /\ panicked' = panicked
    BY Zenon DEF sys_sleep, SetSie, Goto
  <1>2. r \in Process
    <2>1. n \in Tick /\ 0 \in 0 .. WRAP
      BY SizeAssumption DEF Tick
    <2> QED
      BY <1>0, <2>1, Zenon DEF Process
  <1>3. r.n = n /\ r.ticks0 = ticks /\ r.slept = 0 /\ r.ret = None /\ r.state = "RUNNING" /\ r.epc = proc[x].epc
    BY <1>0, Zenon DEF Process
  <1> HIDE DEF r
  <1>4. /\ cpu' \in [Cpu -> Registers] /\ \A d \in Cpu : d # c => cpu'[d] = cpu[d]
        /\ cpu'[c].mode = cpu[c].mode /\ cpu'[c].stvec = cpu[c].stvec /\ cpu'[c].tp = cpu[c].tp
        /\ cpu'[c].on = x /\ cpu'[c].sie = 0
    <2>1. TypeOK /\ 0 \in {0, 1} /\ cpu' = SetSie(c, 0)
      BY <1>0, <1>1, Zenon
    <2> QED
      BY <2>1, SieValues
  <1>5. proc'[x] = r /\ pc'[x] = "while"
    BY <1>0, <1>1, Here, Zenon DEF TypeOK
  <1>6. Sleeper(x)'
    <2>1. (ticks + WRAP - ticks) % WRAP = 0
      BY <1>0, SizeAssumption, Difference DEF Tick
    <2> QED
      BY <1>1, <1>3, <1>5, <2>1, NameAssumption, Zenon DEF Sleeper
  <1>7. pc[x] \in {"syscall", "while", "sleep", "woken"} /\ "while" \in {"while", "sleep", "woken", "handled"}
    BY <1>0, Zenon
  <1> QED
    BY <1>1, <1>2, <1>3, <1>4, <1>6, <1>7, SleepStep, ZenonT(40)

\* The test of the loop: too early, and the process is to sleep ...
LEMMA TestKeeps ==
  ASSUME IndInv, NEW c \in Cpu, NEW x, x = cpu[c].on, pc[x] = "while", TooEarly(x),
         proc' = [proc EXCEPT ![x].seen = ticks], cpu' = cpu, pc' = [pc EXCEPT ![x] = "sleep"], tickslock' = tickslock,
         frame' = frame, ticks' = ticks, goal' = goal, panicked' = panicked
  PROVE  IndInv'
  <1>0. /\ TypeOK /\ Regs(c) /\ x \in Proc /\ x \in Ctx /\ proc[x] \in Process /\ proc[x].state = "RUNNING" /\ ticks \in Tick
        /\ tickslock = x /\ Sleeper(x)
    BY Here DEF TypeOK, Locked
  <1> DEFINE r == [proc[x] EXCEPT !.seen = ticks]
  <1>1. r \in Process
    BY <1>0, Zenon DEF Process
  <1>2. /\ r.n = proc[x].n /\ r.ticks0 = proc[x].ticks0 /\ r.slept = proc[x].slept /\ r.ret = proc[x].ret
        /\ r.killed = proc[x].killed /\ r.seen = ticks /\ r.state = "RUNNING" /\ r.epc = proc[x].epc
    BY <1>0, Zenon DEF Process
  <1>3. proc' = [proc EXCEPT ![x] = r] /\ proc'[x] = r
    BY <1>0, Zenon DEF TypeOK
  <1> HIDE DEF r
  <1>4. pc'[x] = "sleep" /\ cpu[c].sie = 0 /\ cpu' \in [Cpu -> Registers]
    <2>1. pc'[x] = "sleep" /\ cpu' \in [Cpu -> Registers]
      BY <1>0, Zenon DEF TypeOK
    <2> QED
      BY <1>0, <2>1, Zenon DEF Regs, Masked
  <1>5. Sleeper(x)'
    BY <1>0, <1>2, <1>3, ZenonT(40) DEF Sleeper, TooEarly
  <1>6. pc[x] \in {"syscall", "while", "sleep", "woken"} /\ "sleep" \in {"while", "sleep", "woken", "handled"}
    BY Zenon
  <1>7. tickslock' = (IF "sleep" \in {"while", "sleep"} THEN x ELSE None) /\ tickslock \in {None, x}
    BY <1>0, Zenon
  <1>8. (\A d \in Cpu : d # c => cpu'[d] = cpu[d]) /\ cpu'[c] = cpu[c]
    BY ZenonT(40)
  <1> QED
    BY <1>1, <1>2, <1>3, <1>4, <1>5, <1>6, <1>7, <1>8, SleepStep, ZenonT(40)

\* ... or its time has come, or it was killed.
LEMMA WakeKeeps ==
  ASSUME IndInv, NEW c \in Cpu, NEW x, x = cpu[c].on, pc[x] = "while", ~TooEarly(x) \/ proc[x].killed,
         proc' = [proc EXCEPT ![x].ret = IF TooEarly(x) THEN "-1" ELSE "0"], cpu' = SetSie(c, 1),
         pc' = [pc EXCEPT ![x] = "handled"], tickslock' = None,
         frame' = frame, ticks' = ticks, goal' = goal, panicked' = panicked
  PROVE  IndInv'
  <1>0. /\ TypeOK /\ x \in Proc /\ x \in Ctx /\ proc[x] \in Process /\ proc[x].state = "RUNNING" /\ ticks \in Tick
        /\ tickslock = x /\ Sleeper(x)
    BY Here DEF TypeOK, Locked
  <1> DEFINE v == IF TooEarly(x) THEN "-1" ELSE "0"
             r == [proc[x] EXCEPT !.ret = v]
  <1>1. r \in Process
    <2>1. v \in {"0", "-1", None}
      BY Zenon
    <2> HIDE DEF v
    <2> QED
      BY <1>0, <2>1, Zenon DEF Process
  <1>2. /\ r.n = proc[x].n /\ r.ticks0 = proc[x].ticks0 /\ r.slept = proc[x].slept /\ r.ret = v
        /\ r.killed = proc[x].killed /\ r.seen = proc[x].seen /\ r.state = "RUNNING" /\ r.epc = proc[x].epc
    <2> HIDE DEF v
    <2> QED
      BY <1>0, Zenon DEF Process
  <1>3. proc' = [proc EXCEPT ![x] = r] /\ proc'[x] = r
    BY <1>0, Zenon DEF TypeOK
  <1> HIDE DEF r
  <1>4. /\ cpu' \in [Cpu -> Registers] /\ \A d \in Cpu : d # c => cpu'[d] = cpu[d]
        /\ cpu'[c].mode = cpu[c].mode /\ cpu'[c].stvec = cpu[c].stvec /\ cpu'[c].tp = cpu[c].tp
        /\ cpu'[c].on = x
    <2>1. TypeOK /\ 1 \in {0, 1} /\ cpu' = SetSie(c, 1)
      BY <1>0, Zenon
    <2> QED
      BY <2>1, SieValues
  <1>5. pc'[x] = "handled"
    BY <1>0, Zenon DEF TypeOK
  <1>6. Sleeper(x)'
    <2>0. /\ proc[x].n \in 0 .. WRAP - 1 /\ proc[x].ticks0 \in 0 .. WRAP - 1 /\ proc[x].slept \in 0 .. WRAP
          /\ ticks \in 0 .. WRAP - 1 /\ WRAP \in Nat /\ WRAP > 0
      BY <1>0, SizeAssumption, SMTT(30) DEF Process, Tick
    <2>1. CASE TooEarly(x)
      <3>1. v = "-1" /\ proc[x].killed
        BY <2>1, ZenonT(40)
      <3> QED
        BY <1>0, <1>2, <1>3, <1>5, <3>1, ZenonT(40) DEF Sleeper
    <2>2. CASE ~TooEarly(x)
      <3>1. v = "0"
        BY <2>2, ZenonT(40)
      <3> DEFINE e == (ticks + WRAP - proc[x].ticks0) % WRAP
      <3>2. e \in Nat /\ ~(e < proc[x].n)
        <4>1. ~(e < proc[x].n)
          BY <2>2, Zenon DEF TooEarly
        <4>2. e \in Nat
          BY <2>0
        <4> QED
          BY <4>1, <4>2, Zenon
      <3>3. proc[x].n # 0 /\ proc[x].slept < WRAP => proc[x].slept = e
        BY <1>0, Zenon DEF Sleeper
      <3> HIDE DEF e
      <3>4. proc[x].slept >= proc[x].n
        BY <2>0, <3>2, <3>3
      <3> QED
        BY <1>0, <1>2, <1>3, <1>5, <3>1, <3>4, ZenonT(40) DEF Sleeper
    <2> QED
      BY <2>1, <2>2, Zenon
  <1>7. pc[x] \in {"syscall", "while", "sleep", "woken"} /\ "handled" \in {"while", "sleep", "woken", "handled"}
    BY Zenon
  <1>8. tickslock' = (IF "handled" \in {"while", "sleep"} THEN x ELSE None) /\ tickslock \in {None, x}
    BY <1>0, ZenonT(40)
  <1> QED
    BY <1>1, <1>2, <1>3, <1>4, <1>6, <1>7, <1>8, SleepStep, ZenonT(40)

\* sleep() gives tickslock and the CPU away; woken up, it takes tickslock again.
LEMMA SleepKeeps ==
  ASSUME IndInv, NEW c \in Cpu, NEW x, x = cpu[c].on, sleep(c)
  PROVE  IndInv'
  <1>0. /\ TypeOK /\ x \in Proc /\ x \in Ctx /\ c \in Ctx /\ proc[x] \in Process /\ pc[x] = "sleep"
        /\ tickslock = x /\ Locked(x) /\ Sleeper(x)
    BY Here, Zenon DEF Locked, sleep, At
  <1> DEFINE r == [proc[x] EXCEPT !.state = "SLEEPING"]
  <1>1. /\ proc' = [proc EXCEPT ![x] = r] /\ cpu' = SetOn(c, c) /\ pc' = [pc EXCEPT ![x] = "woken"]
        /\ tickslock' = None /\ frame' = frame /\ ticks' = ticks /\ goal' = goal /\ panicked' = panicked
    BY Zenon DEF sleep, SetOn, Goto
  <1>2. r \in Process
    BY <1>0, Zenon DEF Process
  <1>3. /\ r.n = proc[x].n /\ r.ticks0 = proc[x].ticks0 /\ r.slept = proc[x].slept /\ r.ret = proc[x].ret
        /\ r.killed = proc[x].killed /\ r.seen = proc[x].seen /\ r.state = "SLEEPING" /\ r.epc = proc[x].epc
    BY <1>0, Zenon DEF Process
  <1> HIDE DEF r
  <1>4. proc'[x] = r /\ pc'[x] = "woken"
    BY <1>0, <1>1, Zenon DEF TypeOK
  <1>5. /\ cpu' \in [Cpu -> Registers] /\ \A d \in Cpu : d # c => cpu'[d] = cpu[d]
        /\ cpu'[c].mode = cpu[c].mode /\ cpu'[c].stvec = cpu[c].stvec /\ cpu'[c].tp = cpu[c].tp
        /\ cpu'[c].on = c
    <2>1. TypeOK /\ c \in Ctx /\ cpu' = SetOn(c, c)
      BY <1>0, <1>1, Zenon
    <2> QED
      BY <2>1, OnValues
  <1>6. Sleeper(x)'
    <2>1. Counted(x)
      BY <1>1, <1>3, <1>4, Zenon DEF Counted
    <2> QED
      BY <1>0, <1>4, <2>1, SleeperKeeps, Zenon
  <1>7. pc[x] \in {"syscall", "while", "sleep", "woken"} /\ "woken" \in {"while", "sleep", "woken", "handled"}
    BY <1>0, Zenon
  <1>8. tickslock' = (IF "woken" \in {"while", "sleep"} THEN x ELSE None) /\ tickslock \in {None, x}
    BY <1>0, <1>1, ZenonT(40)
  <1> QED
    BY <1>1, <1>2, <1>3, <1>5, <1>6, <1>7, <1>8, SleepStep, ZenonT(40)

LEMMA SleepEndKeeps ==
  ASSUME IndInv, NEW c \in Cpu, NEW x, x = cpu[c].on, sleep_end(c)
  PROVE  IndInv'
  <1>0. /\ TypeOK /\ x \in Proc /\ x \in Ctx /\ proc[x] \in Process /\ pc[x] = "woken"
        /\ Sleeper(x) /\ proc[x].state = "RUNNING"
    BY Here, Zenon DEF sleep_end, At
  <1> DEFINE r == [proc[x] EXCEPT !.seen = None]
  <1>1. /\ proc' = [proc EXCEPT ![x] = r] /\ cpu' = SetSie(c, 0) /\ pc' = [pc EXCEPT ![x] = "while"]
        /\ tickslock = None /\ tickslock' = x /\ frame' = frame /\ ticks' = ticks /\ goal' = goal /\ panicked' = panicked
    BY Zenon DEF sleep_end, SetSie, Goto
  <1>2. r \in Process
    BY <1>0, Zenon DEF Process
  <1>3. /\ r.n = proc[x].n /\ r.ticks0 = proc[x].ticks0 /\ r.slept = proc[x].slept /\ r.ret = proc[x].ret
        /\ r.killed = proc[x].killed /\ r.state = "RUNNING" /\ r.epc = proc[x].epc
    BY <1>0, Zenon DEF Process
  <1> HIDE DEF r
  <1>4. proc'[x] = r /\ pc'[x] = "while"
    BY <1>0, <1>1, Zenon DEF TypeOK
  <1>5. /\ cpu' \in [Cpu -> Registers] /\ \A d \in Cpu : d # c => cpu'[d] = cpu[d]
        /\ cpu'[c].mode = cpu[c].mode /\ cpu'[c].stvec = cpu[c].stvec /\ cpu'[c].tp = cpu[c].tp
        /\ cpu'[c].on = x /\ cpu'[c].sie = 0
    <2>1. TypeOK /\ 0 \in {0, 1} /\ cpu' = SetSie(c, 0)
      BY <1>0, <1>1, Zenon
    <2> QED
      BY <2>1, SieValues
  <1>6. Sleeper(x)'
    <2>1. /\ proc'[x].n = proc[x].n /\ proc'[x].ticks0 = proc[x].ticks0 /\ proc'[x].slept = proc[x].slept
          /\ proc'[x].ret = proc[x].ret /\ proc'[x].killed = proc[x].killed
          /\ proc'[x].state # "SLEEPING" /\ pc'[x] # "sleep" /\ ticks' = ticks
      BY <1>1, <1>3, <1>4, Zenon
    <2> QED
      BY <1>0, <2>1, Zenon DEF Sleeper
  <1>7. pc[x] \in {"syscall", "while", "sleep", "woken"} /\ "while" \in {"while", "sleep", "woken", "handled"}
    BY <1>0, Zenon
  <1>8. tickslock' = (IF "while" \in {"while", "sleep"} THEN x ELSE None) /\ tickslock \in {None, x}
    BY <1>1, Zenon
  <1> QED
    BY <1>1, <1>2, <1>3, <1>5, <1>6, <1>7, <1>8, SleepStep, ZenonT(40)

\* The handler of a trap from user space.
LEMMA SaveEpcKeeps ==
  ASSUME IndInv, NEW c \in Cpu, NEW x, x = cpu[c].on, save_epc(c)
  PROVE  IndInv'
  <1> DEFINE why == cpu[c].cause
  <1>0. /\ TypeOK /\ pc[x] = "save" /\ x \in Proc /\ cpu[c] \in Registers /\ proc[x].upc \in Upc /\ cpu[c].sepc.at = proc[x].upc
        /\ frame' = frame /\ tickslock' = tickslock /\ goal' = goal /\ ~panicked'
    <2>1. pc[x] = "save" /\ ~panicked
      BY Zenon DEF save_epc, At
    <2>2. TypeOK /\ x \in Proc /\ cpu[c] \in Registers /\ Regs(c) /\ proc[x] \in Process
      BY <2>1, Here, Zenon
    <2>3. proc[x].upc \in Upc
      BY <2>2, Zenon DEF Process
    <2>4. cpu[c].sepc.at = proc[x].upc
      BY <2>1, <2>2, Zenon DEF Regs
    <2>5. frame' = frame /\ tickslock' = tickslock /\ goal' = goal /\ panicked' = panicked
      BY Zenon DEF save_epc
    <2> QED
      BY <2>1, <2>2, <2>3, <2>4, <2>5, Zenon
  <1>1. CASE /\ proc' = Exited(proc, x) /\ cpu' = [cpu EXCEPT ![c].on = c] /\ pc' = [pc EXCEPT ![x] = "exited"]
             /\ ticks' = ticks
    <2>1. cpu' = SetOn(c, c) /\ pc[x] \in {"save", "handled"}
      BY <1>0, <1>1, Zenon DEF SetOn
    <2> QED
      BY <1>0, <1>1, <2>1, ExitKeeps, Zenon
  <1>2. CASE /\ why = "ecall"
             /\ proc' = [proc EXCEPT ![x] = [@ EXCEPT !.epc = After(cpu[c].sepc.at), !.timer = FALSE]]
             /\ cpu' = [cpu EXCEPT ![c].sie = 1] /\ pc' = [pc EXCEPT ![x] = "syscall"] /\ ticks' = ticks
    <2>1. /\ why \in {"ecall", "fault"}
          /\ proc' = [proc EXCEPT ![x] = IF why = "ecall" THEN [@ EXCEPT !.epc = After(cpu[c].sepc.at), !.timer = FALSE]
                                         ELSE [@ EXCEPT !.epc = cpu[c].sepc.at, !.timer = FALSE, !.killed = TRUE]]
          /\ cpu' = (IF why = "ecall" THEN SetSie(c, 1) ELSE cpu)
          /\ pc' = [pc EXCEPT ![x] = IF why = "ecall" THEN "syscall" ELSE "handled"]
      BY <1>2, Zenon DEF SetSie
    <2> QED
      BY <1>0, <1>2, <2>1, SaveKeeps, Zenon
  <1>3. CASE /\ why \in Interrupts /\ devintr(c)
             /\ proc' = [Served(c) EXCEPT ![x] = [@ EXCEPT !.epc = cpu[c].sepc.at, !.timer = (why = "timer")]]
             /\ cpu' = cpu /\ pc' = [pc EXCEPT ![x] = "handled"]
    <2> DEFINE s == Served(c)
               r == [s[x] EXCEPT !.epc = cpu[c].sepc.at, !.timer = (why = "timer")]
    <2>1. s \in [Proc -> Process] /\ s[x] \in Process
      BY <1>0, <1>3, ServedValues, Zenon
    <2>2. proc' = [s EXCEPT ![x] = r]
      BY <1>3, Zenon
    <2> HIDE DEF s
    <2>3. r \in Process
      BY <1>0, <2>1, Zenon DEF Process
    <2>4. /\ r.state = s[x].state /\ r.n = s[x].n /\ r.ticks0 = s[x].ticks0 /\ r.slept = s[x].slept
          /\ r.ret = s[x].ret /\ r.killed = s[x].killed /\ r.seen = s[x].seen
          /\ r.epc = cpu[c].sepc.at
      BY <2>1, Zenon DEF Process
    <2>5. s = Served(c) /\ why = cpu[c].cause /\ why \in Interrupts
      BY <1>3, Zenon DEF s
    <2>6. /\ pc[x] = "save" /\ devintr(c) /\ cpu' = cpu /\ pc' = [pc EXCEPT ![x] = "handled"]
          /\ frame' = frame /\ tickslock' = tickslock /\ goal' = goal /\ ~panicked'
      BY <1>0, <1>3, Zenon
    <2> HIDE DEF r, why
    <2> QED
      BY <2>2, <2>3, <2>4, <2>5, <2>6, InterruptKeeps, Zenon
  <1>4. CASE /\ why = "fault"
             /\ proc' = [proc EXCEPT ![x] = [@ EXCEPT !.epc = cpu[c].sepc.at, !.timer = FALSE, !.killed = TRUE]]
             /\ cpu' = cpu /\ pc' = [pc EXCEPT ![x] = "handled"] /\ ticks' = ticks
    <2>0. why # "ecall"
      BY <1>4, Zenon
    <2>1. /\ why \in {"ecall", "fault"}
          /\ proc' = [proc EXCEPT ![x] = IF why = "ecall" THEN [@ EXCEPT !.epc = After(cpu[c].sepc.at), !.timer = FALSE]
                                         ELSE [@ EXCEPT !.epc = cpu[c].sepc.at, !.timer = FALSE, !.killed = TRUE]]
          /\ cpu' = (IF why = "ecall" THEN SetSie(c, 1) ELSE cpu)
          /\ pc' = [pc EXCEPT ![x] = IF why = "ecall" THEN "syscall" ELSE "handled"]
      BY <1>4, <2>0, Zenon
    <2> QED
      BY <1>0, <1>4, <2>1, SaveKeeps, Zenon
  <1> QED
    BY <1>1, <1>2, <1>3, <1>4, Zenon DEF save_epc, Goto, Interrupts

\* The end of usertrap.
LEMMA UsertrapEndKeeps ==
  ASSUME IndInv, NEW c \in Cpu, NEW x, x = cpu[c].on, usertrap_end(c)
  PROVE  IndInv'
  <1>0. /\ pc[x] = "handled" /\ ~panicked'
        /\ frame' = frame /\ ticks' = ticks /\ tickslock' = tickslock /\ goal' = goal
    BY Zenon DEF usertrap_end, At
  <1>1. CASE proc' = Exited(proc, x) /\ cpu' = [cpu EXCEPT ![c].on = c] /\ pc' = [pc EXCEPT ![x] = "exited"]
    <2>1. cpu' = SetOn(c, c) /\ pc[x] \in {"save", "handled"}
      BY <1>0, <1>1, Zenon DEF SetOn
    <2> QED
      BY <1>0, <1>1, <2>1, ExitKeeps, Zenon
  <1>2. CASE /\ proc' = [Returned(x) EXCEPT ![x].state = "RUNNABLE"]
             /\ cpu' = [cpu EXCEPT ![c].on = c] /\ pc' = [pc EXCEPT ![x] = "usertrapret"]
    <2>1. /\ "RUNNABLE" \in {"RUNNING", "RUNNABLE"} /\ "RUNNABLE" # "RUNNING"
          /\ cpu' = SetOn(c, c)
      BY <1>2, Zenon DEF SetOn
    <2>2. /\ proc' = IF "RUNNABLE" = "RUNNING" THEN Returned(x) ELSE [Returned(x) EXCEPT ![x].state = "RUNNABLE"]
          /\ cpu' = IF "RUNNABLE" = "RUNNING" THEN cpu ELSE SetOn(c, c)
      BY <1>2, <2>1, Zenon
    <2> QED
      BY <1>0, <1>2, <2>1, <2>2, HandledKeeps, Zenon
  <1>3. CASE proc' = Returned(x) /\ cpu' = cpu /\ pc' = [pc EXCEPT ![x] = "usertrapret"]
    <2>1. /\ "RUNNING" \in {"RUNNING", "RUNNABLE"}
          /\ proc' = IF "RUNNING" = "RUNNING" THEN Returned(x) ELSE [Returned(x) EXCEPT ![x].state = "RUNNABLE"]
          /\ cpu' = IF "RUNNING" = "RUNNING" THEN cpu ELSE SetOn(c, c)
      BY <1>3, Zenon
    <2> QED
      BY <1>0, <1>3, <2>1, HandledKeeps, Zenon
  <1> QED
    BY <1>1, <1>2, <1>3, Zenon DEF usertrap_end, Goto

\* The loop of sys_sleep.
LEMMA SleepWhileKeeps ==
  ASSUME IndInv, NEW c \in Cpu, NEW x, x = cpu[c].on, sleep_while(c)
  PROVE  IndInv'
  <1>0. /\ pc[x] = "while" /\ frame' = frame /\ ticks' = ticks /\ goal' = goal /\ panicked' = panicked
    BY Zenon DEF sleep_while, At
  <1>1. CASE /\ TooEarly(x) /\ proc' = [proc EXCEPT ![x].seen = ticks] /\ pc' = [pc EXCEPT ![x] = "sleep"]
             /\ cpu' = cpu /\ tickslock' = tickslock
    BY <1>0, <1>1, TestKeeps, Zenon
  <1>2. CASE /\ ~TooEarly(x) \/ proc[x].killed
             /\ proc' = [proc EXCEPT ![x].ret = IF TooEarly(x) THEN "-1" ELSE "0"]
             /\ tickslock' = None /\ cpu' = [cpu EXCEPT ![c].sie = 1] /\ pc' = [pc EXCEPT ![x] = "handled"]
    <2>1. cpu' = SetSie(c, 1)
      BY <1>2, Zenon DEF SetSie
    <2> QED
      BY <1>0, <1>2, <2>1, WakeKeeps, Zenon
  <1> QED
    BY <1>1, <1>2, Zenon DEF sleep_while, Goto

---------------------------------------------------------------------------
(* The invariant, and what follows from it                                 *)

\* The kernel starts in a state that satisfies it.
LEMMA InitInv ==
  ASSUME Init
  PROVE  IndInv
  <1>0. 0 \in Cpu /\ 0 \in Tick /\ 0 \in 0 .. WRAP
    BY SizeAssumption DEF Cpu, Tick
  <1>1. /\ cpu = [c \in Cpu |-> [on |-> c, mode |-> "S", sie |-> 1, spp |-> "S", spie |-> 0, cause |-> None,
                                 sepc |-> [own |-> c, at |-> None], stvec |-> "kernelvec", tp |-> c]]
        /\ pc = [x \in Ctx |-> IF x \in Cpu THEN "scheduler" ELSE "forkret"]
        /\ frame = [x \in Ctx |-> NoFrame]
        /\ proc = [p \in Proc |-> [state |-> "RUNNABLE", killed |-> FALSE, epc |-> "even", hartid |-> 0, timer |-> FALSE, upc |-> "even",
                                   n |-> 0, ticks0 |-> 0, slept |-> 0, seen |-> None, ret |-> None]]
        /\ ticks = 0 /\ tickslock = None /\ ~panicked
        /\ goal = [x \in Ctx |-> [upc |-> "even", kpc |-> None]]
    BY Zenon DEF Init
  <1>2. ASSUME NEW c \in Cpu
        PROVE  /\ cpu[c].on = c /\ cpu[c].mode = "S" /\ cpu[c].stvec = "kernelvec" /\ cpu[c].tp = c
               /\ pc[c] = "scheduler" /\ c \notin Proc
    BY <1>1, NameAssumption, Zenon DEF Ctx
  <1>3. ASSUME NEW p \in Proc
        PROVE  /\ proc[p].state = "RUNNABLE" /\ proc[p].epc = "even" /\ proc[p].n = 0 /\ proc[p].slept = 0
               /\ proc[p].ret = None /\ pc[p] = "forkret" /\ goal[p].upc = "even"
    BY <1>1, NameAssumption, ZenonT(40) DEF Ctx
  <1>4. TypeOK
    <2>1. cpu \in [Cpu -> Registers]
      <3>1. ASSUME NEW c \in Cpu
            PROVE  [on |-> c, mode |-> "S", sie |-> 1, spp |-> "S", spie |-> 0, cause |-> None,
                    sepc |-> [own |-> c, at |-> None], stvec |-> "kernelvec", tp |-> c] \in Registers
        <4>1. [own |-> c, at |-> None] \in Sepc /\ c \in Ctx
          BY Zenon DEF Sepc, Ctx
        <4> QED
          BY <4>1, Zenon DEF Registers
      <3> QED
        BY <1>1, <3>1, Zenon
    <2>2. pc \in [Ctx -> Label]
      <3>1. "scheduler" \in Label /\ "forkret" \in Label
        BY Zenon DEF Label, Open
      <3> QED
        BY <1>1, <3>1, Zenon
    <2>3. frame \in [Ctx -> Frame]
      <3>1. [own |-> None, at |-> None] \in Sepc
        BY Zenon DEF Sepc
      <3>2. NoFrame \in Frame
        BY <3>1, Zenon DEF NoFrame, Frame
      <3> QED
        BY <1>1, <3>2, Zenon
    <2>4. proc \in [Proc -> Process]
      <3>1. [state |-> "RUNNABLE", killed |-> FALSE, epc |-> "even", hartid |-> 0, timer |-> FALSE, upc |-> "even",
             n |-> 0, ticks0 |-> 0, slept |-> 0, seen |-> None, ret |-> None] \in Process
        BY <1>0, Zenon DEF Process, Upc
      <3> QED
        BY <1>1, <3>1, Zenon
    <2>5. goal \in [Ctx -> [upc : Upc, kpc : Label \cup {None}]]
      BY <1>1, Zenon DEF Upc
    <2> QED
      BY <1>0, <1>1, <2>1, <2>2, <2>3, <2>4, <2>5, Zenon DEF TypeOK
  <1>5. Apart
    BY <1>2, SMTT(30) DEF Apart
  <1>6. \A c \in Cpu : Regs(c) /\ Resting(c)
    BY <1>2 DEF Regs, Resting, Masked
  <1>7. \A x \in Ctx : Frames(x)
    <2>1. \A x \in Ctx : pc[x] \in {"scheduler", "forkret"}
      BY <1>2, <1>3, Zenon DEF Ctx
    <2> QED
      BY <2>1, Zenon DEF Frames
  <1>8. \A p \in Proc : States(p) /\ Locked(p) /\ Sleeper(p)
    <2>1. ASSUME NEW p \in Proc PROVE States(p) /\ Locked(p)
      BY <1>1, <1>3, NameAssumption, ZenonT(40) DEF States, Locked
    <2>2. ASSUME NEW p \in Proc PROVE Sleeper(p)
      BY <1>3, NameAssumption, Zenon DEF Sleeper
    <2> QED
      BY <2>1, <2>2, Zenon
  <1> QED
    BY <1>1, <1>4, <1>5, <1>6, <1>7, <1>8, Zenon DEF IndInv

\* What one CPU may do.
Step(c) ==
  \/ Code(c) \/ Syscall(c)
  \/ \E why \in Interrupts : Interrupt(c, why)
  \/ \E why \in {"ecall", "fault"} : UserTrap(c, why)
  \/ \E p \in Proc : swtch(c, p)

\* Every step keeps it.
LEMMA StepInv ==
  ASSUME IndInv, NEW c \in Cpu, Step(c)
  PROVE  IndInv'
  <1>1. CASE usertrap(c) \/ save_epc(c) \/ usertrap_end(c) \/ forkret(c) \/ usertrapret(c) \/ userret(c)
    BY <1>1, UsertrapKeeps, SaveEpcKeeps, UsertrapEndKeeps, ReturnKeeps, UserretKeeps, Zenon
  <1>2. CASE kerneltrap(c) \/ kerneltrap_end(c) \/ scheduler(c) \/ sleep_while(c) \/ sleep(c) \/ sleep_end(c)
    BY <1>2, KerneltrapKeeps, RestoreKeeps, SchedulerKeeps, SleepWhileKeeps, SleepKeeps, SleepEndKeeps, Zenon
  <1>3. CASE Syscall(c)
    BY <1>3, UptimeKeeps, SysSleepKeeps, KillKeeps, Zenon DEF Syscall
  <1>4. CASE \E why \in Interrupts : Interrupt(c, why)
    BY <1>4, UserTrapKeeps, KernelTrapKeeps, Zenon DEF Interrupt
  <1>5. CASE \E why \in {"ecall", "fault"} : UserTrap(c, why)
    BY <1>5, UserTrapKeeps, Zenon
  <1>6. CASE \E p \in Proc : swtch(c, p)
    BY <1>6, SwtchKeeps, Zenon
  <1> QED
    BY <1>1, <1>2, <1>3, <1>4, <1>5, <1>6, Zenon DEF Step, Code

LEMMA NextInv ==
  ASSUME IndInv, [Next]_vars
  PROVE  IndInv'
  <1>1. CASE Next
    BY <1>1, StepInv, ZenonT(40) DEF Next, Step
  <1>2. CASE UNCHANGED vars
    <2>1. UNCHANGED <<cpu, pc, frame, proc, ticks, tickslock, panicked, goal>>
      BY <1>2, Zenon DEF vars
    <2>2. TypeOK' /\ ~panicked' /\ Apart'
      BY <2>1, Zenon DEF IndInv, TypeOK, Apart
    <2>3. ASSUME NEW c \in Cpu PROVE Regs(c)' /\ Resting(c)'
      BY <2>1, Zenon DEF IndInv, Regs, Resting
    <2>4. ASSUME NEW x \in Ctx PROVE Frames(x)'
      BY <2>1, Zenon DEF IndInv, Frames
    <2>5. ASSUME NEW p \in Proc PROVE States(p)' /\ Locked(p)' /\ Sleeper(p)'
      BY <2>1, Zenon DEF IndInv, States, Locked, Sleeper, TooEarly
    <2> QED
      BY <2>2, <2>3, <2>4, <2>5, Zenon DEF IndInv
  <1> QED
    BY <1>1, <1>2, Zenon

\* The registers, frames and trapframes are right, always: for any number of CPUs
\* and processes.
THEOREM Inductive == Spec => []IndInv
  <1>1. Init => IndInv
    BY InitInv, Zenon
  <1>2. IndInv /\ [Next]_vars => IndInv'
    BY NextInv, Zenon
  <1> QED
    BY <1>1, <1>2, PTL DEF Spec

\* Where a trap may come, stvec is right for it, and in the kernel tp is the number
\* of this CPU: usertrapret turns interrupts off before it changes stvec
\* (trap.c:97), and kernelvec does not restore tp.
THEOREM VectorRightHolds == Spec => []VectorRight
  <1>1. IndInv => VectorRight
    <2> SUFFICES ASSUME IndInv, NEW c \in Cpu
                 PROVE  /\ cpu[c].mode = "U" => cpu[c].stvec = "uservec"
                        /\ cpu[c].mode = "S" /\ cpu[c].sie = 1 => cpu[c].stvec = "kernelvec"
                        /\ cpu[c].mode = "S" => At(c, "uservec") \/ cpu[c].tp = c
      BY Zenon DEF VectorRight
    <2>1. Regs(c) /\ ~panicked
      BY ZenonT(40) DEF IndInv
    <2> QED
      BY <2>1 DEF Regs, Masked, At
  <1> QED
    BY <1>1, Inductive, PTL

\* No sleep(n) returns before n ticks unless the process is killed, and none sleeps
\* through a tick; for every WRAP, so also where ticks wraps.
THEOREM SleepOnTimeHolds == Spec => []SleepOnTime
  <1>1. IndInv => SleepOnTime
    BY DEF IndInv, Sleeper, SleepOnTime
  <1> QED
    BY <1>1, Inductive, PTL

\* A step of c moves the context on c and no other.
LEMMA PcStep ==
  ASSUME IndInv, NEW c \in Cpu, Step(c)
  PROVE  \A y \in Ctx : y # cpu[c].on => pc'[y] = pc[y]
  <1>1. pc' = pc \/ \E l : pc' = [pc EXCEPT ![cpu[c].on] = l]
    <2>1. CASE Code(c)
      BY <2>1, Zenon DEF Code, usertrap, save_epc, usertrap_end, forkret, usertrapret, userret, kerneltrap,
           kerneltrap_end, Sret, scheduler, sleep_while, sleep, sleep_end, Goto
    <2>2. CASE Syscall(c)
      BY <2>2, Zenon DEF Syscall, sys_uptime, sys_sleep, sys_kill, Goto
    <2>3. CASE \E why \in Interrupts : Interrupt(c, why)
      BY <2>3, Zenon DEF Interrupt, UserTrap, KernelTrap, Goto
    <2>4. CASE \E why \in {"ecall", "fault"} : UserTrap(c, why)
      BY <2>4, Zenon DEF UserTrap, Goto
    <2>5. CASE \E p \in Proc : swtch(c, p)
      BY <2>5, Zenon DEF swtch
    <2> QED
      BY <2>1, <2>2, <2>3, <2>4, <2>5, ZenonT(40) DEF Step
  <1>2. pc \in [Ctx -> Label]
    BY Zenon DEF IndInv, TypeOK
  <1> QED
    BY <1>1, <1>2, Zenon

\* Only an sret takes a context away from before it.
LEMMA SretStep ==
  ASSUME IndInv, NEW c \in Cpu, Step(c), NEW x, x = cpu[c].on
  PROVE  /\ pc[x] = "userret" => userret(c)
         /\ pc[x] = "restore" => kerneltrap_end(c)
  <1>0. Regs(c)
    BY ZenonT(40) DEF IndInv
  <1>1. CASE Code(c)
    BY <1>1, ZenonT(40) DEF Code, usertrap, save_epc, usertrap_end, forkret, usertrapret, userret, kerneltrap,
         kerneltrap_end, scheduler, sleep_while, sleep, sleep_end, At
  <1>2. CASE Syscall(c)
    BY <1>2, ZenonT(40) DEF Syscall, sys_uptime, sys_sleep, sys_kill, At
  <1>3. CASE \E why \in Interrupts : Interrupt(c, why)
    BY <1>0, <1>3 DEF Interrupt, UserTrap, KernelTrap, Regs, Masked
  <1>4. CASE \E why \in {"ecall", "fault"} : UserTrap(c, why)
    BY <1>0, <1>4, Zenon DEF UserTrap, Regs
  <1>5. CASE \E p \in Proc : swtch(c, p)
    BY <1>5, Zenon DEF swtch, At
  <1> QED
    BY <1>1, <1>2, <1>3, <1>4, <1>5, Zenon DEF Step

\* Whatever traps came in between, on whatever CPU the process is by then, an sret
\* goes back to where the context was interrupted, at its privilege; and the checks
\* of usertrap and kerneltrap never panic.
THEOREM TrapResumesHolds == Spec => TrapResumes
  <1> DEFINE Back(c) == LET x == cpu[c].on IN
                        /\ pc[x] = "userret" /\ pc'[x] # "userret" =>
                             cpu'[c].mode = "U" /\ pc'[x] = "user" /\ proc'[x].upc = goal[x].upc
                        /\ pc[x] = "restore" /\ pc'[x] # "restore" =>
                             cpu'[c].mode = "S" /\ pc'[x] = goal[x].kpc
             A == \A c \in Cpu : Back(c)
  <1>1. IndInv => ~panicked
    BY Zenon DEF IndInv
  <1>2. IndInv /\ [Next]_vars => [A]_vars
    <2> SUFFICES ASSUME IndInv, Next, NEW c \in Cpu PROVE Back(c)
      BY Zenon
    <2>1. PICK d \in Cpu : Step(d)
      BY Zenon DEF Next, Step
    <2>2. CASE d = c
      <3>1. Step(c)
        BY <2>1, <2>2, Zenon
      <3>2. pc[cpu[c].on] = "userret" => userret(c)
        BY <3>1, SretStep, Zenon
      <3>3. pc[cpu[c].on] = "restore" => kerneltrap_end(c)
        BY <3>1, SretStep, Zenon
      <3> QED
        BY <3>2, <3>3, UserretKeeps, RestoreKeeps, Zenon
    <2>3. CASE d # c
      <3>1. cpu[c].on \in Ctx /\ cpu[c].on # cpu[d].on
        <4>1. cpu[c].on \in Ctx
          BY Here
        <4> QED
          BY <2>3, <4>1, Zenon DEF IndInv, Apart
      <3>2. pc'[cpu[c].on] = pc[cpu[c].on]
        BY <2>1, <3>1, PcStep, Zenon
      <3> QED
        BY <3>2, Zenon
    <2> QED
      BY <2>2, <2>3, Zenon
  <1> QED
    BY <1>1, <1>2, Inductive, PTL DEF Spec, TrapResumes
=============================================================================
