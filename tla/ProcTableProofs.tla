-------------------------- MODULE ProcTableProofs ---------------------------
(***************************************************************************)
(* Proofs about module ProcTable, for a table of any size and any number   *)
(* of pids: NoLostExit and FreeSlotIdle, from an inductive invariant       *)
(* IndInv.                                                                 *)
(*                                                                         *)
(* Slots says what the state of a slot has to do with where its process    *)
(* is; Family that a parent is alive until reparent() has been through the *)
(* table; Loops what the loops under wait_lock have established so far.    *)
(* NotLost has the one moment at which a sleeping process has a ZOMBIE to  *)
(* reap: reparent() has given init the ZOMBIE and is about to wake init.   *)
(***************************************************************************)
EXTENDS ProcTable, TLAPS

\* Not exited, and not on its way into the table.
Alive(p) == state[p] \in {"SLEEPING", "RUNNABLE"}

\* Where wait_lock is held, and where exit() is under way.
Locking == {"reparent", "wakeinit", "wakeparent", "scan", "sleep"}
Exiting == {"exit", "reparent", "wakeinit", "wakeparent", "sched"}

\* The state of slot q and the whereabouts of its process.
SlotOf(q) ==
  /\ state[q] = "UNUSED" => pid[q] = 0 /\ parent[q] = None
  /\ state[q] \in {"UNUSED", "USED"} => pc[q] = "none"
  /\ state[q] = "ZOMBIE" => pc[q] \in {"sched", "none"}
  /\ state[q] = "SLEEPING" => pc[q] = "asleep"
  /\ state[q] = "RUNNABLE" => pc[q] \notin {"sched", "none"}
  /\ held[q] <=> pc[q] = "sched"
  /\ pc[q] = "asleep" => chan[q] = q
  /\ wait_lock = q <=> pc[q] \in Locking
  /\ pc[q] \in Exiting => q # initproc
  /\ q # initproc /\ state[q] \in {"SLEEPING", "RUNNABLE", "ZOMBIE"} => parent[q] # None

Slots == \A q \in Proc : SlotOf(q)

\* Alive, and not past reparent().
Parental(p) == Alive(p) /\ pc[p] # "wakeparent"

\* A parent is alive, and has not been through reparent(); init always is.
Family ==
  /\ Parental(initproc) /\ parent[initproc] = None
  /\ \A q \in Proc : parent[q] # None => Parental(parent[q])

\* fork's np is in nobody else's hands.
ForkOf(p) ==
  pc[p] \in {"fork_parent", "fork_run"} =>
     /\ arg[p] \in Proc
     /\ state[arg[p]] = "USED"
     /\ parent[arg[p]] = IF pc[p] = "fork_run" THEN p ELSE None

Forks ==
  /\ \A p \in Proc : ForkOf(p)
  /\ \A p, q \in Proc : pc[p] \in {"fork_parent", "fork_run"}
                        /\ pc[q] \in {"fork_parent", "fork_run"} /\ arg[p] = arg[q] => p = q

\* How far the loops of the holder of wait_lock have come.
LoopOf(p) ==
  /\ pc[p] \in {"reparent", "scan", "sleep"} => wakei = 1
  /\ pc[p] \in {"wakeparent", "sleep"} => wscan = 1
  /\ pc[p] = "reparent" => \A q \in Proc : q < wscan => parent[q] # p
  /\ pc[p] = "wakeinit" => wscan \in Proc /\ \A q \in Proc : q <= wscan => parent[q] # p
  /\ pc[p] = "wakeparent" /\ parent[p] < wakei => state[parent[p]] # "SLEEPING"
  /\ pc[p] = "scan" => \A q \in Proc : q < wscan /\ parent[q] = p => state[q] # "ZOMBIE"
  /\ pc[p] = "sleep" => \A q \in Proc : parent[q] = p => state[q] # "ZOMBIE"

Loops ==
  /\ wait_lock = None => wscan = 1 /\ wakei = 1
  /\ \A p \in Proc : LoopOf(p)

\* A process that sleeps in wait() has no ZOMBIE to reap, or is about to be woken.
NotLost ==
  \A p, q \in Proc : state[p] = "SLEEPING" /\ parent[q] = p /\ state[q] = "ZOMBIE" =>
     p = initproc /\ wakei = 1 /\ wait_lock # None /\ pc[wait_lock] = "wakeinit"

\* A fork under way has its pid.
Forking == {q \in Proc : pc[q] = "allocproc"}
Pids == nextpid + Cardinality(Forking) <= MaxPid + 1

\* The inductive invariant.
Core == Slots /\ Family /\ Forks /\ Loops /\ NotLost
IndInv == TypeOK /\ Core /\ Pids

-----------------------------------------------------------------------------
(* Facts about slots                                                       *)

USE SMTT(30)

\* Slots are positive numbers; init's is one of them.
LEMMA ProcFacts ==
  /\ initproc \in Proc /\ None \notin Proc /\ None # initproc /\ Proc \subseteq Nat
  /\ \A q \in Proc : q >= 1 /\ q <= NPROC
  /\ \A n \in 1..NPROC + 1 : n \in Nat /\ (n \in Proc <=> n # NPROC + 1)
  BY SizeAssumption DEF initproc, Proc, None

\* The order of slots.
LEMMA Order ==
  ASSUME NEW a \in Proc, NEW b \in Proc
  PROVE  /\ ~(a < 1) /\ a < NPROC + 1
         /\ a < b + 1 <=> a <= b
         /\ a <= b <=> a < b \/ a = b
  BY SizeAssumption DEF Proc

\* Code runs only in a process that is RUNNABLE.
LEMMA Runs ==
  ASSUME TypeOK, Slots, NEW p \in Proc, pc[p] \notin {"none", "sched", "asleep"}
  PROVE  state[p] = "RUNNABLE" /\ ~held[p] /\ (p # initproc => parent[p] # None)
  BY DEF TypeOK, Slots, SlotOf

\* One process at a time is in the code under wait_lock.
LEMMA Holder ==
  ASSUME Slots, NEW p \in Proc, pc[p] \in Locking
  PROVE  wait_lock = p /\ \A q \in Proc : q # p => pc[q] \notin Locking
  BY Zenon DEF Slots, SlotOf

\* When wait_lock is free, no process is in that code.
LEMMA NoHolder ==
  ASSUME Slots, wait_lock = None
  PROVE  \A q \in Proc : pc[q] \notin Locking
  BY ProcFacts, Zenon DEF Slots, SlotOf

\* A parent is another slot.
LEMMA Parents ==
  ASSUME TypeOK, Family, NEW q \in Proc, parent[q] # None
  PROVE  parent[q] \in Proc /\ Parental(parent[q])
  BY Zenon DEF TypeOK, Family

\* A process in exit() has a parent.
LEMMA ExitingParent ==
  ASSUME TypeOK, Core, NEW q \in Proc, pc[q] \in {"reparent", "wakeinit", "wakeparent"}
  PROVE  parent[q] \in Proc /\ q # initproc
  <1>1. q # initproc /\ parent[q] # None
    BY Runs, Zenon DEF Core, Slots, SlotOf, Exiting
  <1> QED
    BY <1>1, Parents, Zenon DEF Core

\* A step that takes no parent away, except from those that have none of their children left.
LEMMA FamilyKeeps ==
  ASSUME TypeOK, Family, parent'[initproc] = None,
         \A q \in Proc : parent'[q] \in {parent[q], None} \/ Parental(parent[q])',
         \A r \in Proc : Parental(r) => \/ Parental(r)'
                                        \/ r # initproc /\ \A q \in Proc : parent[q] # r
  PROVE  Family'
  <1>1. Parental(initproc)'
    BY ProcFacts, Zenon DEF Family
  <1>2. ASSUME NEW q \in Proc, parent'[q] # None PROVE Parental(parent[q])'
    <2> SUFFICES ASSUME parent'[q] = parent[q] PROVE Parental(parent[q])'
      BY <1>2, Zenon
    <2>1. parent'[q] = parent[q] /\ parent[q] # None
      BY <1>2, Zenon
    <2>2. parent[q] \in Proc /\ Parental(parent[q])
      BY <2>1, Parents, Zenon
    <2>3. Parental(parent[q])'
      BY <2>1, <2>2, Zenon DEF Parental, Alive
    <2> QED
      BY <2>3, Zenon
  <1> QED
    BY <1>1, <1>2, Zenon DEF Family

\* A process that keeps or changes its place, neither of which has to do with wait_lock or fork.
Plain == {"user", "allocproc", "exit", "wait", "kill"}

\* A step within the places that hold nothing keeps the invariant.
LEMMA PlainKeeps ==
  ASSUME TypeOK, Core, NEW p \in Proc, NEW to \in Plain,
         pc[p] \in Plain, to = "exit" => p # initproc, Goto(p, to),
         \A q \in Proc : q # p => arg'[q] = arg[q],
         state' = state, pid' = pid, parent' = parent, chan' = chan, held' = held,
         wait_lock' = wait_lock, wscan' = wscan, wakei' = wakei
  PROVE  Core'
  <1>1. /\ pc'[p] = to /\ \A q \in Proc : q # p => pc'[q] = pc[q]
        /\ to \notin {"fork_parent", "fork_run", "none", "sched", "asleep"} \cup Locking
        /\ pc[p] \notin {"fork_parent", "fork_run", "none", "sched", "asleep"} \cup Locking
    BY Zenon DEF TypeOK, Goto, Plain, Locking
  <1>2. Slots'
    BY <1>1 DEF Core, Slots, SlotOf, Plain, Exiting, Locking
  <1>3. Family'
    <2>1. \A r \in Proc : Parental(r) => Parental(r)'
      BY <1>1, Zenon DEF Parental, Alive, Locking
    <2> QED
      BY <2>1, FamilyKeeps, Zenon DEF Core, Family
  <1>4. Forks'
    BY <1>1 DEF Core, Forks, ForkOf
  <1>5. Loops'
    BY <1>1 DEF Core, Loops, LoopOf, Locking
  <1>6. NotLost'
    BY <1>1, ProcFacts DEF TypeOK, Core, NotLost, Locking
  <1> QED
    BY <1>2, <1>3, <1>4, <1>5, <1>6, Zenon DEF Core

-----------------------------------------------------------------------------
(* fork                                                                    *)

\* allocproc takes a free slot, or gives it back, or passes on.
LEMMA AllocprocKeeps ==
  ASSUME TypeOK, Core, NEW p \in Proc, NEW np, np = scan[p], allocproc(p)
  PROVE  Core'
  <1>1. CASE state[np] # "UNUSED"
    <2>1. pc' = pc /\ fields' = fields /\ held' = held /\ waitVars' = waitVars /\ arg' = arg
      BY <1>1, Zenon DEF allocproc
    <2> QED
      BY <2>1, PlainKeeps DEF allocproc, fields, waitVars, Goto, Plain, TypeOK
  <1>2. CASE state[np] = "UNUSED" /\ freeproc(np) /\ Goto(p, "user") /\ UNCHANGED arg
    <2>1. np \in Proc /\ pc[p] = "allocproc" /\ held' = held /\ waitVars' = waitVars
      BY <1>2, Zenon DEF allocproc
    <2>2. pid[np] = 0 /\ parent[np] = None /\ pc[np] = "none"
      BY <1>2, <2>1, Zenon DEF Core, Slots, SlotOf
    <2>3. state' = state /\ pid' = pid /\ parent' = parent
      BY <1>2, <2>2, Zenon DEF freeproc, TypeOK
    <2>4. /\ pc'[p] = "user" /\ \A q \in Proc : q # p => pc'[q] = pc[q]
          /\ \A q \in Proc : q # np => chan'[q] = chan[q]
      BY <1>2, <2>1, Zenon DEF freeproc, TypeOK, Goto
    <2>5. Slots'
      BY <2>1, <2>2, <2>3, <2>4 DEF Core, Slots, SlotOf, Exiting, Locking, waitVars
    <2>6. Family'
      <3>1. \A r \in Proc : Parental(r) => Parental(r)'
        BY <2>1, <2>3, <2>4, Zenon DEF Parental, Alive
      <3> QED
        BY <2>3, <3>1, FamilyKeeps, Zenon DEF Core, Family
    <2>7. Forks'
      BY <1>2, <2>1, <2>3, <2>4 DEF Core, Forks, ForkOf
    <2>8. Loops'
      BY <2>1, <2>3, <2>4 DEF Core, Loops, LoopOf, waitVars
    <2>9. NotLost'
      BY <2>1, <2>3, <2>4, ProcFacts DEF TypeOK, Core, NotLost, waitVars
    <2> QED
      BY <2>5, <2>6, <2>7, <2>8, <2>9, Zenon DEF Core
  <1>3. CASE /\ state[np] = "UNUSED"
             /\ pid' = [pid EXCEPT ![np] = nextpid] /\ state' = [state EXCEPT ![np] = "USED"]
             /\ arg' = [arg EXCEPT ![p] = np] /\ Goto(p, "fork_parent")
             /\ UNCHANGED <<parent, killed, chan>>
    <2>1. /\ np \in Proc /\ pc[p] = "allocproc" /\ held' = held /\ waitVars' = waitVars
          /\ parent' = parent /\ chan' = chan
      BY <1>3, Zenon DEF allocproc
    <2>2. /\ pid[np] = 0 /\ parent[np] = None /\ pc[np] = "none" /\ ~held[np] /\ p # np
          /\ np # initproc
      BY <1>3, <2>1, Zenon DEF Core, Slots, SlotOf, Family, Parental, Alive
    <2>3. /\ pc'[p] = "fork_parent" /\ \A q \in Proc : q # p => pc'[q] = pc[q] /\ arg'[q] = arg[q]
          /\ state'[np] = "USED"
          /\ \A q \in Proc : q # np => state'[q] = state[q] /\ pid'[q] = pid[q]
          /\ arg'[p] = np
      BY <1>3, <2>1, Zenon DEF TypeOK, Goto
    <2>4. \A q \in Proc : parent[q] # np
      BY <1>3, <2>1, ProcFacts, Zenon DEF Core, Family, Parental, Alive
    <2>5. Slots'
      BY <2>1, <2>2, <2>3 DEF Core, Slots, SlotOf, Exiting, Locking, waitVars
    <2>6. Family'
      <3>1. \A r \in Proc : Parental(r) => Parental(r)'
        BY <1>3, <2>1, <2>2, <2>3, Zenon DEF Parental, Alive
      <3> QED
        BY <2>1, <3>1, FamilyKeeps, Zenon DEF Core, Family
    <2>7. Forks'
      BY <1>3, <2>1, <2>2, <2>3 DEF Core, Forks, ForkOf
    <2>8. Loops'
      BY <1>3, <2>1, <2>3 DEF Core, Loops, LoopOf, waitVars
    <2>9. NotLost'
      BY <2>1, <2>3, ProcFacts DEF TypeOK, Core, NotLost, waitVars
    <2> QED
      BY <2>5, <2>6, <2>7, <2>8, <2>9, Zenon DEF Core
  <1> QED
    BY <1>1, <1>2, <1>3, Zenon DEF allocproc

\* fork gives np its parent: nobody is under wait_lock, so no loop sees it appear.
LEMMA ForkParentKeeps ==
  ASSUME TypeOK, Core, NEW p \in Proc, NEW np, np = arg[p], fork_parent(p)
  PROVE  Core'
  <1>1. /\ pc[p] = "fork_parent" /\ wait_lock = None
        /\ state' = state /\ pid' = pid /\ chan' = chan /\ held' = held /\ arg' = arg
        /\ waitVars' = waitVars
    BY Zenon DEF fork_parent
  <1>2. np \in Proc /\ state[np] = "USED" /\ parent[np] = None /\ np # initproc
    BY <1>1, Zenon DEF Core, Forks, ForkOf, Family, Parental, Alive
  <1>3. state[p] = "RUNNABLE"
    BY <1>1, Runs, Zenon DEF Core
  <1>4. /\ pc'[p] = "fork_run" /\ \A q \in Proc : q # p => pc'[q] = pc[q]
        /\ parent'[np] = p /\ \A q \in Proc : q # np => parent'[q] = parent[q]
    BY <1>2, Zenon DEF fork_parent, Goto, TypeOK
  <1>5. \A q \in Proc : pc[q] \notin Locking
    BY <1>1, NoHolder, Zenon DEF Core
  <1>6. Slots'
    BY <1>1, <1>2, <1>4 DEF Core, Slots, SlotOf, Exiting, Locking, waitVars
  <1>7. Family'
    <2>1. \A r \in Proc : Parental(r) => Parental(r)'
      BY <1>1, <1>4, Zenon DEF Parental, Alive
    <2>2. Parental(p) /\ Parental(p)'
      BY <1>1, <1>3, <1>4, Zenon DEF Parental, Alive
    <2>3. /\ parent'[initproc] = None
          /\ \A q \in Proc : parent'[q] = parent[q] \/ Parental(parent[q])'
      BY <1>2, <1>4, <2>2, ProcFacts, Zenon DEF Core, Family, Parental, Alive
    <2> QED
      BY <2>1, <2>3, FamilyKeeps, Zenon DEF Core
  <1>8. Forks'
    BY <1>1, <1>2, <1>4 DEF Core, Forks, ForkOf
  <1>9. Loops'
    BY <1>1, <1>4, <1>5 DEF Core, Loops, LoopOf, Locking, waitVars
  <1>10. NotLost'
    BY <1>1, <1>2, <1>4 DEF Core, NotLost, waitVars
  <1> QED
    BY <1>6, <1>7, <1>8, <1>9, <1>10, Zenon DEF Core

\* The child starts; its parent has been recorded.
LEMMA ForkRunKeeps ==
  ASSUME TypeOK, Core, NEW p \in Proc, NEW np, np = arg[p], fork_run(p)
  PROVE  Core'
  <1>1. /\ pc[p] = "fork_run"
        /\ pid' = pid /\ parent' = parent /\ chan' = chan /\ held' = held /\ waitVars' = waitVars
    BY Zenon DEF fork_run
  <1>2. np \in Proc /\ state[np] = "USED" /\ parent[np] = p /\ pc[np] = "none" /\ p # np
    BY <1>1, Zenon DEF Core, Forks, ForkOf, Slots, SlotOf
  <1>4. /\ pc'[p] = "user" /\ pc'[np] = "user" /\ state'[np] = "RUNNABLE"
        /\ \A q \in Proc : q # p => arg'[q] = arg[q] /\ (q # np => pc'[q] = pc[q])
        /\ \A q \in Proc : q # np => state'[q] = state[q]
    BY <1>2, Zenon DEF fork_run, TypeOK
  <1>6. Slots'
    BY <1>1, <1>2, <1>4, ProcFacts DEF Core, Slots, SlotOf, Exiting, Locking, waitVars
  <1>7. Family'
    <2>1. \A r \in Proc : Parental(r) => Parental(r)'
      BY <1>1, <1>2, <1>4, Zenon DEF Parental, Alive
    <2> QED
      BY <1>1, <2>1, FamilyKeeps, Zenon DEF Core, Family
  <1>8. Forks'
    BY <1>1, <1>2, <1>4 DEF Core, Forks, ForkOf
  <1>9. Loops'
    <2>1. ASSUME NEW q \in Proc PROVE LoopOf(q)'
      BY <1>1, <1>2, <1>4, ExitingParent DEF Core, Loops, LoopOf, waitVars
    <2> QED
      BY <1>1, <2>1, Zenon DEF Core, Loops, waitVars
  <1>10. NotLost'
    BY <1>1, <1>2, <1>4, ProcFacts DEF TypeOK, Core, NotLost, waitVars
  <1> QED
    BY <1>6, <1>7, <1>8, <1>9, <1>10, Zenon DEF Core

-----------------------------------------------------------------------------
(* exit                                                                    *)

\* exit() and wait() take wait_lock with the loop indices at the start.
LEMMA LockKeeps ==
  ASSUME TypeOK, Core, NEW p \in Proc, exit_lock(p) \/ wait_acquire(p)
  PROVE  Core'
  <1>1. /\ wait_lock = None /\ wait_lock' = p /\ wscan' = wscan /\ wakei' = wakei
        /\ state' = state /\ pid' = pid /\ parent' = parent /\ chan' = chan /\ held' = held
        /\ arg' = arg /\ pc[p] \in {"exit", "wait"} /\ pc'[p] \in {"reparent", "scan"}
        /\ (pc'[p] = "reparent" => pc[p] = "exit")
        /\ \A q \in Proc : q # p => pc'[q] = pc[q]
    BY Zenon DEF exit_lock, wait_acquire, fields, Goto, TypeOK
  <1>2. \A q \in Proc : pc[q] \notin Locking
    BY <1>1, NoHolder, Zenon DEF Core
  <1>3. wscan = 1 /\ wakei = 1
    BY <1>1, Zenon DEF Core, Loops
  <1>4. Slots'
    BY <1>1, <1>2, ProcFacts DEF Core, Slots, SlotOf, Exiting, Locking
  <1>5. Family'
    <2>1. \A r \in Proc : Parental(r) => Parental(r)'
      BY <1>1, Zenon DEF Parental, Alive
    <2> QED
      BY <1>1, <2>1, FamilyKeeps, Zenon DEF Core, Family
  <1>6. Forks'
    BY <1>1 DEF Core, Forks, ForkOf
  <1>7. Loops'
    BY <1>1, <1>2, <1>3, ProcFacts DEF Loops, LoopOf, Locking
  <1>8. NotLost'
    BY <1>1, Zenon DEF Core, NotLost
  <1> QED
    BY <1>4, <1>5, <1>6, <1>7, <1>8, Zenon DEF Core

\* reparent() passes a slot that is not its child.
LEMMA ReparentSkips ==
  ASSUME TypeOK, Core, NEW p \in Proc, reparent(p), wscan \in Proc, parent[wscan] # p
  PROVE  Core'
  <1>1. /\ pc[p] = "reparent" /\ pc' = pc /\ wscan' = wscan + 1
        /\ state' = state /\ pid' = pid /\ parent' = parent /\ chan' = chan /\ held' = held
        /\ arg' = arg /\ wait_lock' = wait_lock /\ wakei' = wakei
    BY Zenon DEF reparent
  <1>2. wait_lock = p /\ \A q \in Proc : q # p => pc[q] \notin Locking
    BY <1>1, Holder, Zenon DEF Core, Locking
  <1>3. Slots' /\ Family' /\ Forks' /\ NotLost'
    BY <1>1 DEF Core, Slots, SlotOf, Family, Parental, Alive, Forks, ForkOf, NotLost
  <1>4. Loops'
    <2>1. \A q \in Proc : q < wscan' => parent[q] # p
      BY <1>1, ProcFacts DEF Core, Loops, LoopOf
    <2>2. LoopOf(p)'
      BY <1>1, <2>1, Zenon DEF Core, Loops, LoopOf
    <2> QED
      BY <1>1, <1>2, <2>2, ProcFacts, Zenon DEF Loops, LoopOf, Locking
  <1> QED
    BY <1>3, <1>4, Zenon DEF Core

\* reparent() gives a child to init, and goes on to wake init.
LEMMA ReparentGives ==
  ASSUME TypeOK, Core, NEW p \in Proc, NEW k, k = wscan, reparent(p), k \in Proc, parent[k] = p
  PROVE  Core'
  <1>1. /\ pc[p] = "reparent" /\ wscan' = k /\ state' = state /\ pid' = pid /\ chan' = chan
        /\ held' = held /\ arg' = arg /\ wait_lock' = wait_lock /\ wakei' = wakei
    BY Zenon DEF reparent
  <1>2. /\ wait_lock = p /\ \A q \in Proc : q # p => pc[q] \notin Locking
        /\ p # initproc /\ k # initproc /\ p # None
    BY <1>1, Holder, ExitingParent, ProcFacts, Zenon DEF Core, Locking, Family
  <1>3. /\ parent'[k] = initproc /\ \A q \in Proc : q # k => parent'[q] = parent[q]
        /\ pc'[p] = "wakeinit" /\ \A q \in Proc : q # p => pc'[q] = pc[q]
    BY Zenon DEF reparent, Goto, TypeOK
  <1>4. Slots'
    BY <1>1, <1>2, <1>3, ProcFacts DEF Core, Slots, SlotOf, Exiting, Locking
  <1>5. Family'
    <2>1. \A r \in Proc : Parental(r) => Parental(r)'
      BY <1>1, <1>3, Zenon DEF Parental, Alive
    <2>2. Parental(initproc)'
      BY <2>1, ProcFacts, Zenon DEF Core, Family
    <2>3. /\ parent'[initproc] = None
          /\ \A q \in Proc : parent'[q] = parent[q] \/ Parental(parent[q])'
      BY <1>2, <1>3, <2>2, ProcFacts, Zenon DEF Core, Family, Parental, Alive
    <2> QED
      BY <2>1, <2>3, FamilyKeeps, Zenon DEF Core
  <1>6. Forks'
    <2>1. \A q \in Proc : pc[q] \in {"fork_parent", "fork_run"} => arg[q] # k
      BY <1>1, <1>2 DEF Core, Forks, ForkOf
    <2> QED
      BY <1>1, <1>3, <2>1 DEF Core, Forks, ForkOf
  <1>7. Loops'
    <2>1. \A q \in Proc : q <= k => parent'[q] # p
      BY <1>1, <1>2, <1>3, ProcFacts DEF Core, Loops, LoopOf
    <2>2. LoopOf(p)'
      BY <1>1, <1>3, <2>1, Zenon DEF LoopOf
    <2> QED
      BY <1>1, <1>2, <1>3, <2>2 DEF Loops, LoopOf, Locking
  <1>8. NotLost'
    <2>1. wakei = 1
      BY <1>1, Zenon DEF Core, Loops, LoopOf
    <2> QED
      BY <1>1, <1>2, <1>3, <2>1 DEF Core, NotLost
  <1> QED
    BY <1>4, <1>5, <1>6, <1>7, <1>8, Zenon DEF Core

\* The end of reparent(): p has no children left.
LEMMA ReparentEnds ==
  ASSUME TypeOK, Core, NEW p \in Proc, reparent(p), wscan \notin Proc
  PROVE  Core'
  <1>1. /\ pc[p] = "reparent" /\ wscan' = 1 /\ state' = state /\ pid' = pid /\ chan' = chan
        /\ held' = held /\ arg' = arg /\ wait_lock' = wait_lock /\ wakei' = wakei
        /\ parent' = parent /\ pc'[p] = "wakeparent" /\ \A q \in Proc : q # p => pc'[q] = pc[q]
    BY Zenon DEF reparent, Goto, TypeOK
  <1>2. /\ wait_lock = p /\ \A q \in Proc : q # p => pc[q] \notin Locking
        /\ p # initproc /\ wakei = 1 /\ parent[p] \in Proc
    BY <1>1, Holder, ExitingParent, Zenon DEF Core, Locking, Loops, LoopOf
  <1>3. \A q \in Proc : parent[q] # p
    <2>1. \A q \in Proc : q < wscan
      BY ProcFacts, SizeAssumption DEF TypeOK
    <2> QED
      BY <1>1, <2>1, Zenon DEF Core, Loops, LoopOf
  <1>4. Slots'
    BY <1>1, <1>2 DEF Core, Slots, SlotOf, Exiting, Locking
  <1>5. Family'
    <2>1. \A r \in Proc : Parental(r) => \/ Parental(r)'
                                         \/ r # initproc /\ \A q \in Proc : parent[q] # r
      BY <1>1, <1>2, <1>3, Zenon DEF Parental, Alive
    <2> QED
      BY <1>1, <2>1, FamilyKeeps, Zenon DEF Core, Family
  <1>6. Forks'
    BY <1>1 DEF Core, Forks, ForkOf
  <1>7. Loops'
    <2>1. ~(parent'[p] < wakei')
      BY <1>1, <1>2, Order, Zenon
    <2> QED
      BY <1>1, <1>2, <2>1, ProcFacts DEF Loops, LoopOf, Locking
  <1>8. NotLost'
    BY <1>1, <1>2, ProcFacts, Zenon DEF Core, NotLost
  <1> QED
    BY <1>4, <1>5, <1>6, <1>7, <1>8, Zenon DEF Core

\* A turn of wakeup(target): a sleeping process may become RUNNABLE.
LEMMA WakeupKeeps ==
  ASSUME TypeOK, Core, NEW p \in Proc, NEW k, k = wakei, wakeup(p)
  PROVE  Core'
  <1>1. /\ k \in Proc /\ wakei' = k + 1 /\ pc' = pc /\ pid' = pid /\ parent' = parent
        /\ chan' = chan /\ held' = held /\ arg' = arg /\ wait_lock' = wait_lock /\ wscan' = wscan
        /\ pc[p] \in {"wakeinit", "wakeparent"}
    BY Zenon DEF wakeup, WakeOne
  <1>2. /\ wait_lock = p /\ \A q \in Proc : q # p => pc[q] \notin Locking
        /\ p # initproc /\ parent[p] \in Proc
    BY <1>1, Holder, ExitingParent, Zenon DEF Core, Locking
  <1>3. /\ \A q \in Proc : q # k => state'[q] = state[q]
        /\ state'[k] = state[k] \/ (state[k] = "SLEEPING" /\ state'[k] = "RUNNABLE")
    BY <1>1, Zenon DEF wakeup, WakeOne, TypeOK
  <1>4. pc[p] = "wakeinit" /\ k = initproc => state'[k] # "SLEEPING"
    BY <1>1, <1>2, <1>3, Zenon DEF wakeup, WakeOne, Core, Slots, SlotOf, TypeOK
  <1>5. pc[p] = "wakeparent" /\ k = parent[p] => state'[k] # "SLEEPING"
    <2>1. state[p] # "SLEEPING" /\ (state[k] = "SLEEPING" => chan[k] = k)
      BY <1>1, Zenon DEF Core, Slots, SlotOf
    <2> QED
      BY <1>1, <1>3, <2>1, Zenon DEF wakeup, WakeOne, TypeOK
  <1>6. Slots'
    BY <1>1, <1>3 DEF Core, Slots, SlotOf
  <1>7. Family'
    <2>1. \A r \in Proc : Parental(r) => Parental(r)'
      BY <1>1, <1>3, Zenon DEF Parental, Alive
    <2> QED
      BY <1>1, <2>1, FamilyKeeps, Zenon DEF Core, Family
  <1>8. Forks'
    BY <1>1, <1>3 DEF Core, Forks, ForkOf
  <1>9. Loops'
    <2>1. pc[p] = "wakeparent" /\ parent[p] < k + 1 => state'[parent[p]] # "SLEEPING"
      <3>1. parent[p] < k + 1 => parent[p] < k \/ parent[p] = k
        BY <1>1, <1>2, Order, Zenon
      <3> QED
        BY <1>1, <1>2, <1>3, <1>5, <3>1, Zenon DEF Core, Loops, LoopOf
    <2>2. LoopOf(p)'
      BY <1>1, <1>3, <2>1, Zenon DEF Core, Loops, LoopOf
    <2> QED
      BY <1>1, <1>2, <2>2, ProcFacts, Zenon DEF Loops, LoopOf, Locking
  <1>10. NotLost'
    <2>1. ASSUME NEW r \in Proc, NEW q \in Proc,
                 state'[r] = "SLEEPING", parent'[q] = r, state'[q] = "ZOMBIE"
          PROVE  FALSE
      <3>1. state[r] = "SLEEPING" /\ parent[q] = r /\ state[q] = "ZOMBIE"
        BY <1>1, <1>3, <2>1, Zenon
      <3>2. r = initproc /\ k = 1 /\ pc[p] = "wakeinit"
        BY <1>2, <3>1, Zenon DEF Core, NotLost
      <3> QED
        BY <1>4, <2>1, <3>2, Zenon DEF initproc
    <2> QED
      BY <2>1, Zenon DEF NotLost
  <1> QED
    BY <1>6, <1>7, <1>8, <1>9, <1>10, Zenon DEF Core

\* wakeup(initproc) is over: init does not sleep over the orphan.
LEMMA WakeinitDoneKeeps ==
  ASSUME TypeOK, Core, NEW p \in Proc, wakeinit_done(p)
  PROVE  Core'
  <1>1. /\ pc[p] = "wakeinit" /\ wakei = NPROC + 1 /\ wakei' = 1 /\ wscan' = wscan + 1
        /\ state' = state /\ pid' = pid /\ parent' = parent /\ chan' = chan /\ held' = held
        /\ arg' = arg /\ wait_lock' = wait_lock
        /\ pc'[p] = "reparent" /\ \A q \in Proc : q # p => pc'[q] = pc[q]
    BY Zenon DEF wakeinit_done, Goto, TypeOK, fields
  <1>2. wait_lock = p /\ \A q \in Proc : q # p => pc[q] \notin Locking
    BY <1>1, Holder, Zenon DEF Core, Locking
  <1>3. Slots'
    BY <1>1, <1>2 DEF Core, Slots, SlotOf, Exiting, Locking
  <1>4. Family'
    <2>1. \A r \in Proc : Parental(r) => Parental(r)'
      BY <1>1, Zenon DEF Parental, Alive
    <2> QED
      BY <1>1, <2>1, FamilyKeeps DEF Core, Family
  <1>5. Forks'
    BY <1>1 DEF Core, Forks, ForkOf
  <1>6. Loops'
    <2>1. \A q \in Proc : q < wscan + 1 => parent[q] # p
      BY <1>1, Order, Zenon DEF Core, Loops, LoopOf
    <2>2. LoopOf(p)'
      BY <1>1, <2>1, Zenon DEF LoopOf
    <2> QED
      BY <1>1, <1>2, <2>2, ProcFacts DEF Loops, LoopOf, Locking
  <1>7. NotLost'
    <2>1. wakei # 1
      BY <1>1, SizeAssumption
    <2> QED
      BY <1>1, <2>1, Zenon DEF Core, NotLost
  <1> QED
    BY <1>3, <1>4, <1>5, <1>6, <1>7, Zenon DEF Core

\* p becomes a ZOMBIE without children; its parent, awake, will see it.
LEMMA ZombieKeeps ==
  ASSUME TypeOK, Core, NEW p \in Proc, zombie(p)
  PROVE  Core'
  <1>1. /\ pc[p] = "wakeparent" /\ wakei = NPROC + 1 /\ wakei' = 1 /\ wscan' = wscan
        /\ pid' = pid /\ parent' = parent /\ chan' = chan /\ arg' = arg /\ wait_lock' = None
        /\ pc'[p] = "sched" /\ state'[p] = "ZOMBIE" /\ held'[p] = TRUE
        /\ \A q \in Proc : q # p => pc'[q] = pc[q] /\ state'[q] = state[q] /\ held'[q] = held[q]
    BY Zenon DEF zombie, Goto, TypeOK
  <1>2. /\ wait_lock = p /\ \A q \in Proc : q # p => pc[q] \notin Locking
        /\ p # initproc /\ parent[p] \in Proc /\ state[p] = "RUNNABLE"
    BY <1>1, Holder, ExitingParent, Runs, Zenon DEF Core, Locking
  <1>3. \A q \in Proc : parent[q] # p
    BY <1>1, ProcFacts, ZenonT(40) DEF Core, Family, Parental
  <1>4. Slots'
    <2>1. ASSUME NEW q \in Proc, q # p PROVE SlotOf(q)'
      <3>1. SlotOf(q) /\ pc'[q] = pc[q] /\ state'[q] = state[q] /\ held'[q] = held[q]
        BY <1>1, <2>1, Zenon DEF Core, Slots
      <3>2. wait_lock' # q /\ pc[q] \notin Locking
        BY <1>1, <1>2, <2>1, ProcFacts, Zenon
      <3> QED
        BY <1>1, <3>1, <3>2, Zenon DEF SlotOf
    <2>2. SlotOf(p)'
      <3>1. parent'[p] # None /\ wait_lock' # p /\ pc'[p] \notin Locking
        BY <1>1, <1>2, ProcFacts, Zenon DEF Locking
      <3> QED
        BY <1>1, <1>2, <3>1, Zenon DEF SlotOf
    <2> QED
      BY <2>1, <2>2, Zenon DEF Slots
  <1>5. Family'
    <2>1. \A r \in Proc : Parental(r) => \/ Parental(r)'
                                         \/ r # initproc /\ \A q \in Proc : parent[q] # r
      BY <1>1, <1>2, <1>3, Zenon DEF Parental, Alive
    <2> QED
      BY <1>1, <2>1, FamilyKeeps, Zenon DEF Core, Family
  <1>6. Forks'
    BY <1>1, <1>2 DEF Core, Forks, ForkOf
  <1>7. Loops'
    <2>1. wscan = 1
      BY <1>1, Zenon DEF Core, Loops, LoopOf
    <2> QED
      BY <1>1, <1>2, <2>1 DEF Loops, LoopOf, Locking
  <1>8. NotLost'
    <2>1. state[parent[p]] # "SLEEPING"
      <3>1. parent[p] < wakei
        BY <1>1, <1>2, Order, Zenon
      <3> QED
        BY <1>1, <3>1, Zenon DEF Core, Loops, LoopOf
    <2>2. wakei # 1
      BY <1>1, SizeAssumption
    <2> QED
      BY <1>1, <1>2, <1>3, <2>1, <2>2 DEF Core, NotLost
  <1> QED
    BY <1>4, <1>5, <1>6, <1>7, <1>8, Zenon DEF Core

\* The scheduler lets go of the lock of a ZOMBIE.
LEMMA SchedulerBackKeeps ==
  ASSUME TypeOK, Core, NEW p \in Proc, scheduler_back(p)
  PROVE  Core'
  <1>1. /\ pc[p] = "sched" /\ pc'[p] = "none" /\ held'[p] = FALSE
        /\ \A q \in Proc : q # p => pc'[q] = pc[q] /\ held'[q] = held[q]
        /\ state' = state /\ pid' = pid /\ parent' = parent /\ chan' = chan /\ arg' = arg
        /\ waitVars' = waitVars
    BY Zenon DEF scheduler_back, Goto, TypeOK, fields
  <1>2. state[p] = "ZOMBIE"
    BY <1>1, Zenon DEF Core, Slots, SlotOf, TypeOK
  <1>3. Slots'
    BY <1>1, <1>2, ProcFacts DEF Core, Slots, SlotOf, Exiting, Locking, waitVars
  <1>4. Family'
    <2>1. \A r \in Proc : Parental(r) => Parental(r)'
      BY <1>1, Zenon DEF Parental, Alive
    <2> QED
      BY <1>1, <2>1, FamilyKeeps, Zenon DEF Core, Family
  <1>5. Forks'
    BY <1>1 DEF Core, Forks, ForkOf
  <1>6. Loops'
    BY <1>1 DEF Core, Loops, LoopOf, waitVars
  <1>7. NotLost'
    BY <1>1, ProcFacts DEF Core, NotLost, waitVars, TypeOK
  <1> QED
    BY <1>3, <1>4, <1>5, <1>6, <1>7, Zenon DEF Core

-----------------------------------------------------------------------------
(* wait and kill                                                           *)

\* wait() passes a slot in which it finds nothing to reap.
LEMMA WaitScanPasses ==
  ASSUME TypeOK, Core, NEW p \in Proc, NEW k, k = wscan, wait_scan(p),
         parent[k] # p \/ state[k] # "ZOMBIE"
  PROVE  Core'
  <1>1. /\ pc[p] = "scan" /\ k \in Proc /\ pc' = pc /\ wscan' = k + 1
        /\ state' = state /\ pid' = pid /\ parent' = parent /\ chan' = chan /\ held' = held
        /\ arg' = arg /\ wait_lock' = wait_lock /\ wakei' = wakei
    BY Zenon DEF wait_scan, fields
  <1>2. wait_lock = p /\ \A q \in Proc : q # p => pc[q] \notin Locking
    BY <1>1, Holder, Zenon DEF Core, Locking
  <1>3. Slots' /\ Family' /\ Forks' /\ NotLost'
    BY <1>1 DEF Core, Slots, SlotOf, Family, Parental, Alive, Forks, ForkOf, NotLost
  <1>4. Loops'
    <2>1. \A q \in Proc : q < k + 1 /\ parent[q] = p => state[q] # "ZOMBIE"
      BY <1>1, Order, Zenon DEF Core, Loops, LoopOf
    <2>2. LoopOf(p)'
      BY <1>1, <2>1, Zenon DEF Core, Loops, LoopOf
    <2> QED
      BY <1>1, <1>2, <2>2, ProcFacts, Zenon DEF Loops, LoopOf, Locking
  <1> QED
    BY <1>3, <1>4, Zenon DEF Core

\* wait() returns, from its loop or at the end of it, with the lock released.
LEMMA WaitReturns ==
  ASSUME TypeOK, Core, NEW p \in Proc, pc[p] = "scan", Goto(p, "user"), wait_lock' = None,
         wscan' = 1, wakei' = wakei, held' = held, arg' = arg,
         state' = state, pid' = pid, parent' = parent, chan' = chan
  PROVE  Core'
  <1>1. pc'[p] = "user" /\ \A q \in Proc : q # p => pc'[q] = pc[q]
    BY Zenon DEF Goto, TypeOK
  <1>2. wait_lock = p /\ \A q \in Proc : q # p => pc[q] \notin Locking
    BY Holder, Zenon DEF Core, Locking
  <1>3. Slots'
    BY <1>1, <1>2, ProcFacts DEF Core, Slots, SlotOf, Exiting, Locking
  <1>4. Family'
    <2>1. \A r \in Proc : Parental(r) => Parental(r)'
      BY <1>1, Zenon DEF Parental, Alive
    <2> QED
      BY <2>1, FamilyKeeps, Zenon DEF Core, Family
  <1>5. Forks'
    BY <1>1 DEF Core, Forks, ForkOf
  <1>6. Loops'
    BY <1>1, <1>2, ProcFacts DEF Core, Loops, LoopOf, Locking
  <1>7. NotLost'
    BY <1>2, Zenon DEF Core, NotLost
  <1> QED
    BY <1>3, <1>4, <1>5, <1>6, <1>7, Zenon DEF Core

\* wait() frees a ZOMBIE, which is off its stack and has no children.
LEMMA WaitFrees ==
  ASSUME TypeOK, Core, NEW p \in Proc, NEW k, k = wscan, wait_scan(p), freeproc(k),
         k \in Proc, parent[k] = p, state[k] = "ZOMBIE"
  PROVE  Core'
  <1>1. /\ pc[p] = "scan" /\ ~held[k] /\ wait_lock' = None /\ wscan' = 1 /\ wakei' = wakei
        /\ held' = held /\ arg' = arg
        /\ pc'[p] = "user" /\ \A q \in Proc : q # p => pc'[q] = pc[q]
    BY Zenon DEF wait_scan, Goto, TypeOK
  <1>2. /\ state'[k] = "UNUSED" /\ pid'[k] = 0 /\ parent'[k] = None
        /\ \A q \in Proc : q # k => /\ state'[q] = state[q] /\ pid'[q] = pid[q]
                                    /\ parent'[q] = parent[q] /\ chan'[q] = chan[q]
    BY Zenon DEF freeproc, TypeOK
  <1>3. /\ wait_lock = p /\ \A q \in Proc : q # p => pc[q] \notin Locking
        /\ state[p] = "RUNNABLE" /\ wakei = 1
    BY <1>1, Holder, Runs, Zenon DEF Core, Locking, Loops, LoopOf
  <1>4. pc[k] = "none" /\ k # initproc /\ \A q \in Proc : parent[q] # k
    BY <1>1, ProcFacts DEF Core, Slots, SlotOf, Family, Parental, Alive
  <1>5. Slots'
    BY <1>1, <1>2, <1>3, <1>4, ProcFacts DEF Core, Slots, SlotOf, Exiting, Locking
  <1>6. Family'
    <2>1. \A r \in Proc : Parental(r) => \/ Parental(r)'
                                         \/ r # initproc /\ \A q \in Proc : parent[q] # r
      BY <1>1, <1>2, <1>3, <1>4 DEF Parental, Alive
    <2>2. parent'[initproc] = None /\ \A q \in Proc : parent'[q] \in {parent[q], None}
      BY <1>2, <1>4, ProcFacts, Zenon DEF Core, Family
    <2> QED
      BY <2>1, <2>2, FamilyKeeps, Zenon DEF Core
  <1>7. Forks'
    BY <1>1, <1>2 DEF Core, Forks, ForkOf
  <1>8. Loops'
    BY <1>1, <1>3, ProcFacts DEF Loops, LoopOf, Locking
  <1>9. NotLost'
    BY <1>1, <1>2, <1>3, ProcFacts DEF Core, NotLost
  <1> QED
    BY <1>5, <1>6, <1>7, <1>8, <1>9, Zenon DEF Core

\* A turn of wait()'s loop.
LEMMA WaitScanKeeps ==
  ASSUME TypeOK, Core, NEW p \in Proc, wait_scan(p)
  PROVE  Core'
  <1>1. CASE parent[wscan] # p \/ state[wscan] # "ZOMBIE"
    BY <1>1, WaitScanPasses, Zenon
  <1>2. CASE parent[wscan] = p /\ state[wscan] = "ZOMBIE" /\ freeproc(wscan)
    BY <1>2, WaitFrees, Zenon DEF wait_scan
  <1>3. CASE parent[wscan] = p /\ state[wscan] = "ZOMBIE" /\ UNCHANGED fields
    BY <1>3, WaitReturns, Zenon DEF wait_scan, fields
  <1> QED
    BY <1>1, <1>2, <1>3, Zenon DEF wait_scan

\* wait() has seen all of the table: it returns, or will sleep, with nothing to reap.
LEMMA WaitDecideKeeps ==
  ASSUME TypeOK, Core, NEW p \in Proc, wait_decide(p)
  PROVE  Core'
  <1>1. CASE Goto(p, "user") /\ wait_lock' = None
    BY <1>1, WaitReturns, Zenon DEF wait_decide, fields
  <1>2. CASE Goto(p, "sleep") /\ UNCHANGED wait_lock
    <2>1. /\ pc[p] = "scan" /\ wscan = NPROC + 1 /\ wscan' = 1 /\ wait_lock' = wait_lock
          /\ state' = state /\ pid' = pid /\ parent' = parent /\ chan' = chan /\ held' = held
          /\ arg' = arg /\ wakei' = wakei
          /\ pc'[p] = "sleep" /\ \A q \in Proc : q # p => pc'[q] = pc[q]
      BY <1>2, Zenon DEF wait_decide, fields, Goto, TypeOK
    <2>2. /\ wait_lock = p /\ \A q \in Proc : q # p => pc[q] \notin Locking
          /\ wakei = 1
      BY <2>1, Holder, Zenon DEF Core, Locking, Loops, LoopOf
    <2>3. Slots'
      BY <2>1, <2>2 DEF Core, Slots, SlotOf, Exiting, Locking
    <2>4. Family'
      <3>1. \A r \in Proc : Parental(r) => Parental(r)'
        BY <2>1, Zenon DEF Parental, Alive
      <3> QED
        BY <2>1, <3>1, FamilyKeeps, Zenon DEF Core, Family
    <2>5. Forks'
      BY <2>1 DEF Core, Forks, ForkOf
    <2>6. Loops'
      <3>1. \A q \in Proc : parent[q] = p => state[q] # "ZOMBIE"
        BY <2>1, Order, Zenon DEF Core, Loops, LoopOf
      <3>2. LoopOf(p)'
        BY <2>1, <2>2, <3>1, Zenon DEF LoopOf
      <3> QED
        BY <2>1, <2>2, <3>2, ProcFacts DEF Loops, LoopOf, Locking
    <2>7. NotLost'
      BY <2>1, <2>2, Zenon DEF Core, NotLost
    <2> QED
      BY <2>3, <2>4, <2>5, <2>6, <2>7, Zenon DEF Core
  <1> QED
    BY <1>1, <1>2, Zenon DEF wait_decide

\* wait() falls asleep, with wait_lock held until it does, so without a ZOMBIE to reap.
LEMMA WaitSleepKeeps ==
  ASSUME TypeOK, Core, NEW p \in Proc, wait_sleep(p)
  PROVE  Core'
  <1>1. /\ pc[p] = "sleep" /\ wait_lock' = None /\ wscan' = wscan /\ wakei' = wakei
        /\ pid' = pid /\ parent' = parent /\ held' = held /\ arg' = arg
        /\ pc'[p] = "asleep" /\ state'[p] = "SLEEPING" /\ chan'[p] = p
        /\ \A q \in Proc : q # p => pc'[q] = pc[q] /\ state'[q] = state[q] /\ chan'[q] = chan[q]
    BY Zenon DEF wait_sleep, Goto, TypeOK
  <1>2. /\ wait_lock = p /\ \A q \in Proc : q # p => pc[q] \notin Locking
        /\ state[p] = "RUNNABLE" /\ wscan = 1 /\ wakei = 1
        /\ p # initproc => parent[p] # None
    BY <1>1, Holder, Runs, Zenon DEF Core, Locking, Loops, LoopOf
  <1>3. Slots'
    BY <1>1, <1>2, ProcFacts DEF Core, Slots, SlotOf, Exiting, Locking
  <1>4. Family'
    <2>1. \A r \in Proc : Parental(r) => Parental(r)'
      BY <1>1, <1>2, Zenon DEF Parental, Alive
    <2> QED
      BY <1>1, <2>1, FamilyKeeps, Zenon DEF Core, Family
  <1>5. Forks'
    BY <1>1, <1>2 DEF Core, Forks, ForkOf
  <1>6. Loops'
    BY <1>1, <1>2 DEF Loops, LoopOf, Locking
  <1>7. NotLost'
    <2>1. \A q \in Proc : parent[q] = p => state[q] # "ZOMBIE"
      BY <1>1, Zenon DEF Core, Loops, LoopOf
    <2> QED
      BY <1>1, <1>2, <2>1 DEF Core, NotLost
  <1> QED
    BY <1>3, <1>4, <1>5, <1>6, <1>7, Zenon DEF Core

\* A process that has been woken up goes to take wait_lock again.
LEMMA AwakeKeeps ==
  ASSUME TypeOK, Core, NEW p \in Proc, awake(p)
  PROVE  Core'
  <1>1. /\ pc[p] = "asleep" /\ state[p] = "RUNNABLE" /\ pc'[p] = "wait"
        /\ \A q \in Proc : q # p => pc'[q] = pc[q] /\ chan'[q] = chan[q]
        /\ state' = state /\ pid' = pid /\ parent' = parent /\ held' = held /\ arg' = arg
        /\ waitVars' = waitVars
    BY Zenon DEF awake, Goto, TypeOK
  <1>2. Slots'
    BY <1>1, ProcFacts DEF Core, Slots, SlotOf, Exiting, Locking, waitVars
  <1>3. Family'
    <2>1. \A r \in Proc : Parental(r) => Parental(r)'
      BY <1>1, Zenon DEF Parental, Alive
    <2> QED
      BY <1>1, <2>1, FamilyKeeps, Zenon DEF Core, Family
  <1>4. Forks'
    BY <1>1 DEF Core, Forks, ForkOf
  <1>5. Loops'
    BY <1>1 DEF Core, Loops, LoopOf, waitVars
  <1>6. NotLost'
    BY <1>1, ProcFacts DEF Core, NotLost, waitVars, TypeOK
  <1> QED
    BY <1>2, <1>3, <1>4, <1>5, <1>6, Zenon DEF Core

\* kill() may make a sleeping process RUNNABLE, and touches nothing else here.
LEMMA KillHits ==
  ASSUME TypeOK, Core, NEW p \in Proc, NEW k, k = scan[p], kill_scan(p), pid[k] = arg[p]
  PROVE  Core'
  <1>1. /\ pc[p] = "kill" /\ pc'[p] = "user" /\ k \in Proc
        /\ \A q \in Proc : q # p => pc'[q] = pc[q] /\ arg'[q] = arg[q]
        /\ pid' = pid /\ parent' = parent /\ chan' = chan /\ held' = held /\ waitVars' = waitVars
    BY Zenon DEF kill_scan, Goto, TypeOK
  <1>2. /\ \A q \in Proc : q # k => state'[q] = state[q]
        /\ state'[k] = state[k] \/ (state[k] = "SLEEPING" /\ state'[k] = "RUNNABLE")
    BY <1>1 DEF kill_scan, TypeOK
  <1>3. Slots'
    BY <1>1, <1>2, ProcFacts DEF Core, Slots, SlotOf, Exiting, Locking, waitVars
  <1>4. Family'
    <2>1. \A r \in Proc : Parental(r) => Parental(r)'
      BY <1>1, <1>2, Zenon DEF Parental, Alive
    <2> QED
      BY <1>1, <2>1, FamilyKeeps, Zenon DEF Core, Family
  <1>5. Forks'
    BY <1>1, <1>2 DEF Core, Forks, ForkOf
  <1>6. Loops'
    <2>1. ASSUME NEW q \in Proc PROVE LoopOf(q)'
      BY <1>1, <1>2, ExitingParent DEF Core, Loops, LoopOf, waitVars
    <2> QED
      BY <1>1, <2>1, Zenon DEF Core, Loops, waitVars
  <1>7. NotLost'
    BY <1>1, <1>2, ProcFacts DEF Core, NotLost, waitVars, TypeOK
  <1> QED
    BY <1>3, <1>4, <1>5, <1>6, <1>7, Zenon DEF Core

-----------------------------------------------------------------------------
(* Types                                                                   *)

\* Every variable keeps its type.
LEMMA TypeOKNext ==
  ASSUME TypeOK, Core, Next,
         \A p \in Proc : pc[p] = "allocproc" =>
                            nextpid \in 0..MaxPid /\ nextpid + 1 \in 1..MaxPid + 1
  PROVE  TypeOK'
  <1>a. Proc \subseteq Nat
    BY ProcFacts, Zenon
  <1>b. \A n \in 1..NPROC + 1 : n \in Proc => n + 1 \in 1..NPROC + 1
    BY SizeAssumption DEF Proc
  <1>c. 1 \in 1..NPROC + 1 /\ None \in Proc \cup {None} /\ initproc \in Proc
    BY SizeAssumption, ProcFacts
  <1>d. \A p \in Proc : pc[p] \in {"fork_parent", "fork_run"} => arg[p] \in Proc
    BY Zenon DEF Core, Forks, ForkOf
  <1>1. ASSUME NEW p \in Proc, fork(p) PROVE TypeOK'
    BY <1>1, <1>c, Zenon DEF TypeOK, PC, fork, Goto, Enters, fields, waitVars
  <1>2. ASSUME NEW p \in Proc, allocproc(p) PROVE TypeOK'
    <2>1. /\ wait_lock' = wait_lock /\ wscan' = wscan /\ wakei' = wakei /\ havekids' = havekids
          /\ held' = held /\ nextpid' \in 1..MaxPid + 1
      BY <1>2, Zenon DEF allocproc, waitVars, TypeOK
    <2>2. scan' \in [Proc -> 1..NPROC + 1] /\ arg' \in [Proc -> Nat] /\ pc' \in [Proc -> PC]
      BY <1>2, <1>a, <1>b, <1>c DEF allocproc, Goto, TypeOK, PC
    <2>3. /\ pid' \in [Proc -> 0..MaxPid]
          /\ state' \in [Proc -> {"UNUSED", "USED", "SLEEPING", "RUNNABLE", "ZOMBIE"}]
      BY <1>2, SizeAssumption DEF allocproc, freeproc, fields, TypeOK
    <2>4. /\ parent' \in [Proc -> Proc \cup {None}] /\ killed' \in [Proc -> {0, 1}]
          /\ chan' \in [Proc -> Proc \cup {None}]
      BY <1>2, Zenon DEF allocproc, freeproc, fields, TypeOK
    <2> QED
      BY <2>1, <2>2, <2>3, <2>4, Zenon DEF TypeOK
  <1>3. ASSUME NEW p \in Proc, fork_fails(p) PROVE TypeOK'
    BY <1>3, <1>c, Zenon DEF TypeOK, PC, fork_fails, Goto, fields, waitVars
  <1>4. ASSUME NEW p \in Proc, fork_parent(p) PROVE TypeOK'
    BY <1>4, <1>c, <1>d, Zenon DEF TypeOK, PC, fork_parent, Goto, waitVars
  <1>5. ASSUME NEW p \in Proc, fork_run(p) PROVE TypeOK'
    BY <1>5, <1>c, <1>d, Zenon DEF TypeOK, PC, fork_run, waitVars
  <1>6. ASSUME NEW p \in Proc, exit(p) PROVE TypeOK'
    BY <1>6, <1>c, Zenon DEF TypeOK, PC, exit, Goto, waitVars
  <1>7. ASSUME NEW p \in Proc, exit_lock(p) PROVE TypeOK'
    BY <1>7, <1>c, Zenon DEF TypeOK, PC, exit_lock, Goto, fields
  <1>8. ASSUME NEW p \in Proc, reparent(p) PROVE TypeOK'
    BY <1>8, <1>c, <1>b DEF TypeOK, PC, reparent, Goto
  <1>9. ASSUME NEW p \in Proc, wakeup(p) PROVE TypeOK'
    BY <1>9, <1>c, <1>b, Zenon DEF TypeOK, PC, wakeup, WakeOne
  <1>e. \A p \in Proc : pc[p] = "wakeinit" => wscan \in Proc
    BY Zenon DEF Core, Loops, LoopOf
  <1>10. ASSUME NEW p \in Proc, wakeinit_done(p) PROVE TypeOK'
    BY <1>10, <1>c, <1>b, <1>e, Zenon DEF TypeOK, PC, wakeinit_done, Goto, fields
  <1>11. ASSUME NEW p \in Proc, zombie(p) PROVE TypeOK'
    BY <1>11, <1>c, Zenon DEF TypeOK, PC, zombie, Goto
  <1>12. ASSUME NEW p \in Proc, scheduler_back(p) PROVE TypeOK'
    BY <1>12, <1>c, Zenon DEF TypeOK, PC, scheduler_back, Goto, fields, waitVars
  <1>13. ASSUME NEW p \in Proc, wait(p) PROVE TypeOK'
    BY <1>13, <1>c, Zenon DEF TypeOK, PC, wait, Goto, Enters, fields, waitVars
  <1>14. ASSUME NEW p \in Proc, wait_acquire(p) PROVE TypeOK'
    BY <1>14, <1>c, Zenon DEF TypeOK, PC, wait_acquire, Goto, fields
  <1>15. ASSUME NEW p \in Proc, wait_scan(p) PROVE TypeOK'
    <2>1. /\ held' = held /\ nextpid' = nextpid /\ wakei' = wakei /\ scan' = scan /\ arg' = arg
          /\ wait_lock' \in Proc \cup {None} /\ wscan' \in 1..NPROC + 1 /\ havekids' \in BOOLEAN
          /\ pc' \in [Proc -> PC]
      BY <1>15, <1>b, <1>c, Zenon DEF wait_scan, Goto, TypeOK, PC
    <2>2. fields' = fields \/ freeproc(wscan)
      BY <1>15, Zenon DEF wait_scan
    <2>3. /\ pid' \in [Proc -> 0..MaxPid]
          /\ state' \in [Proc -> {"UNUSED", "USED", "SLEEPING", "RUNNABLE", "ZOMBIE"}]
          /\ parent' \in [Proc -> Proc \cup {None}] /\ killed' \in [Proc -> {0, 1}]
          /\ chan' \in [Proc -> Proc \cup {None}]
      BY <2>2, SizeAssumption DEF freeproc, fields, TypeOK
    <2> QED
      BY <2>1, <2>3, Zenon DEF TypeOK
  <1>16. ASSUME NEW p \in Proc, wait_decide(p) PROVE TypeOK'
    BY <1>16, <1>c, Zenon DEF TypeOK, PC, wait_decide, Goto, fields
  <1>17. ASSUME NEW p \in Proc, wait_sleep(p) PROVE TypeOK'
    BY <1>17, <1>c, Zenon DEF TypeOK, PC, wait_sleep, Goto
  <1>18. ASSUME NEW p \in Proc, awake(p) PROVE TypeOK'
    BY <1>18, <1>c, Zenon DEF TypeOK, PC, awake, Goto, waitVars
  <1>19. ASSUME NEW p \in Proc, kill_scan(p) PROVE TypeOK'
    BY <1>19, <1>c, <1>b DEF TypeOK, PC, kill_scan, Goto, waitVars
  <1>20. ASSUME NEW p \in Proc, kill_fails(p) PROVE TypeOK'
    BY <1>20, <1>c, Zenon DEF TypeOK, PC, kill_fails, Goto, fields, waitVars
  <1>21. ASSUME NEW p \in Proc, NEW m \in KillPids, kill(p, m) PROVE TypeOK'
    BY <1>21, SizeAssumption, Zenon DEF TypeOK, PC, kill, Enters, Goto, fields, waitVars
  <1> QED
    BY <1>1, <1>2, <1>3, <1>4, <1>5, <1>6, <1>7, <1>8, <1>9, <1>10, <1>11, <1>12,
       <1>13, <1>14, <1>15, <1>16, <1>17, <1>18, <1>19, <1>20, <1>21, Zenon
       DEF Next, Step, TakeLock

\* Every step keeps what IndInv says about slots, families and loops.
LEMMA CoreNext ==
  ASSUME TypeOK, Core, Next
  PROVE  Core'
  <1>1. PICK p \in Proc : \/ Step(p) \/ TakeLock(p) \/ fork(p) \/ exit(p) \/ wait(p)
                          \/ \E n \in KillPids : kill(p, n)
    BY Zenon DEF Next
  <1>2. ASSUME fork(p) \/ fork_fails(p) \/ exit(p) \/ wait(p) \/ kill_fails(p)
               \/ \E n \in KillPids : kill(p, n)
        PROVE  Core'
    BY <1>2, PlainKeeps, Zenon
       DEF fork, fork_fails, exit, wait, kill, kill_fails, Enters, Plain, fields, waitVars, TypeOK
  <1>3. CASE kill_scan(p) /\ pid[scan[p]] # arg[p]
    BY <1>3, PlainKeeps DEF kill_scan, Goto, Plain, waitVars, TypeOK
  <1>4. CASE reparent(p)
    BY <1>4, ReparentSkips, ReparentGives, ReparentEnds, Zenon
  <1> QED
    BY <1>1, <1>2, <1>3, <1>4, AllocprocKeeps, ForkParentKeeps, ForkRunKeeps, LockKeeps,
       WakeupKeeps, WakeinitDoneKeeps, ZombieKeeps, SchedulerBackKeeps, WaitScanKeeps,
       WaitDecideKeeps, WaitSleepKeeps, AwakeKeeps, KillHits, Zenon
       DEF Step, TakeLock

-----------------------------------------------------------------------------
(* Pids                                                                    *)

INSTANCE FiniteSetTheorems

\* The processes in allocproc() are finitely many.
LEMMA ForkingFinite ==
  /\ IsFiniteSet(Forking) /\ Cardinality(Forking) \in Nat
  /\ \A p \in Proc : pc[p] = "allocproc" => Cardinality(Forking) >= 1
  <1>1. IsFiniteSet(Proc)
    BY FS_Interval, SizeAssumption DEF Proc
  <1>2. IsFiniteSet(Forking)
    BY <1>1, FS_Subset, Zenon DEF Forking
  <1>3. ASSUME NEW p \in Proc, pc[p] = "allocproc" PROVE Cardinality(Forking) >= 1
    <2>1. Forking # {}
      BY <1>3, Zenon DEF Forking
    <2> QED
      BY <1>2, <2>1, FS_EmptySet, FS_CardinalityType
  <1> QED
    BY <1>2, <1>3, FS_CardinalityType, Zenon

\* The pid a fork takes is within the bound.
LEMMA PidLeft ==
  ASSUME TypeOK, Pids, NEW p \in Proc, pc[p] = "allocproc"
  PROVE  nextpid \in 0..MaxPid /\ nextpid + 1 \in 1..MaxPid + 1
  BY ForkingFinite, SizeAssumption DEF TypeOK, Pids

\* Every fork under way has its pid in the end: fork() is let in only if one is left.
LEMMA PidsNext ==
  ASSUME TypeOK, Pids, Next
  PROVE  Pids'
  <1>1. PICK p \in Proc : \/ Step(p) \/ TakeLock(p) \/ fork(p) \/ exit(p) \/ wait(p)
                          \/ \E n \in KillPids : kill(p, n)
    BY Zenon DEF Next
  <1>2. CASE fork(p)
    <2>1. Forking' = Forking \cup {p}
      BY <1>2, Zenon DEF fork, Enters, Goto, Forking, TypeOK
    <2>2. p \notin Forking
      BY <1>2, Zenon DEF fork, Enters, Forking
    <2>3. Cardinality(Forking') = Cardinality(Forking) + 1
      BY <2>1, <2>2, ForkingFinite, FS_AddElement, Zenon
    <2> QED
      BY <1>2, <2>3, ForkingFinite, SizeAssumption DEF fork, Pids, Forking, TypeOK
  <1>3. CASE allocproc(p) /\ nextpid' # nextpid
    <2>1. Forking' = Forking \ {p} /\ p \in Forking /\ nextpid' = nextpid + 1
      BY <1>3, ZenonT(40) DEF allocproc, Goto, Forking, TypeOK
    <2>2. Cardinality(Forking') = Cardinality(Forking) - 1
      BY <2>1, ForkingFinite, FS_RemoveElement, Zenon
    <2> QED
      BY <2>1, <2>2, ForkingFinite, SizeAssumption DEF Pids, TypeOK
  <1>4. CASE ~fork(p) /\ ~(allocproc(p) /\ nextpid' # nextpid)
    <2>1. nextpid' = nextpid /\ \A q \in Proc : pc'[q] = "allocproc" => pc[q] = "allocproc"
      <3>1. CASE allocproc(p) \/ fork_fails(p) \/ fork_parent(p) \/ fork_run(p)
        BY <1>4, <3>1, Zenon DEF allocproc, fork_fails, fork_parent, fork_run, Goto, TypeOK
      <3>2. CASE exit(p) \/ exit_lock(p) \/ reparent(p) \/ wakeup(p) \/ wakeinit_done(p)
                 \/ zombie(p) \/ scheduler_back(p)
        BY <3>2, Zenon DEF exit, exit_lock, reparent, wakeup, wakeinit_done, zombie, scheduler_back,
           Goto, TypeOK
      <3>3. CASE wait(p) \/ wait_acquire(p) \/ wait_scan(p) \/ wait_decide(p) \/ wait_sleep(p)
                 \/ awake(p)
        BY <3>3, Zenon DEF wait, wait_acquire, wait_scan, wait_decide, wait_sleep, awake, Enters, Goto,
           TypeOK
      <3>4. CASE kill_scan(p) \/ kill_fails(p) \/ \E n \in KillPids : kill(p, n)
        BY <3>4, Zenon DEF kill_scan, kill_fails, kill, Enters, Goto, TypeOK
      <3> QED
        BY <1>1, <1>4, <3>1, <3>2, <3>3, <3>4, Zenon DEF Step, TakeLock
    <2>a. Forking' \subseteq Forking
      BY <2>1, Zenon DEF Forking
    <2>2. Cardinality(Forking') <= Cardinality(Forking) /\ Cardinality(Forking') \in Nat
      BY <2>a, ForkingFinite, FS_Subset, FS_CardinalityType, Zenon
    <2> QED
      BY <2>1, <2>2, ForkingFinite, SizeAssumption DEF Pids, TypeOK
  <1> QED
    BY <1>2, <1>3, <1>4, Zenon

-----------------------------------------------------------------------------
(* Theorems                                                                *)

\* The boot state has init alone in the table.
LEMMA InitInv == Init => IndInv
  <1> SUFFICES ASSUME Init PROVE IndInv
    BY Zenon
  <1>1. TypeOK
    <2>1. /\ 0 \in 0..MaxPid /\ 1 \in 0..MaxPid /\ 2 \in 1..MaxPid + 1
          /\ 1 \in 1..NPROC + 1 /\ 0 \in Nat
      BY SizeAssumption
    <2> QED
      BY <2>1, Zenon DEF Init, TypeOK, PC
  <1>2. Core
    BY ProcFacts, Zenon DEF Init, Core, Slots, SlotOf, Family, Parental, Alive, Forks, ForkOf, Loops,
       LoopOf, NotLost, Exiting, Locking
  <1>3. Pids
    <2>1. Forking = {}
      BY Zenon DEF Init, Forking
    <2> QED
      BY <2>1, FS_EmptySet, SizeAssumption DEF Init, Pids
  <1> QED
    BY <1>1, <1>2, <1>3, Zenon DEF IndInv

\* IndInv is an invariant: of any table, and however fork(), exit(), wait() and kill()
\* of its processes interleave.
THEOREM Inductive == Spec => []IndInv
  <1>1. IndInv /\ [Next]_vars => IndInv'
    <2> SUFFICES ASSUME IndInv, [Next]_vars PROVE IndInv'
      BY Zenon
    <2>1. CASE Next
      BY <2>1, PidLeft, TypeOKNext, CoreNext, PidsNext, Zenon DEF IndInv
    <2>2. CASE UNCHANGED vars
      <3>0. /\ state' = state /\ pid' = pid /\ parent' = parent /\ killed' = killed /\ chan' = chan
            /\ held' = held /\ nextpid' = nextpid /\ wait_lock' = wait_lock /\ wscan' = wscan
            /\ wakei' = wakei /\ havekids' = havekids /\ pc' = pc /\ scan' = scan /\ arg' = arg
        BY <2>2, Zenon DEF vars, fields, waitVars
      <3>1. TypeOK' /\ Pids'
        BY <3>0, ZenonT(40) DEF IndInv, TypeOK, Pids, Forking
      <3>2. Slots' /\ Family' /\ Forks'
        BY <3>0, ZenonT(40) DEF IndInv, Core, Slots, SlotOf, Family, Parental, Alive, Forks, ForkOf
      <3>3. Loops' /\ NotLost'
        BY <3>0, Zenon DEF IndInv, Core, Loops, LoopOf, NotLost
      <3> QED
        BY <3>1, <3>2, <3>3, Zenon DEF IndInv, Core
    <2> QED
      BY <2>1, <2>2, Zenon
  <1> QED
    BY InitInv, <1>1, PTL DEF Spec

\* exit() and wait() do not miss each other, and every process has a parent that can reap it
\* (exit, reparent, wakeup and wait of proc.c).
THEOREM NoLostExitHolds == Spec => []NoLostExit
  <1>1. IndInv => NoLostExit
    <2> SUFFICES ASSUME IndInv PROVE NoLostExit
      BY Zenon
    <2>1. wait_lock = None =>
            ~ \E p, q \in Proc : state[p] = "SLEEPING" /\ parent[q] = p /\ state[q] = "ZOMBIE"
      BY Zenon DEF IndInv, Core, NotLost
    <2>2. ASSUME NEW q \in Proc \ {initproc}, state[q] \in {"SLEEPING", "RUNNABLE", "ZOMBIE"}
          PROVE  parent[q] # None /\ state[parent[q]] \in {"SLEEPING", "RUNNABLE"}
      <3>1. parent[q] # None
        BY <2>2, Zenon DEF IndInv, Core, Slots, SlotOf
      <3>2. Parental(parent[q])
        BY <2>2, <3>1, Parents, Zenon DEF IndInv, Core
      <3> QED
        BY <3>1, <3>2, Zenon DEF Parental, Alive
    <2> QED
      BY <2>1, <2>2, Zenon DEF NoLostExit
  <1> QED
    BY <1>1, Inductive, PTL

\* A slot is free only once nobody runs in it, and nobody is to make it run (freeproc and
\* allocproc of proc.c).
THEOREM FreeSlotIdleHolds == Spec => []FreeSlotIdle
  <1>1. IndInv => FreeSlotIdle
    BY Zenon DEF IndInv, Core, FreeSlotIdle, Slots, SlotOf, Forks, ForkOf, Locking
  <1> QED
    BY <1>1, Inductive, PTL
=============================================================================
